---------------------------- MODULE Qcow2Proofs ----------------------------
(***************************************************************************)
(* Proofs about module Qcow2, for every disk size, cluster size and table  *)
(* geometry: the device reads back what was written, and a file that opens *)
(* holds the whole disk and counts each of its clusters exactly once.      *)
(***************************************************************************)
EXTENDS Qcow2, FiniteSetTheorems, TLAPS

-----------------------------------------------------------------------------
(* Arithmetic. *)

\* Quotient and remainder.
LEMMA DivMod ==
    ASSUME NEW a \in Nat, NEW b \in Nat \ {0}
    PROVE  /\ a \div b \in Nat /\ a % b \in 0 .. b - 1
           /\ a = (a \div b) * b + (a % b)
  OBVIOUS

\* A remainder is its own remainder.
LEMMA RemainderIsSmall ==
    ASSUME NEW b \in Nat \ {0}, NEW i \in 0 .. b - 1
    PROVE  i \div b = 0 /\ i % b = i
  OBVIOUS

\* Products keep the order.
LEMMA TimesMonotonic ==
    ASSUME NEW x \in Nat, NEW y \in Nat, NEW b \in Nat, x <= y
    PROVE  x * b <= y * b
  OBVIOUS

\* Rounding up: the quotient holds a, and everything that lies below a.
LEMMA CeilDivHolds ==
    ASSUME NEW a \in Nat, NEW b \in Nat \ {0}
    PROVE  /\ ceilDiv(a, b) \in Nat
           /\ \A x \in Nat : x * b < a => x < ceilDiv(a, b)
           /\ \A x \in Nat : x < ceilDiv(a, b) => x * b < a
<1>1. PICK q \in Nat, r \in 0 .. b - 1 : q = (a + b - 1) \div b /\ a + b - 1 = q * b + r
  <2>1. a + b - 1 \in Nat
    OBVIOUS
  <2> QED BY <2>1, DivMod
<1>2. ceilDiv(a, b) = q
  BY <1>1 DEF ceilDiv
<1>3. q * b \in Nat
  BY <1>1
<1>4. ASSUME NEW x \in Nat, x * b < a
      PROVE  x < q
  <2> SUFFICES ASSUME q <= x PROVE FALSE
    OBVIOUS
  <2>1. q * b <= x * b /\ x * b \in Nat
    BY TimesMonotonic
  <2>2. q * b >= a
    BY <1>1, <1>3
  <2> QED BY <1>3, <1>4, <2>1, <2>2
<1>5. ASSUME NEW x \in Nat, x < q
      PROVE  x * b < a
  <2>1. (x + 1) * b <= q * b /\ (x + 1) * b \in Nat
    BY <1>5, TimesMonotonic
  <2>2. (x + 1) * b = x * b + b /\ x * b \in Nat
    OBVIOUS
  <2>3. q * b <= a + b - 1
    BY <1>1, <1>3
  <2> QED BY <1>3, <2>1, <2>2, <2>3
<1> QED BY <1>2, <1>4, <1>5

\* The constants, one by one.
LEMMA Constants ==
    /\ Size \in Nat \ {0} /\ ClSize \in Nat \ {0} /\ Entries \in Nat \ {0} /\ RefsPerCl \in Nat \ {0}
    /\ 0 \in Val /\ ClSize * Entries \in Nat \ {0}
  BY QcowAssumption

\* A table of n entries fills ceilDiv(n, Entries) clusters.
LEMMA EntryInTable ==
    ASSUME NEW k \in Nat, NEW m \in Nat, k < m
    PROVE  /\ k \div Entries \in 0 .. ceilDiv(m, Entries) - 1
           /\ k % Entries \in 0 .. Entries - 1
           /\ k = (k \div Entries) * Entries + (k % Entries)
<1>1. PICK q \in Nat, r \in 0 .. Entries - 1 :
          q = k \div Entries /\ r = k % Entries /\ k = q * Entries + r
  BY Constants, DivMod
<1>2. q * Entries < m
  <2>1. q * Entries \in Nat
    BY Constants
  <2> QED BY <1>1, <2>1
<1>3. q < ceilDiv(m, Entries) /\ ceilDiv(m, Entries) \in Nat
  BY <1>2, Constants, CeilDivHolds
<1> QED BY <1>1, <1>3

\* Such a table has room for them.
LEMMA TableHolds ==
    ASSUME NEW k \in Nat, NEW m \in Nat, k < m
    PROVE  k < ceilDiv(m, Entries) * Entries
<1>1. PICK q \in Nat, r \in 0 .. Entries - 1 :
          q = k \div Entries /\ r = k % Entries /\ k = q * Entries + r
  BY Constants, DivMod
<1>2. PICK c \in Nat : c = ceilDiv(m, Entries)
  BY Constants, CeilDivHolds
<1>3. q + 1 <= c
  BY <1>1, <1>2, EntryInTable
<1>4. (q + 1) * Entries <= c * Entries /\ (q + 1) * Entries = q * Entries + Entries
  BY <1>3, Constants, TimesMonotonic
<1>5. q * Entries \in Nat /\ c * Entries \in Nat
  BY Constants
<1> QED BY <1>1, <1>2, <1>4, <1>5, Constants

\* A sector lies in a guest cluster.
LEMMA SectorInCluster ==
    ASSUME NEW s \in Sectors
    PROVE  s \div ClSize \in Guest /\ s % ClSize \in InCl
<1>1. s \in Nat /\ s < Size
  BY Constants DEF Sectors
<1>2. PICK q \in Nat, r \in 0 .. ClSize - 1 :
          q = s \div ClSize /\ r = s % ClSize /\ s = q * ClSize + r
  BY <1>1, Constants, DivMod
<1>3. q * ClSize < Size
  <2>1. q * ClSize \in Nat
    BY Constants
  <2> QED BY <1>1, <1>2, <2>1, Constants
<1>4. q < ceilDiv(Size, ClSize) /\ ceilDiv(Size, ClSize) \in Nat
  BY <1>3, Constants, CeilDivHolds
<1> QED BY <1>2, <1>4 DEF Guest, InCl

\* The L1 table has an entry for every guest cluster.
LEMMA GuestInL1 ==
    ASSUME NEW g \in Guest
    PROVE  /\ g \in Nat /\ g \div Entries \in 0 .. l1Size - 1 /\ g % Entries \in 0 .. Entries - 1
           /\ g = (g \div Entries) * Entries + (g % Entries)
<1>1. g \in Nat /\ g < ceilDiv(Size, ClSize)
  BY Constants, CeilDivHolds DEF Guest
<1>2. g * ClSize < Size /\ g * ClSize \in Nat
  BY <1>1, Constants, CeilDivHolds
<1>3. PICK q \in Nat, r \in 0 .. Entries - 1 :
          q = g \div Entries /\ r = g % Entries /\ g = q * Entries + r
  BY <1>1, Constants, DivMod
<1>4. q * Entries \in Nat /\ q * Entries <= g
  BY <1>1, <1>3, Constants
<1>5. (q * Entries) * ClSize <= g * ClSize
  BY <1>1, <1>4, Constants, TimesMonotonic
<1>6. (q * Entries) * ClSize = q * (ClSize * Entries)
  BY Constants
<1>7. q * (ClSize * Entries) < Size
  BY <1>2, <1>4, <1>5, <1>6, Constants
<1>8. q < ceilDiv(Size, ClSize * Entries) /\ ceilDiv(Size, ClSize * Entries) \in Nat
  BY <1>7, Constants, CeilDivHolds
<1> QED BY <1>1, <1>3, <1>8 DEF l1Size
-----------------------------------------------------------------------------
(* The inductive invariant. *)

L1Index == 0 .. l1Size - 1

\* How far Finalize has come: the L1 table is written; the refcount structures have
\* their size and place; the blocks are written; the refcount table is written.  A
\* file that opens has all of it, even if the write of the header was reported as
\* failed.
Tabled  == pc \in {"plan", "refs", "refTable", "header", "truncate", "done"} \/ opens
Sized   == pc \in {"refs", "refTable", "header", "truncate", "done"} \/ opens
Blocked == pc \in {"refTable", "header", "truncate", "done"} \/ opens
Listed  == pc \in {"header", "truncate", "done"} \/ opens

FormOK ==
    /\ TypeOK
    /\ pc \in {"open", "l2", "plan", "refs", "refTable", "header", "truncate", "done", "failed"}
    /\ l1 \in [L1Index -> Nat] /\ todoL2 \subseteq L1Index
    /\ rb > 0 /\ rt > 0
    /\ pc = "open" => \A i \in L1Index : l1[i] = 0
    /\ \A i \in todoL2 : l1[i] = 0
    /\ opens => pc \in {"truncate", "done", "failed"}

\* Below Top are the data and the L2 tables: each cluster was handed out once, to a
\* guest cluster or to an L1 entry.
Top == IF Tabled THEN l1Off ELSE nextHost
Owned(h) == (\E g \in Guest : l2map[g] = h) \/ (\E i \in L1Index : l1[i] = h)
OwnersOK ==
    /\ Top >= 1
    /\ \A g \in Guest : l2map[g] < Top
    /\ \A i \in L1Index : l1[i] < Top
    /\ \A g, k \in Guest : l2map[g] # 0 /\ l2map[g] = l2map[k] => g = k
    /\ \A i, k \in L1Index : l1[i] # 0 /\ l1[i] = l1[k] => i = k
    /\ \A g \in Guest, i \in L1Index : l2map[g] # 0 => l2map[g] # l1[i]
    /\ pc # "failed" \/ opens => \A h \in 1 .. Top - 1 : Owned(h)

\* Behind it the L1 table, the refcount table and the refcount blocks follow each
\* other to the end of the file, and they are as large as they have to be.
LayoutOK ==
    /\ pc = "plan" => l1Off + l1Clusters = nextHost
    /\ Sized => /\ l1Off + l1Clusters = rtOff /\ rtOff + rt = rbOff /\ rbOff + rb = nextHost
                /\ rb = ceilDiv(nextHost, RefsPerCl) /\ rt = ceilDiv(rb, Entries)

\* What is in the tables that are written.
TablesOK ==
    /\ \A i \in L1Index : l1[i] # 0 => hostAt(l1[i]) = Table(l2Of(i))
    /\ pc = "l2" \/ Tabled =>
          \A g \in Guest : l2map[g] # 0 =>
              l1[g \div Entries] # 0 \/ (pc = "l2" /\ g \div Entries \in todoL2)
    /\ Tabled => \A j \in 0 .. l1Clusters - 1 : hostAt(l1Off + j) = Table(slice(l1, j * Entries))
    /\ Blocked => \A j \in 0 .. rb - 1 : hostAt(rbOff + j) = refBlock(j)
    /\ Listed => \A j \in 0 .. rt - 1 : hostAt(rtOff + j) = Table(slice(refTable, j * Entries))
    /\ opens => hostAt(0) = Header(l1Size, l1Off, rtOff, rt)

QInv == FormOK /\ OwnersOK /\ LayoutOK /\ TablesOK /\ WriterReadsBack

-----------------------------------------------------------------------------
(* The host file. *)

\* What a write leaves of the file.
LEMMA HostAfterWrite ==
    ASSUME NEW new, NEW res \in Outcome, host' = hostAfter(new, res)
    PROVE  /\ DOMAIN host' \subseteq DOMAIN host \cup DOMAIN new
           /\ \A h : h \notin DOMAIN new => hostAt(h)' = hostAt(h)
           /\ res # "lost" => \A h \in DOMAIN new : hostAt(h)' = new[h]
<1>1. CASE res = "lost"
  BY <1>1 DEF hostAfter, hostAt
<1>2. CASE res # "lost"
  BY <1>2 DEF hostAfter, hostAt
<1> QED BY <1>1, <1>2

\* Where the data and the L2 tables end.
LEMMA TopInFile ==
    ASSUME QInv
    PROVE  /\ Top \in Nat \ {0} /\ l1Off \in Nat /\ nextHost \in Nat \ {0} /\ l1Clusters \in Nat
           /\ rt \in Nat \ {0} /\ rb \in Nat \ {0} /\ rtOff \in Nat /\ rbOff \in Nat
           /\ Top <= nextHost
<1>1. /\ l1Off \in Nat /\ nextHost \in Nat \ {0}
      /\ rt \in Nat \ {0} /\ rb \in Nat \ {0} /\ rtOff \in Nat /\ rbOff \in Nat
  BY DEF QInv, FormOK, TypeOK
<1>2. Top \in Nat \ {0}
  BY <1>1 DEF QInv, OwnersOK, Top
<1>3. l1Clusters \in Nat
  <2>1. l1Size \in Nat
    BY Constants, CeilDivHolds DEF l1Size
  <2> QED BY <2>1, Constants, CeilDivHolds DEF l1Clusters
<1> SUFFICES Top <= nextHost
  BY <1>1, <1>2, <1>3
<1>4. CASE Sized
  BY <1>1, <1>3, <1>4 DEF QInv, LayoutOK, Top
<1>5. CASE pc = "plan"
  BY <1>1, <1>3, <1>5 DEF QInv, LayoutOK, Top
<1>6. CASE ~Sized /\ pc # "plan"
  BY <1>1, <1>6 DEF Top, Tabled, Sized
<1> QED BY <1>4, <1>5, <1>6

\* The device reads the same, and the L2 tables stay, when no cluster below Top is
\* touched.
LEMMA DataStays ==
    ASSUME QInv, UNCHANGED <<l2map, disk>>,
           \A h \in 1 .. Top - 1 : hostAt(h)' = hostAt(h)
    PROVE  /\ WriterReadsBack'
           /\ \A i \in L1Index : \A h : h = l1[i] /\ h # 0 => hostAt(h)' = Table(l2Of(i))'
<1>1. /\ l2map \in [Guest -> Nat] /\ l1 \in [L1Index -> Nat]
      /\ \A g \in Guest : l2map[g] < Top
      /\ \A i \in L1Index : l1[i] < Top
      /\ WriterReadsBack
      /\ \A i \in L1Index : l1[i] # 0 => hostAt(l1[i]) = Table(l2Of(i))
  BY DEF QInv, FormOK, TypeOK, OwnersOK, TablesOK
<1>2. Top \in Nat
  BY TopInFile
<1>3. ASSUME NEW s \in Sectors
      PROVE  writerRead(s)' = disk'[s]
  <2>1. PICK h : h = l2map[s \div ClSize]
    OBVIOUS
  <2>2. h \in Nat /\ h < Top
    BY <1>1, <2>1, SectorInCluster
  <2>3. writerRead(s) = disk[s]
    BY <1>1 DEF WriterReadsBack
  <2>4. CASE h = 0
    BY <2>1, <2>3, <2>4 DEF writerRead
  <2>5. CASE h # 0
    <3>1. hostAt(h)' = hostAt(h)
      BY <1>2, <2>2, <2>5
    <3>2. writerRead(s) = SectorOf(hostAt(h), s % ClSize)
      BY <2>1, <2>5 DEF writerRead
    <3>3. writerRead(s)' = SectorOf(hostAt(h)', s % ClSize)
      BY <2>1, <2>5 DEF writerRead
    <3> QED BY <2>3, <3>1, <3>2, <3>3
  <2> QED BY <2>4, <2>5
<1>4. ASSUME NEW i \in L1Index, NEW h, h = l1[i], h # 0
      PROVE  hostAt(h)' = Table(l2Of(i))'
  <2>1. hostAt(h) = Table(l2Of(i)) /\ h \in 1 .. Top - 1
    BY <1>1, <1>2, <1>4
  <2>2. l2Of(i)' = l2Of(i)
    BY DEF l2Of
  <2> QED BY <2>1, <2>2 DEF Table
<1> QED BY <1>3, <1>4 DEF WriterReadsBack

\* The writes behind the L1 table and the one of the header: they keep what Finalize
\* has written before.
LEMMA SealKeeps ==
    ASSUME QInv, Sized,
           UNCHANGED <<l2map, nextHost, finalized, l1, todoL2, planVars, disk>>,
           DOMAIN host' \subseteq 0 .. nextHost - 1,
           \A h \in 1 .. rtOff - 1 : hostAt(h)' = hostAt(h),
           pc' \in {"refTable", "header", "truncate", "done", "failed"},
           opens' => pc' \in {"truncate", "done", "failed"}
    PROVE  /\ FormOK' /\ OwnersOK' /\ LayoutOK' /\ WriterReadsBack'
           /\ \A i \in L1Index : l1'[i] # 0 => hostAt(l1[i])' = Table(l2Of(i))'
           /\ Tabled' => \A g \in Guest : l2map'[g] # 0 => l1'[g \div Entries] # 0
           /\ Tabled' => \A j \in 0 .. l1Clusters - 1 :
                            hostAt(l1Off + j)' = Table(slice(l1, j * Entries))'
<1>1. /\ UNCHANGED <<l2map, nextHost, finalized, l1, todoL2, l1Off, rb, rt, rtOff, rbOff, disk>>
      /\ Tabled /\ Top = l1Off
  BY DEF planVars, Sized, Tabled, Top
<1>2. /\ Top \in Nat \ {0} /\ l1Off \in Nat /\ nextHost \in Nat \ {0} /\ l1Clusters \in Nat
      /\ rt \in Nat \ {0} /\ rb \in Nat \ {0} /\ rtOff \in Nat /\ rbOff \in Nat
      /\ Top <= nextHost
  BY TopInFile
<1>3. l1Off + l1Clusters = rtOff
  BY DEF QInv, LayoutOK
<1>4. FormOK'
  BY <1>1 DEF QInv, FormOK, TypeOK
<1>5. LayoutOK'
  BY <1>1 DEF QInv, LayoutOK
<1>6. Top' \in {l1Off, nextHost} /\ (pc' # "failed" \/ opens' => Top' = l1Off)
  BY <1>1 DEF Top, Tabled
<1>7. OwnersOK'
  <2>1. l2map \in [Guest -> Nat] /\ l1 \in [L1Index -> Nat]
    BY DEF QInv, FormOK, TypeOK
  <2>2. pc # "failed" \/ opens => \A h \in 1 .. l1Off - 1 : Owned(h)
    BY <1>1 DEF QInv, OwnersOK
  <2>3. pc' # "failed" \/ opens' => \A h \in 1 .. Top' - 1 : Owned(h)'
    BY <1>1, <1>6, <2>2 DEF Sized, Owned
  <2>4. /\ \A g \in Guest : l2map[g] < l1Off
        /\ \A i \in L1Index : l1[i] < l1Off
    BY <1>1 DEF QInv, OwnersOK
  <2>5. /\ Top' >= 1
        /\ \A g \in Guest : l2map[g] < Top'
        /\ \A i \in L1Index : l1[i] < Top'
    BY <1>1, <1>2, <1>6, <2>1, <2>4
  <2> QED BY <1>1, <2>3, <2>5 DEF QInv, OwnersOK
<1>8. \A h \in 1 .. Top - 1 : hostAt(h)' = hostAt(h)
  BY <1>1, <1>2, <1>3
<1>9. /\ WriterReadsBack'
      /\ \A i \in L1Index : \A h : h = l1[i] /\ h # 0 => hostAt(h)' = Table(l2Of(i))'
  BY <1>1, <1>8, DataStays
<1>10. \A i \in L1Index : l1'[i] # 0 => hostAt(l1[i])' = Table(l2Of(i))'
  BY <1>1, <1>9 DEF hostAt
<1>11. \A g \in Guest : l2map'[g] # 0 => l1'[g \div Entries] # 0
  BY <1>1 DEF QInv, FormOK, TablesOK, Sized
<1>12. ASSUME NEW j \in 0 .. l1Clusters - 1
       PROVE  hostAt(l1Off + j)' = Table(slice(l1, j * Entries))'
  <2>1. PICK h : h = l1Off + j
    OBVIOUS
  <2>2. h \in 1 .. rtOff - 1
    BY <1>1, <1>2, <1>3, <2>1
  <2>3. hostAt(h) = Table(slice(l1, j * Entries))
    BY <1>1, <2>1 DEF QInv, TablesOK
  <2>4. hostAt(h)' = Table(slice(l1, j * Entries))
    BY <2>2, <2>3
  <2> QED BY <1>1, <2>1, <2>4 DEF hostAt, Table, slice
<1> QED BY <1>4, <1>5, <1>7, <1>9, <1>10, <1>11, <1>12

-----------------------------------------------------------------------------
(* How the steps keep the invariant. *)

\* The file opens by what is in cluster 0.
LEMMA OpensBy0 ==
    ASSUME hostAt(0)' = hostAt(0)
    PROVE  opens' <=> opens
  BY DEF opens

\* The refcount blocks.
LEMMA WriteRefBlocksKeeps ==
    ASSUME QInv, NEW res \in Outcome, WriteRefBlocks(res)
    PROVE  QInv'
<1>1. /\ pc = "refs" /\ Sized /\ ~opens
      /\ UNCHANGED <<l2map, nextHost, finalized, l1, todoL2, planVars, disk>>
      /\ UNCHANGED <<l1Off, rb, rt, rtOff, rbOff>>
      /\ pc' = IF res = "ok" THEN "refTable" ELSE "failed"
  BY DEF WriteRefBlocks, Sized, QInv, FormOK, goOn, planVars
<1>2. /\ l1Off \in Nat /\ nextHost \in Nat \ {0} /\ l1Clusters \in Nat
      /\ rt \in Nat \ {0} /\ rb \in Nat \ {0} /\ rtOff \in Nat /\ rbOff \in Nat
      /\ l1Off + l1Clusters = rtOff /\ rtOff + rt = rbOff /\ rbOff + rb = nextHost
      /\ DOMAIN host \subseteq 0 .. nextHost - 1
  BY <1>1, TopInFile DEF QInv, LayoutOK, FormOK, TypeOK
<1>3. PICK new : new = [h \in rbOff .. rbOff + rb - 1 |-> refBlock(h - rbOff)]
  OBVIOUS
<1>4. host' = hostAfter(new, res) /\ DOMAIN new = rbOff .. rbOff + rb - 1
  BY <1>3 DEF WriteRefBlocks
<1>5. /\ DOMAIN host' \subseteq DOMAIN host \cup DOMAIN new
      /\ \A h : h \notin DOMAIN new => hostAt(h)' = hostAt(h)
      /\ res # "lost" => \A h \in DOMAIN new : hostAt(h)' = new[h]
  BY <1>4, HostAfterWrite
<1>6. DOMAIN host' \subseteq 0 .. nextHost - 1
  BY <1>2, <1>4, <1>5
<1>7. ~opens' /\ \A h \in 1 .. rtOff - 1 : hostAt(h)' = hostAt(h)
  <2>1. \A h \in 0 .. rtOff - 1 : h \notin DOMAIN new
    BY <1>2, <1>4
  <2>2. 0 \in 0 .. rtOff - 1
    <3>1. Top \in Nat \ {0} /\ Top = l1Off
      BY <1>1, TopInFile DEF Top, Tabled
    <3> QED BY <1>2, <3>1
  <2> QED BY <1>1, <1>5, <2>1, <2>2, OpensBy0
<1>8. /\ FormOK' /\ OwnersOK' /\ LayoutOK' /\ WriterReadsBack'
      /\ \A i \in L1Index : l1'[i] # 0 => hostAt(l1[i])' = Table(l2Of(i))'
      /\ Tabled' => \A g \in Guest : l2map'[g] # 0 => l1'[g \div Entries] # 0
      /\ Tabled' => \A j \in 0 .. l1Clusters - 1 :
                       hostAt(l1Off + j)' = Table(slice(l1, j * Entries))'
  BY <1>1, <1>6, <1>7, SealKeeps
<1>9. Blocked' => \A j \in 0 .. rb' - 1 : hostAt(rbOff + j)' = refBlock(j)'
  <2>1. SUFFICES ASSUME res = "ok", NEW j \in 0 .. rb - 1
                 PROVE  hostAt(rbOff + j)' = refBlock(j)'
    BY <1>1, <1>7 DEF Blocked
  <2>2. PICK h : h = rbOff + j
    OBVIOUS
  <2>3. h \in DOMAIN new /\ h - rbOff = j
    BY <1>2, <1>4, <2>2
  <2>4. hostAt(h)' = refBlock(j)
    BY <1>3, <1>5, <2>1, <2>3
  <2>5. refBlock(j)' = refBlock(j)
    BY <1>1 DEF refBlock
  <2> QED BY <1>1, <2>2, <2>4, <2>5 DEF hostAt
<1>10. ~Listed'
  BY <1>1, <1>7 DEF Listed
<1>11. TablesOK'
  BY <1>1, <1>7, <1>8, <1>9, <1>10 DEF TablesOK
<1> QED BY <1>8, <1>11 DEF QInv

\* The refcount table, which lists the blocks.
LEMMA WriteRefTableKeeps ==
    ASSUME QInv, NEW res \in Outcome, WriteRefTable(res)
    PROVE  QInv'
<1>1. /\ pc = "refTable" /\ Sized /\ ~opens
      /\ UNCHANGED <<l2map, nextHost, finalized, l1, todoL2, planVars, disk>>
      /\ UNCHANGED <<l1Off, rb, rt, rtOff, rbOff>>
      /\ pc' = IF res = "ok" THEN "header" ELSE "failed"
  BY DEF WriteRefTable, Sized, QInv, FormOK, goOn, planVars
<1>2. /\ l1Off \in Nat /\ nextHost \in Nat \ {0} /\ l1Clusters \in Nat
      /\ rt \in Nat \ {0} /\ rb \in Nat \ {0} /\ rtOff \in Nat /\ rbOff \in Nat
      /\ l1Off + l1Clusters = rtOff /\ rtOff + rt = rbOff /\ rbOff + rb = nextHost
      /\ DOMAIN host \subseteq 0 .. nextHost - 1
  BY <1>1, TopInFile DEF QInv, LayoutOK, FormOK, TypeOK
<1>3. PICK new : new = [h \in rtOff .. rtOff + rt - 1 |-> Table(slice(refTable, (h - rtOff) * Entries))]
  OBVIOUS
<1>4. host' = hostAfter(new, res) /\ DOMAIN new = rtOff .. rtOff + rt - 1
  BY <1>3 DEF WriteRefTable
<1>5. /\ DOMAIN host' \subseteq DOMAIN host \cup DOMAIN new
      /\ \A h : h \notin DOMAIN new => hostAt(h)' = hostAt(h)
      /\ res # "lost" => \A h \in DOMAIN new : hostAt(h)' = new[h]
  BY <1>4, HostAfterWrite
<1>6. DOMAIN host' \subseteq 0 .. nextHost - 1
  BY <1>2, <1>4, <1>5
<1>7. ~opens' /\ \A h \in 1 .. rtOff - 1 : hostAt(h)' = hostAt(h)
  <2>1. \A h \in 0 .. rtOff - 1 : h \notin DOMAIN new
    BY <1>2, <1>4
  <2>2. 0 \in 0 .. rtOff - 1
    <3>1. Top \in Nat \ {0} /\ Top = l1Off
      BY <1>1, TopInFile DEF Top, Tabled
    <3> QED BY <1>2, <3>1
  <2> QED BY <1>1, <1>5, <2>1, <2>2, OpensBy0
<1>8. /\ FormOK' /\ OwnersOK' /\ LayoutOK' /\ WriterReadsBack'
      /\ \A i \in L1Index : l1'[i] # 0 => hostAt(l1[i])' = Table(l2Of(i))'
      /\ Tabled' => \A g \in Guest : l2map'[g] # 0 => l1'[g \div Entries] # 0
      /\ Tabled' => \A j \in 0 .. l1Clusters - 1 :
                       hostAt(l1Off + j)' = Table(slice(l1, j * Entries))'
  BY <1>1, <1>6, <1>7, SealKeeps
<1>9. Blocked' => \A j \in 0 .. rb' - 1 : hostAt(rbOff + j)' = refBlock(j)'
  <2>1. SUFFICES ASSUME NEW j \in 0 .. rb - 1
                 PROVE  hostAt(rbOff + j)' = refBlock(j)'
    BY <1>1
  <2>2. PICK h : h = rbOff + j
    OBVIOUS
  <2>3. h \notin DOMAIN new
    BY <1>2, <1>4, <2>2
  <2>4. hostAt(h) = refBlock(j)
    BY <1>1, <2>2 DEF QInv, TablesOK, Blocked
  <2>5. hostAt(h)' = refBlock(j)
    BY <1>5, <2>3, <2>4
  <2>6. refBlock(j)' = refBlock(j)
    BY <1>1 DEF refBlock
  <2> QED BY <1>1, <2>2, <2>5, <2>6 DEF hostAt
<1>10. Listed' => \A j \in 0 .. rt' - 1 : hostAt(rtOff + j)' = Table(slice(refTable, j * Entries))'
  <2>1. SUFFICES ASSUME res = "ok", NEW j \in 0 .. rt - 1
                 PROVE  hostAt(rtOff + j)' = Table(slice(refTable, j * Entries))'
    BY <1>1, <1>7 DEF Listed
  <2>2. PICK h : h = rtOff + j
    OBVIOUS
  <2>3. h \in DOMAIN new /\ h - rtOff = j
    BY <1>2, <1>4, <2>2
  <2>4. hostAt(h)' = Table(slice(refTable, j * Entries))
    BY <1>3, <1>5, <2>1, <2>3
  <2>5. Table(slice(refTable, j * Entries))' = Table(slice(refTable, j * Entries))
    BY <1>1 DEF refTable, slice, Table
  <2> QED BY <1>1, <2>2, <2>4, <2>5 DEF hostAt
<1>11. TablesOK'
  BY <1>1, <1>7, <1>8, <1>9, <1>10 DEF TablesOK
<1> QED BY <1>8, <1>11 DEF QInv

\* What a step that leaves the tables alone keeps of them.
LEMMA TablesStay ==
    ASSUME QInv, Listed, UNCHANGED <<nextHost, l1Off, rb, rt, rtOff, rbOff>>,
           \A h \in 1 .. nextHost - 1 : hostAt(h)' = hostAt(h)
    PROVE  /\ \A j \in 0 .. rb' - 1 : hostAt(rbOff + j)' = refBlock(j)'
           /\ \A j \in 0 .. rt' - 1 : hostAt(rtOff + j)' = Table(slice(refTable, j * Entries))'
<1>1. /\ l1Off \in Nat /\ nextHost \in Nat \ {0} /\ l1Clusters \in Nat /\ Top \in Nat \ {0}
      /\ rt \in Nat \ {0} /\ rb \in Nat \ {0} /\ rtOff \in Nat /\ rbOff \in Nat
      /\ l1Off + l1Clusters = rtOff /\ rtOff + rt = rbOff /\ rbOff + rb = nextHost
  BY TopInFile DEF QInv, LayoutOK, Listed, Sized
<1>2. l1Off >= 1
  BY <1>1 DEF Top, Tabled, Listed
<1>3. /\ \A j \in 0 .. rb - 1 : hostAt(rbOff + j) = refBlock(j)
      /\ \A j \in 0 .. rt - 1 : hostAt(rtOff + j) = Table(slice(refTable, j * Entries))
  BY DEF QInv, TablesOK, Blocked, Listed
<1>4. ASSUME NEW j \in 0 .. rb - 1
      PROVE  hostAt(rbOff + j)' = refBlock(j)'
  <2>1. PICK h : h = rbOff + j
    OBVIOUS
  <2>2. h \in 1 .. nextHost - 1 /\ hostAt(h) = refBlock(j)
    BY <1>1, <1>2, <1>3, <2>1
  <2>3. refBlock(j)' = refBlock(j) /\ hostAt(h)' = refBlock(j)
    BY <2>2 DEF refBlock
  <2> QED BY <2>1, <2>3 DEF hostAt
<1>5. ASSUME NEW j \in 0 .. rt - 1
      PROVE  hostAt(rtOff + j)' = Table(slice(refTable, j * Entries))'
  <2>1. PICK h : h = rtOff + j
    OBVIOUS
  <2>2. h \in 1 .. nextHost - 1 /\ hostAt(h) = Table(slice(refTable, j * Entries))
    BY <1>1, <1>2, <1>3, <2>1
  <2>3. Table(slice(refTable, j * Entries))' = Table(slice(refTable, j * Entries))
    BY DEF refTable, slice, Table
  <2>4. hostAt(h)' = Table(slice(refTable, j * Entries))
    BY <2>2
  <2> QED BY <2>1, <2>3, <2>4 DEF hostAt
<1> QED BY <1>4, <1>5

\* The header: from here on the file opens, even when the write is reported as failed.
LEMMA WriteHeaderKeeps ==
    ASSUME QInv, NEW res \in Outcome, WriteHeader(res)
    PROVE  QInv'
<1>1. /\ pc = "header" /\ Sized /\ Listed /\ ~opens
      /\ UNCHANGED <<l2map, nextHost, finalized, l1, todoL2, planVars, disk>>
      /\ UNCHANGED <<l1Off, rb, rt, rtOff, rbOff>>
      /\ pc' = IF res = "ok" THEN "truncate" ELSE "failed"
  BY DEF WriteHeader, Sized, Listed, QInv, FormOK, goOn, planVars
<1>2. /\ nextHost \in Nat \ {0} /\ rtOff \in Nat /\ rt \in Nat /\ rb \in Nat /\ rtOff + rt + rb = nextHost
      /\ DOMAIN host \subseteq 0 .. nextHost - 1
  BY <1>1, TopInFile DEF QInv, LayoutOK, FormOK, TypeOK
<1>3. PICK new : new = [x \in {0} |-> Header(l1Size, l1Off, rtOff, rt)]
  OBVIOUS
<1>4. host' = hostAfter(new, res) /\ DOMAIN new = {0}
  BY <1>3 DEF WriteHeader
<1>5. /\ DOMAIN host' \subseteq DOMAIN host \cup DOMAIN new
      /\ \A h : h \notin DOMAIN new => hostAt(h)' = hostAt(h)
      /\ res # "lost" => \A h \in DOMAIN new : hostAt(h)' = new[h]
  BY <1>4, HostAfterWrite
<1>6. DOMAIN host' \subseteq 0 .. nextHost - 1
  BY <1>2, <1>4, <1>5
<1>7. \A h \in 1 .. nextHost - 1 : hostAt(h)' = hostAt(h)
  BY <1>2, <1>4, <1>5
<1>8. \A h \in 1 .. rtOff - 1 : hostAt(h)' = hostAt(h)
  BY <1>2, <1>7
<1>9. opens' => hostAt(0)' = Header(l1Size, l1Off, rtOff, rt)'
  <2>1. CASE res = "lost"
    <3>1. host' = host
      BY <1>4, <2>1 DEF hostAfter
    <3> QED BY <1>1, <3>1 DEF opens, hostAt
  <2>2. CASE res # "lost"
    <3>1. hostAt(0)' = Header(l1Size, l1Off, rtOff, rt)
      BY <1>3, <1>4, <1>5, <2>2
    <3> QED BY <1>1, <3>1 DEF Header
  <2> QED BY <2>1, <2>2
<1>10. /\ FormOK' /\ OwnersOK' /\ LayoutOK' /\ WriterReadsBack'
       /\ \A i \in L1Index : l1'[i] # 0 => hostAt(l1[i])' = Table(l2Of(i))'
       /\ Tabled' => \A g \in Guest : l2map'[g] # 0 => l1'[g \div Entries] # 0
       /\ Tabled' => \A j \in 0 .. l1Clusters - 1 :
                        hostAt(l1Off + j)' = Table(slice(l1, j * Entries))'
  BY <1>1, <1>6, <1>8, SealKeeps
<1>11. /\ \A j \in 0 .. rb' - 1 : hostAt(rbOff + j)' = refBlock(j)'
       /\ \A j \in 0 .. rt' - 1 : hostAt(rtOff + j)' = Table(slice(refTable, j * Entries))'
  BY <1>1, <1>7, TablesStay
<1>12. TablesOK'
  BY <1>1, <1>9, <1>10, <1>11 DEF TablesOK
<1> QED BY <1>10, <1>12 DEF QInv

\* The file is cut to its length.
LEMMA TruncateKeeps ==
    ASSUME QInv, NEW res \in Outcome, Truncate(res)
    PROVE  QInv'
<1>1. /\ pc = "truncate" /\ Sized /\ Listed
      /\ UNCHANGED <<l2map, nextHost, finalized, l1, todoL2, planVars, disk, host>>
      /\ UNCHANGED <<l1Off, rb, rt, rtOff, rbOff>>
      /\ pc' \in {"done", "failed"}
  BY DEF Truncate, Sized, Listed, goOn, planVars
<1>2. DOMAIN host' \subseteq 0 .. nextHost - 1
  BY <1>1 DEF QInv, FormOK, TypeOK
<1>3. \A h : hostAt(h)' = hostAt(h)
  BY <1>1 DEF hostAt
<1>4. /\ FormOK' /\ OwnersOK' /\ LayoutOK' /\ WriterReadsBack'
      /\ \A i \in L1Index : l1'[i] # 0 => hostAt(l1[i])' = Table(l2Of(i))'
      /\ Tabled' => \A g \in Guest : l2map'[g] # 0 => l1'[g \div Entries] # 0
      /\ Tabled' => \A j \in 0 .. l1Clusters - 1 :
                       hostAt(l1Off + j)' = Table(slice(l1, j * Entries))'
  BY <1>1, <1>2, <1>3, SealKeeps
<1>5. /\ \A j \in 0 .. rb' - 1 : hostAt(rbOff + j)' = refBlock(j)'
      /\ \A j \in 0 .. rt' - 1 : hostAt(rtOff + j)' = Table(slice(refTable, j * Entries))'
  BY <1>1, <1>3, TablesStay
<1>6. opens' => hostAt(0)' = Header(l1Size, l1Off, rtOff, rt)'
  BY <1>1, <1>3 DEF QInv, TablesOK, opens, Header
<1>7. TablesOK'
  BY <1>1, <1>4, <1>5, <1>6 DEF TablesOK
<1> QED BY <1>4, <1>7 DEF QInv

\* The owners of the clusters below Top, when none is added.
LEMMA OwnersStay ==
    ASSUME QInv, UNCHANGED <<l2map, l1>>, Top' \in Nat, Top <= Top',
           pc' # "failed" \/ opens' => Top' = Top /\ (pc # "failed" \/ opens)
    PROVE  OwnersOK'
<1>1. /\ Top \in Nat \ {0} /\ l2map \in [Guest -> Nat] /\ l1 \in [L1Index -> Nat]
  BY TopInFile DEF QInv, FormOK, TypeOK
<1>2. /\ \A g \in Guest : l2map[g] < Top
      /\ \A i \in L1Index : l1[i] < Top
  BY DEF QInv, OwnersOK
<1>3. /\ Top' >= 1
      /\ \A g \in Guest : l2map[g] < Top'
      /\ \A i \in L1Index : l1[i] < Top'
  BY <1>1, <1>2
<1>4. pc' # "failed" \/ opens' => \A h \in 1 .. Top' - 1 : Owned(h)'
  BY DEF QInv, OwnersOK, Owned
<1> QED BY <1>3, <1>4 DEF QInv, OwnersOK

\* The L1 table.
LEMMA WriteL1Keeps ==
    ASSUME QInv, NEW res \in Outcome, WriteL1Table(res)
    PROVE  QInv'
<1>1. /\ pc = "l2" /\ todoL2 = {} /\ ~opens /\ ~Tabled /\ ~Sized /\ Top = nextHost
      /\ UNCHANGED <<l2map, finalized, l1, todoL2, rb, rt, rtOff, rbOff, disk>>
      /\ l1Off' = nextHost /\ nextHost' = nextHost + l1Clusters
      /\ pc' = IF res = "ok" THEN "plan" ELSE "failed"
  BY DEF WriteL1Table, Sized, Tabled, Top, QInv, FormOK, goOn
<1>2. /\ nextHost \in Nat \ {0} /\ l1Clusters \in Nat
      /\ DOMAIN host \subseteq 0 .. nextHost - 1
  BY TopInFile DEF QInv, FormOK, TypeOK
<1>3. PICK new : new = [h \in nextHost .. nextHost + l1Clusters - 1 |->
                            Table(slice(l1, (h - nextHost) * Entries))]
  OBVIOUS
<1>4. host' = hostAfter(new, res) /\ DOMAIN new = nextHost .. nextHost + l1Clusters - 1
  BY <1>3 DEF WriteL1Table
<1>5. /\ DOMAIN host' \subseteq DOMAIN host \cup DOMAIN new
      /\ \A h : h \notin DOMAIN new => hostAt(h)' = hostAt(h)
      /\ res # "lost" => \A h \in DOMAIN new : hostAt(h)' = new[h]
  BY <1>4, HostAfterWrite
<1>6. DOMAIN host' \subseteq 0 .. nextHost' - 1
  BY <1>1, <1>2, <1>4, <1>5
<1>7. ~opens' /\ \A h \in 1 .. Top - 1 : hostAt(h)' = hostAt(h)
  <2>1. \A h \in 0 .. nextHost - 1 : h \notin DOMAIN new
    BY <1>2, <1>4
  <2>2. hostAt(0)' = hostAt(0)
    BY <1>2, <1>5, <2>1
  <2> QED BY <1>1, <1>5, <2>1, <2>2, OpensBy0
<1>8. FormOK'
  BY <1>1, <1>2, <1>6, <1>7 DEF QInv, FormOK, TypeOK
<1>9. OwnersOK'
  <2>1. Top' = IF pc' = "plan" THEN nextHost ELSE nextHost + l1Clusters
    BY <1>1, <1>7 DEF Top, Tabled
  <2>2. Top' \in Nat /\ Top <= Top'
    BY <1>1, <1>2, <2>1
  <2>3. pc' # "failed" \/ opens' => Top' = Top /\ (pc # "failed" \/ opens)
    BY <1>1, <1>7, <2>1
  <2> QED BY <1>1, <2>2, <2>3, OwnersStay
<1>10. LayoutOK'
  BY <1>1, <1>7 DEF LayoutOK, Sized, l1Clusters, l1Size
<1>11. /\ WriterReadsBack'
       /\ \A i \in L1Index : \A h : h = l1[i] /\ h # 0 => hostAt(h)' = Table(l2Of(i))'
  BY <1>1, <1>7, DataStays
<1>12. \A i \in L1Index : l1'[i] # 0 => hostAt(l1[i])' = Table(l2Of(i))'
  BY <1>1, <1>11 DEF hostAt
<1>13. \A g \in Guest : l2map'[g] # 0 => l1'[g \div Entries] # 0
  BY <1>1 DEF QInv, TablesOK
<1>14. Tabled' => \A j \in 0 .. l1Clusters - 1 :
                     hostAt(l1Off + j)' = Table(slice(l1, j * Entries))'
  <2>1. SUFFICES ASSUME res = "ok", NEW j \in 0 .. l1Clusters - 1
                 PROVE  hostAt(l1Off + j)' = Table(slice(l1, j * Entries))'
    BY <1>1, <1>7 DEF Tabled
  <2>2. PICK h : h = nextHost + j
    OBVIOUS
  <2>3. h \in DOMAIN new /\ h - nextHost = j
    BY <1>2, <1>4, <2>2
  <2>4. hostAt(h)' = Table(slice(l1, j * Entries))
    BY <1>3, <1>5, <2>1, <2>3
  <2> QED BY <1>1, <2>2, <2>4 DEF hostAt, Table, slice
<1>15. ~Blocked' /\ ~Listed'
  BY <1>1, <1>7 DEF Blocked, Listed
<1>16. TablesOK'
  BY <1>1, <1>7, <1>12, <1>13, <1>14, <1>15 DEF TablesOK
<1> QED BY <1>8, <1>9, <1>10, <1>11, <1>16 DEF QInv

\* Planning the refcount structures: the plan that is kept counts itself too.
LEMMA PlanKeeps ==
    ASSUME QInv, PlanRefcounts
    PROVE  QInv'
<1>1. /\ pc = "plan" /\ ~opens /\ Tabled /\ ~Sized /\ Top = l1Off
      /\ UNCHANGED <<l2map, finalized, host, l1, todoL2, l1Off, disk>>
      /\ l1Off + l1Clusters = nextHost
  BY DEF PlanRefcounts, Sized, Tabled, Top, QInv, FormOK, LayoutOK
<1>2. /\ nextHost \in Nat \ {0} /\ l1Clusters \in Nat /\ l1Off \in Nat \ {0}
      /\ rt \in Nat \ {0} /\ rb \in Nat \ {0} /\ rtOff \in Nat /\ rbOff \in Nat
      /\ DOMAIN host \subseteq 0 .. nextHost - 1
  BY <1>1, TopInFile DEF QInv, FormOK, TypeOK
<1>3. PICK nrb, nrt : nrb = ceilDiv(refcounted, RefsPerCl) /\ nrt = ceilDiv(nrb, Entries)
  OBVIOUS
<1>4. nrb \in Nat \ {0} /\ nrt \in Nat \ {0}
  <2>1. refcounted \in Nat \ {0}
    BY <1>2 DEF refcounted
  <2>2. nrb \in Nat /\ 0 < nrb
    BY <1>3, <2>1, Constants, CeilDivHolds
  <2>3. ceilDiv(nrb, Entries) \in Nat /\ (0 * Entries < nrb => 0 < ceilDiv(nrb, Entries))
    BY <2>2, Constants, CeilDivHolds
  <2>4. 0 * Entries = 0
    BY Constants
  <2> QED BY <1>3, <2>2, <2>3, <2>4
<1>5. \/ /\ nrb = rb /\ nrt = rt /\ pc' = "refs" /\ UNCHANGED <<rb, rt>>
         /\ rtOff' = nextHost /\ rbOff' = nextHost + rt /\ nextHost' = nextHost + rt + rb
      \/ rb' = nrb /\ rt' = nrt /\ UNCHANGED <<pc, nextHost, rtOff, rbOff>>
  BY <1>3 DEF PlanRefcounts, planned
<1>6. /\ ~opens' /\ Tabled' /\ pc' \in {"plan", "refs"} /\ ~Blocked' /\ ~Listed'
      /\ Sized' <=> pc' = "refs"
      /\ Top' = Top
      /\ \A h : hostAt(h)' = hostAt(h)
  BY <1>1, <1>5 DEF opens, hostAt, Tabled, Sized, Blocked, Listed, Top
<1>7. FormOK'
  <2>1. nextHost' \in Nat /\ nextHost <= nextHost' /\ rb' \in Nat \ {0} /\ rt' \in Nat \ {0}
        /\ rtOff' \in Nat /\ rbOff' \in Nat
    BY <1>2, <1>4, <1>5
  <2>2. DOMAIN host' \subseteq 0 .. nextHost' - 1
    BY <1>1, <1>2, <2>1
  <2> QED BY <1>1, <1>2, <1>6, <2>1, <2>2 DEF QInv, FormOK, TypeOK
<1>8. OwnersOK'
  BY <1>1, <1>2, <1>6, OwnersStay
<1>9. LayoutOK'
  <2>1. pc' = "refs" => /\ nextHost' = refcounted /\ rb' = ceilDiv(nextHost', RefsPerCl)
                        /\ rt' = ceilDiv(rb', Entries)
    BY <1>1, <1>3, <1>5 DEF refcounted
  <2>2. pc' = "refs" => /\ l1Off' + l1Clusters = rtOff' /\ rtOff' + rt' = rbOff'
                        /\ rbOff' + rb' = nextHost'
    BY <1>1, <1>2, <1>5
  <2>3. pc' = "plan" => l1Off' + l1Clusters = nextHost'
    BY <1>1, <1>5
  <2> QED BY <1>6, <2>1, <2>2, <2>3 DEF LayoutOK
<1>10. /\ WriterReadsBack'
       /\ \A i \in L1Index : \A h : h = l1[i] /\ h # 0 => hostAt(h)' = Table(l2Of(i))'
  BY <1>1, <1>6, DataStays
<1>11. \A i \in L1Index : l1'[i] # 0 => hostAt(l1[i])' = Table(l2Of(i))'
  BY <1>1, <1>10 DEF hostAt
<1>12. \A g \in Guest : l2map'[g] # 0 => l1'[g \div Entries] # 0
  BY <1>1 DEF QInv, TablesOK
<1>13. ASSUME NEW j \in 0 .. l1Clusters - 1
       PROVE  hostAt(l1Off + j)' = Table(slice(l1, j * Entries))'
  <2>1. PICK h : h = l1Off + j
    OBVIOUS
  <2>2. hostAt(h)' = Table(slice(l1, j * Entries))
    BY <1>1, <1>6, <2>1 DEF QInv, TablesOK
  <2> QED BY <1>1, <2>1, <2>2 DEF hostAt, Table, slice
<1>14. TablesOK'
  BY <1>1, <1>6, <1>11, <1>12, <1>13 DEF TablesOK
<1> QED BY <1>7, <1>8, <1>9, <1>10, <1>14 DEF QInv

\* An L2 table: it gets the next cluster, and its L1 entry leads to it.
LEMMA WriteL2Keeps ==
    ASSUME QInv, NEW res \in Outcome, WriteL2Table(res)
    PROVE  QInv'
<1>1. /\ pc = "l2" /\ ~opens /\ ~Tabled /\ ~Sized /\ Top = nextHost
      /\ UNCHANGED <<l2map, finalized, disk>> /\ UNCHANGED <<l1Off, rb, rt, rtOff, rbOff>>
      /\ nextHost' = nextHost + 1
      /\ pc' = IF res = "ok" THEN "l2" ELSE "failed"
  BY DEF WriteL2Table, Sized, Tabled, Top, QInv, FormOK, goOn, planVars
<1>2. /\ nextHost \in Nat \ {0} /\ DOMAIN host \subseteq 0 .. nextHost - 1
      /\ l2map \in [Guest -> Nat] /\ l1 \in [L1Index -> Nat] /\ todoL2 \subseteq L1Index
  BY TopInFile DEF QInv, FormOK, TypeOK
<1>3. PICK idx \in todoL2 :
         /\ host' = hostAfter([x \in {nextHost} |-> Table(l2Of(idx))], res)
         /\ l1' = IF res = "ok" THEN [l1 EXCEPT ![idx] = nextHost] ELSE l1
         /\ todoL2' = todoL2 \ {idx}
  BY DEF WriteL2Table
<1>4. PICK new : new = [x \in {nextHost} |-> Table(l2Of(idx))]
  OBVIOUS
<1>5. host' = hostAfter(new, res) /\ DOMAIN new = {nextHost} /\ new[nextHost] = Table(l2Of(idx))
  BY <1>3, <1>4
<1>6. /\ DOMAIN host' \subseteq DOMAIN host \cup DOMAIN new
      /\ \A h : h \notin DOMAIN new => hostAt(h)' = hostAt(h)
      /\ res # "lost" => \A h \in DOMAIN new : hostAt(h)' = new[h]
  BY <1>5, HostAfterWrite
<1>7. DOMAIN host' \subseteq 0 .. nextHost' - 1
  BY <1>1, <1>2, <1>5, <1>6
<1>8. ~opens' /\ \A h \in 1 .. Top - 1 : hostAt(h)' = hostAt(h)
  <2>1. \A h \in 0 .. nextHost - 1 : h \notin DOMAIN new
    BY <1>2, <1>5
  <2>2. hostAt(0)' = hostAt(0)
    BY <1>2, <1>6, <2>1
  <2> QED BY <1>1, <1>6, <2>1, <2>2, OpensBy0
<1>9. /\ ~Tabled' /\ ~Sized' /\ ~Blocked' /\ ~Listed'
      /\ Top' = nextHost + 1
  BY <1>1, <1>8 DEF Tabled, Sized, Blocked, Listed, Top
<1>10. idx \in L1Index /\ l1[idx] = 0
  BY <1>2, <1>3 DEF QInv, FormOK
<1>11. /\ l1' \in [L1Index -> Nat]
       /\ \A i \in L1Index : l1'[i] = IF res = "ok" /\ i = idx THEN nextHost ELSE l1[i]
  BY <1>2, <1>3, <1>10
<1>12. FormOK'
  <2>1. \A i \in todoL2' : l1'[i] = 0
    BY <1>2, <1>3, <1>11 DEF QInv, FormOK
  <2> QED BY <1>1, <1>2, <1>3, <1>7, <1>8, <1>11, <2>1 DEF QInv, FormOK, TypeOK
<1>13. OwnersOK'
  <2>1. /\ \A g \in Guest : l2map[g] < nextHost
        /\ \A i \in L1Index : l1[i] < nextHost
    BY <1>1 DEF QInv, OwnersOK
  <2>2. /\ Top' >= 1
        /\ \A g \in Guest : l2map'[g] < Top'
        /\ \A i \in L1Index : l1'[i] < Top'
    BY <1>1, <1>2, <1>9, <1>11, <2>1
  <2>3. \A i, k \in L1Index : l1'[i] # 0 /\ l1'[i] = l1'[k] => i = k
    BY <1>2, <1>11, <2>1 DEF QInv, OwnersOK
  <2>4. \A g \in Guest, i \in L1Index : l2map'[g] # 0 => l2map'[g] # l1'[i]
    BY <1>1, <1>2, <1>11, <2>1 DEF QInv, OwnersOK
  <2>5. ASSUME pc' # "failed" \/ opens', NEW h \in 1 .. Top' - 1
        PROVE  Owned(h)'
    <3>1. res = "ok"
      BY <1>1, <1>8, <2>5
    <3>2. CASE h = nextHost
      BY <1>10, <1>11, <3>1, <3>2 DEF Owned, L1Index
    <3>3. CASE h # nextHost
      <4>1. h \in 1 .. Top - 1 /\ h # 0
        BY <1>1, <1>2, <1>9, <3>3
      <4>2. Owned(h)
        BY <1>1, <4>1 DEF QInv, OwnersOK
      <4>3. CASE \E g \in Guest : l2map[g] = h
        BY <1>1, <4>3 DEF Owned
      <4>4. CASE \E i \in L1Index : l1[i] = h
        <5>1. PICK i \in L1Index : l1[i] = h
          BY <4>4
        <5>2. l1'[i] = h
          BY <1>10, <1>11, <4>1, <5>1
        <5> QED BY <5>1, <5>2 DEF Owned
      <4> QED BY <4>2, <4>3, <4>4 DEF Owned
    <3> QED BY <3>2, <3>3
  <2> QED BY <1>1, <2>2, <2>3, <2>4, <2>5 DEF QInv, OwnersOK
<1>14. LayoutOK'
  BY <1>1, <1>9 DEF LayoutOK
<1>15. /\ WriterReadsBack'
       /\ \A i \in L1Index : \A h : h = l1[i] /\ h # 0 => hostAt(h)' = Table(l2Of(i))'
  BY <1>1, <1>8, DataStays
<1>16. ASSUME NEW i \in L1Index, l1'[i] # 0
       PROVE  hostAt(l1[i])' = Table(l2Of(i))'
  <2>1. PICK h : h = l1'[i]
    OBVIOUS
  <2>2. hostAt(h)' = Table(l2Of(i))'
    <3>1. CASE res = "ok" /\ i = idx
      <4>1. h = nextHost /\ hostAt(h)' = Table(l2Of(i))
        BY <1>5, <1>6, <1>11, <2>1, <3>1
      <4>2. l2Of(i)' = l2Of(i)
        BY <1>1 DEF l2Of
      <4> QED BY <4>1, <4>2 DEF Table
    <3>2. CASE ~(res = "ok" /\ i = idx)
      BY <1>11, <1>15, <1>16, <2>1, <3>2
    <3> QED BY <3>1, <3>2
  <2> QED BY <2>1, <2>2 DEF hostAt
<1>17. ASSUME pc' = "l2", NEW g \in Guest, l2map'[g] # 0
       PROVE  l1'[g \div Entries] # 0 \/ g \div Entries \in todoL2'
  <2>1. l1[g \div Entries] # 0 \/ g \div Entries \in todoL2
    BY <1>1, <1>17 DEF QInv, TablesOK
  <2>2. g \div Entries \in L1Index
    BY GuestInL1 DEF L1Index
  <2>3. res = "ok"
    BY <1>1, <1>17
  <2> QED BY <1>2, <1>3, <1>11, <2>1, <2>2, <2>3
<1>18. TablesOK'
  BY <1>8, <1>9, <1>16, <1>17 DEF TablesOK
<1> QED BY <1>12, <1>13, <1>14, <1>15, <1>18 DEF QInv

\* Finalize plans one L2 table for every L1 entry that some guest cluster needs.
LEMMA FinalizeKeeps ==
    ASSUME QInv, Finalize
    PROVE  QInv'
<1>1. /\ pc = "open" /\ pc' = "l2" /\ ~opens /\ ~Tabled /\ ~Sized /\ Top = nextHost
      /\ finalized' = TRUE
      /\ UNCHANGED <<l2map, nextHost, host, l1, disk>> /\ UNCHANGED <<l1Off, rb, rt, rtOff, rbOff>>
      /\ todoL2' = {g \div Entries : g \in {c \in Guest : l2map[c] # 0}}
  BY DEF Finalize, Sized, Tabled, Top, QInv, FormOK, planVars
<1>2. /\ ~opens' /\ ~Tabled' /\ ~Sized' /\ ~Blocked' /\ ~Listed' /\ Top' = Top
      /\ \A h : hostAt(h)' = hostAt(h)
  BY <1>1 DEF opens, hostAt, Tabled, Sized, Blocked, Listed, Top
<1>3. todoL2' \subseteq L1Index
  BY <1>1, GuestInL1 DEF L1Index
<1>4. FormOK'
  BY <1>1, <1>2, <1>3 DEF QInv, FormOK, TypeOK
<1>5. OwnersOK'
  BY <1>1, <1>2, TopInFile, OwnersStay
<1>6. LayoutOK'
  BY <1>1, <1>2 DEF LayoutOK
<1>7. WriterReadsBack'
  BY <1>1, <1>2, DataStays
<1>8. \A i \in L1Index : l1'[i] = 0
  BY <1>1 DEF QInv, FormOK
<1>9. \A g \in Guest : l2map'[g] # 0 => g \div Entries \in todoL2'
  BY <1>1
<1>10. TablesOK'
  BY <1>1, <1>2, <1>8, <1>9 DEF TablesOK
<1> QED BY <1>4, <1>5, <1>6, <1>7, <1>10 DEF QInv

\* A write to the device.  A guest cluster keeps its host cluster, or gets a fresh
\* one that no other guest cluster has and that reads as zeros, as the guest cluster
\* did until now.
LEMMA WriteChunkKeeps ==
    ASSUME QInv, NEW gc \in Guest, NEW lo \in InCl, NEW chunk \in Chunks(lo), NEW res \in Outcome,
           WriteChunk(gc, chunk, res)
    PROVE  QInv'
<1>1. /\ pc = "open" /\ pc' = "open" /\ ~opens /\ Top = nextHost
      /\ UNCHANGED <<finalized, l1, todoL2>> /\ UNCHANGED <<l1Off, rb, rt, rtOff, rbOff>>
      /\ disk' = IF res = "lost" THEN disk
                 ELSE [s \in Sectors |->
                          IF s \div ClSize = gc /\ s % ClSize \in DOMAIN chunk
                          THEN chunk[s % ClSize] ELSE disk[s]]
  BY DEF WriteChunk, Tabled, Top, QInv, FormOK, planVars
<1>2. /\ nextHost \in Nat \ {0} /\ DOMAIN host \subseteq 0 .. nextHost - 1
      /\ l2map \in [Guest -> Nat] /\ disk \in [Sectors -> Val]
      /\ l1 \in [L1Index -> Nat] /\ \A i \in L1Index : l1[i] = 0
      /\ \A g \in Guest : l2map[g] < nextHost
      /\ \A g, k \in Guest : l2map[g] # 0 /\ l2map[g] = l2map[k] => g = k
  BY <1>1 DEF QInv, FormOK, TypeOK, OwnersOK
<1>3. disk' \in [Sectors -> Val]
  <2>1. \A i \in DOMAIN chunk : chunk[i] \in Val
    BY DEF Chunks
  <2> QED BY <1>1, <1>2, <2>1
<1>4. CASE skips(gc, chunk) /\ UNCHANGED <<l2map, nextHost, host>>
  <2>1. /\ ~opens' /\ ~Tabled' /\ ~Sized' /\ ~Blocked' /\ ~Listed' /\ Top' = Top
        /\ \A h : hostAt(h)' = hostAt(h)
    BY <1>1, <1>4 DEF opens, hostAt, Tabled, Sized, Blocked, Listed, Top
  <2>2. FormOK'
    BY <1>1, <1>2, <1>3, <1>4, <2>1 DEF QInv, FormOK, TypeOK
  <2>3. OwnersOK'
    BY <1>1, <1>4, <2>1, TopInFile, OwnersStay
  <2>4. LayoutOK' /\ TablesOK'
    BY <1>1, <1>2, <2>1 DEF LayoutOK, TablesOK
  <2>5. ASSUME NEW s \in Sectors
        PROVE  writerRead(s)' = disk'[s]
    <3>1. writerRead(s)' = writerRead(s) /\ writerRead(s) = disk[s]
      BY <1>4 DEF writerRead, hostAt, QInv, WriterReadsBack
    <3>2. CASE s \div ClSize = gc
      <4>1. writerRead(s) = 0
        BY <1>4, <3>2 DEF writerRead, skips
      <4>2. disk'[s] = disk[s] \/ disk'[s] = 0
        BY <1>1, <1>4 DEF skips
      <4> QED BY <3>1, <4>1, <4>2
    <3>3. CASE s \div ClSize # gc
      BY <1>1, <3>1, <3>3
    <3> QED BY <3>2, <3>3
  <2> QED BY <2>2, <2>3, <2>4, <2>5 DEF QInv, WriterReadsBack
<1>5. CASE ~(skips(gc, chunk) /\ UNCHANGED <<l2map, nextHost, host>>)
  <2>1. PICK h, new : /\ h = hostFor(gc)
                      /\ new = [i \in InCl |-> IF i \in DOMAIN chunk THEN chunk[i]
                                               ELSE SectorOf(hostAt(h), i)]
    OBVIOUS
  <2>2. /\ l2map' = [l2map EXCEPT ![gc] = h]
        /\ nextHost' = IF h = nextHost THEN nextHost + 1 ELSE nextHost
        /\ host' = hostAfter([x \in {h} |-> Data(new)], res)
    BY <1>5, <2>1 DEF WriteChunk
  <2>3. /\ h \in 1 .. nextHost
        /\ l2map[gc] = 0 => h = nextHost
        /\ l2map[gc] # 0 => h = l2map[gc] /\ h < nextHost
    BY <1>2, <2>1 DEF hostFor
  <2>4. PICK write : write = [x \in {h} |-> Data(new)]
    OBVIOUS
  <2>5. host' = hostAfter(write, res) /\ DOMAIN write = {h} /\ write[h] = Data(new)
    BY <2>2, <2>4
  <2>6. /\ DOMAIN host' \subseteq DOMAIN host \cup {h}
        /\ \A k : k # h => hostAt(k)' = hostAt(k)
        /\ res # "lost" => hostAt(h)' = Data(new)
    BY <2>5, HostAfterWrite
  <2>7. /\ l2map' \in [Guest -> Nat] /\ l2map'[gc] = h
        /\ \A g \in Guest : g # gc => l2map'[g] = l2map[g] /\ l2map[g] # h
        /\ nextHost' \in Nat \ {0} /\ nextHost <= nextHost' /\ h < nextHost'
    BY <1>2, <2>2, <2>3
  <2>8. DOMAIN host' \subseteq 0 .. nextHost' - 1
    BY <1>2, <2>3, <2>6, <2>7
  <2>9. ~opens'
    <3>1. hostAt(0)' = hostAt(0)
      BY <2>3, <2>6
    <3> QED BY <1>1, <3>1, OpensBy0
  <2>10. /\ ~Tabled' /\ ~Sized' /\ ~Blocked' /\ ~Listed' /\ Top' = nextHost'
    BY <1>1, <2>9 DEF Tabled, Sized, Blocked, Listed, Top
  <2>11. FormOK'
    BY <1>1, <1>2, <1>3, <2>7, <2>8, <2>9 DEF QInv, FormOK, TypeOK
  <2>12. OwnersOK'
    <3>1. /\ Top' >= 1
          /\ \A g \in Guest : l2map'[g] < Top'
          /\ \A i \in L1Index : l1'[i] < Top'
      BY <1>1, <1>2, <2>7, <2>10
    <3>2. \A g, k \in Guest : l2map'[g] # 0 /\ l2map'[g] = l2map'[k] => g = k
      BY <1>2, <2>7
    <3>3. ASSUME NEW k \in 1 .. Top' - 1
          PROVE  Owned(k)'
      <4>1. CASE k = h
        BY <2>7, <4>1 DEF Owned
      <4>2. CASE k # h
        <5>1. k \in 1 .. Top - 1
          BY <1>1, <1>2, <2>2, <2>3, <2>10, <4>2
        <5>2. PICK g \in Guest : l2map[g] = k
          BY <1>1, <1>2, <5>1 DEF QInv, OwnersOK, Owned
        <5>3. g # gc
          BY <2>3, <4>2, <5>1, <5>2
        <5> QED BY <2>7, <5>2, <5>3 DEF Owned
      <4> QED BY <4>1, <4>2
    <3> QED BY <1>1, <1>2, <3>1, <3>2, <3>3 DEF OwnersOK
  <2>13. LayoutOK' /\ TablesOK'
    BY <1>1, <1>2, <2>9, <2>10 DEF LayoutOK, TablesOK
  <2>14. ASSUME NEW s \in Sectors, s \div ClSize = gc
         PROVE  SectorOf(hostAt(h), s % ClSize) = disk[s]
    <3>1. writerRead(s) = disk[s]
      BY DEF QInv, WriterReadsBack
    <3>2. CASE l2map[gc] = 0
      <4>1. hostAt(h) = Hole
        BY <1>2, <2>3, <3>2 DEF hostAt
      <4> QED BY <2>14, <3>1, <3>2, <4>1 DEF writerRead, SectorOf, Hole
    <3>3. CASE l2map[gc] # 0
      BY <2>3, <2>14, <3>1, <3>3 DEF writerRead
    <3> QED BY <3>2, <3>3
  <2>15. ASSUME NEW s \in Sectors
         PROVE  writerRead(s)' = disk'[s]
    <3>1. s \div ClSize \in Guest /\ s % ClSize \in InCl
      BY SectorInCluster
    <3>2. CASE s \div ClSize = gc
      <4>1. writerRead(s)' = SectorOf(hostAt(h)', s % ClSize)
        BY <2>3, <2>7, <3>2 DEF writerRead
      <4>2. CASE res = "lost"
        <5>1. hostAt(h)' = hostAt(h)
          BY <2>2, <4>2 DEF hostAfter, hostAt
        <5> QED BY <1>1, <2>14, <3>2, <4>1, <4>2, <5>1
      <4>3. CASE res # "lost"
        <5>1. writerRead(s)' = new[s % ClSize]
          BY <2>6, <4>1, <4>3 DEF SectorOf, Data
        <5>2. new[s % ClSize] = IF s % ClSize \in DOMAIN chunk THEN chunk[s % ClSize]
                                ELSE SectorOf(hostAt(h), s % ClSize)
          BY <2>1, <3>1
        <5> QED BY <1>1, <2>14, <3>2, <4>3, <5>1, <5>2
      <4> QED BY <4>2, <4>3
    <3>3. CASE s \div ClSize # gc
      <4>1. PICK k : k = l2map[s \div ClSize]
        OBVIOUS
      <4>2. k = l2map'[s \div ClSize] /\ hostAt(k)' = hostAt(k)
        BY <2>6, <2>7, <3>1, <3>3, <4>1
      <4>3. writerRead(s)' = IF k = 0 THEN 0 ELSE SectorOf(hostAt(k)', s % ClSize)
        BY <4>2 DEF writerRead
      <4>4. writerRead(s)' = writerRead(s)
        BY <4>1, <4>2, <4>3 DEF writerRead
      <4>5. writerRead(s) = disk[s] /\ disk'[s] = disk[s]
        BY <1>1, <3>3 DEF QInv, WriterReadsBack
      <4> QED BY <4>4, <4>5
    <3> QED BY <3>2, <3>3
  <2> QED BY <2>11, <2>12, <2>13, <2>15 DEF QInv, WriterReadsBack
<1> QED BY <1>4, <1>5

\* A step that changes nothing.
LEMMA StutterKeeps ==
    ASSUME QInv, UNCHANGED vars
    PROVE  QInv'
<1>1. UNCHANGED <<l2map, nextHost, finalized, host, pc, l1, todoL2, l1Off, rb, rt, rtOff, rbOff, disk>>
  BY DEF vars
<1>2. /\ opens' = opens /\ Top' = Top /\ Tabled' = Tabled /\ Sized' = Sized
      /\ Blocked' = Blocked /\ Listed' = Listed
  BY <1>1 DEF opens, hostAt, Top, Tabled, Sized, Blocked, Listed
<1>3. FormOK' /\ LayoutOK'
  BY <1>1, <1>2 DEF QInv, FormOK, TypeOK, LayoutOK
<1>4. OwnersOK'
  BY <1>1, <1>2 DEF QInv, OwnersOK, Owned
<1>5. TablesOK'
  BY <1>1, <1>2 DEF QInv, TablesOK, hostAt, l2Of, slice, refBlock, refTable, Table, Header, Refs
<1>6. WriterReadsBack'
  BY <1>1 DEF QInv, WriterReadsBack, writerRead, hostAt
<1> QED BY <1>3, <1>4, <1>5, <1>6 DEF QInv

\* A new writer.
LEMMA QInvInit ==
    ASSUME NewWriter
    PROVE  QInv
<1>1. \A h : hostAt(h) = Hole
  BY DEF NewWriter, hostAt
<1>2. ~opens /\ pc = "open" /\ nextHost = 1
  BY <1>1 DEF NewWriter, firstCluster, opens, Hole
<1>3. ~Tabled /\ ~Sized /\ ~Blocked /\ ~Listed /\ Top = 1
  BY <1>2 DEF Tabled, Sized, Blocked, Listed, Top
<1>4. FormOK
  <2>1. DOMAIN host = {} /\ l1 = [i \in L1Index |-> 0] /\ todoL2 = {}
    BY DEF NewWriter, L1Index
  <2>2. TypeOK
    <3>1. l2map \in [Guest -> Nat] /\ disk \in [Sectors -> Val]
      BY Constants DEF NewWriter
    <3>2. /\ finalized \in BOOLEAN
          /\ l1Off \in Nat /\ rb \in Nat /\ rt \in Nat /\ rtOff \in Nat /\ rbOff \in Nat
      BY DEF NewWriter
    <3> QED BY <1>2, <2>1, <3>1, <3>2 DEF TypeOK
  <2>3. rb > 0 /\ rt > 0
    BY DEF NewWriter
  <2> QED BY <1>2, <2>1, <2>2, <2>3 DEF FormOK
<1>5. OwnersOK
  BY <1>3 DEF NewWriter, OwnersOK, L1Index
<1>6. LayoutOK /\ TablesOK
  BY <1>2, <1>3 DEF NewWriter, LayoutOK, TablesOK, L1Index
<1>7. WriterReadsBack
  BY SectorInCluster DEF NewWriter, WriterReadsBack, writerRead
<1> QED BY <1>4, <1>5, <1>6, <1>7 DEF QInv

\* The invariant is inductive.
LEMMA QInvStep ==
    ASSUME QInv, [Next]_vars
    PROVE  QInv'
<1>1. ASSUME NEW gc \in Guest, NEW lo \in InCl, NEW res \in Outcome, NEW chunk \in Chunks(lo),
             WriteChunk(gc, chunk, res)
      PROVE  QInv'
  BY <1>1, WriteChunkKeeps
<1>2. CASE Finalize
  BY <1>2, FinalizeKeeps
<1>3. CASE FinalizeStep
  BY <1>3, PlanKeeps, WriteL2Keeps, WriteL1Keeps, WriteRefBlocksKeeps, WriteRefTableKeeps,
     WriteHeaderKeeps, TruncateKeeps DEF FinalizeStep
<1>4. CASE UNCHANGED vars
  BY <1>4, StutterKeeps
<1> QED BY <1>1, <1>2, <1>3, <1>4 DEF Next

\* Every reachable state satisfies it.
LEMMA QInvHolds == Spec => []QInv
<1>1. NewWriter => QInv
  BY QInvInit
<1>2. QInv /\ [Next]_vars => QInv'
  BY QInvStep
<1> QED BY <1>1, <1>2, PTL DEF Spec

-----------------------------------------------------------------------------
(* What the reader finds. *)

\* An entry of a table that is written to consecutive clusters.
LEMMA TableReads ==
    ASSUME NEW t, NEW off \in Nat, NEW n \in Nat, NEW k \in Nat, k \div Entries \in 0 .. n - 1,
           \A j \in 0 .. n - 1 : hostAt(off + j) = Table(slice(t, j * Entries))
    PROVE  tableEntry(off, k) = IF k \in DOMAIN t THEN t[k] ELSE 0
<1>1. PICK q \in Nat, r \in 0 .. Entries - 1 :
          q = k \div Entries /\ r = k % Entries /\ k = q * Entries + r
  BY Constants, DivMod
<1>2. tableEntry(off, k) = EntryOf(hostAt(off + q), r)
  BY <1>1 DEF tableEntry
<1>3. hostAt(off + q) = Table(slice(t, q * Entries))
  BY <1>1
<1>4. EntryOf(hostAt(off + q), r) = slice(t, q * Entries)[r]
  BY <1>3 DEF EntryOf, Table
<1> QED BY <1>1, <1>2, <1>4 DEF slice

\* The header leads to the L1 table.
LEMMA L1Reads ==
    ASSUME QInv, opens
    PROVE  /\ hostAt(0) = Header(l1Size, l1Off, rtOff, rt)
           /\ \A i \in L1Index : tableEntry(l1Off, i) = l1[i]
<1>1. /\ hostAt(0) = Header(l1Size, l1Off, rtOff, rt)
      /\ \A j \in 0 .. l1Clusters - 1 : hostAt(l1Off + j) = Table(slice(l1, j * Entries))
      /\ l1 \in [L1Index -> Nat] /\ l1Off \in Nat /\ l1Clusters \in Nat
  BY TopInFile DEF QInv, TablesOK, Tabled, FormOK
<1>2. l1Size \in Nat
  BY Constants, CeilDivHolds DEF l1Size
<1>3. ASSUME NEW i \in L1Index
      PROVE  tableEntry(l1Off, i) = l1[i]
  <2>1. i \in Nat /\ i < l1Size
    BY <1>2 DEF L1Index
  <2>2. i \div Entries \in 0 .. l1Clusters - 1
    BY <1>2, <2>1, EntryInTable DEF l1Clusters
  <2>3. tableEntry(l1Off, i) = IF i \in DOMAIN l1 THEN l1[i] ELSE 0
    BY <1>1, <2>1, <2>2, TableReads
  <2> QED BY <1>1, <2>3
<1> QED BY <1>1, <1>3

\* The reader resolves a guest cluster as the writer does.
LEMMA GuestReads ==
    ASSUME QInv, opens, NEW g \in Guest
    PROVE  hostOffset(g) = l2map[g]
<1>1. PICK idx, r : idx = g \div Entries /\ r = g % Entries
  OBVIOUS
<1>2. /\ idx \in L1Index /\ r \in 0 .. Entries - 1 /\ idx * Entries + r = g
      /\ l1Size \in Nat /\ idx \in Nat /\ idx < l1Size
  <2>1. l1Size \in Nat
    BY Constants, CeilDivHolds DEF l1Size
  <2>2. g \div Entries \in 0 .. l1Size - 1 /\ g % Entries \in 0 .. Entries - 1
        /\ g = (g \div Entries) * Entries + (g % Entries)
    BY GuestInL1
  <2> QED BY <1>1, <2>1, <2>2 DEF L1Index
<1>3. hostAt(0).l1Size = l1Size /\ tableEntry(hostAt(0).l1Off, idx) = l1[idx]
  BY <1>2, L1Reads DEF Header
<1>4. hostOffset(g) = IF l1[idx] = 0 THEN 0 ELSE tableEntry(l1[idx], r)
  BY <1>1, <1>2, <1>3 DEF hostOffset
<1>5. CASE l1[idx] = 0
  <2>1. pc # "l2"
    BY DEF QInv, FormOK
  <2>2. l2map[g] = 0
    BY <1>1, <1>5, <2>1 DEF QInv, TablesOK, Tabled
  <2> QED BY <1>4, <1>5, <2>2
<1>6. CASE l1[idx] # 0
  <2>1. PICK h \in Nat : h = l1[idx]
    BY <1>2 DEF QInv, FormOK
  <2>2. hostAt(h) = Table(l2Of(idx))
    BY <1>2, <1>6, <2>1 DEF QInv, TablesOK
  <2>3. r \div Entries = 0 /\ r % Entries = r
    BY <1>2, Constants, RemainderIsSmall
  <2>4. h + r \div Entries = h
    BY <2>3
  <2>5. tableEntry(h, r) = EntryOf(hostAt(h), r)
    BY <2>3, <2>4 DEF tableEntry
  <2>6. EntryOf(hostAt(h), r) = l2Of(idx)[r]
    BY <2>2 DEF EntryOf, Table
  <2>7. l2Of(idx)[r] = l2map[g]
    BY <1>2 DEF l2Of
  <2> QED BY <1>4, <1>6, <2>1, <2>5, <2>6, <2>7
<1> QED BY <1>5, <1>6

\* The reader returns what the writer would.
LEMMA ReaderReads ==
    ASSUME QInv, opens, NEW s \in Sectors
    PROVE  readerRead(s) = disk[s]
<1>1. hostOffset(s \div ClSize) = l2map[s \div ClSize]
  BY SectorInCluster, GuestReads
<1>2. readerRead(s) = writerRead(s)
  BY <1>1 DEF readerRead, writerRead
<1> QED BY <1>2 DEF QInv, WriterReadsBack

-----------------------------------------------------------------------------
(* The refcounts. *)

\* What the file's own structures have for their sizes and places, once it opens.
LEMMA SealedLayout ==
    ASSUME QInv, opens
    PROVE  /\ l1Off \in Nat \ {0} /\ nextHost \in Nat \ {0} /\ l1Clusters \in Nat
           /\ rt \in Nat \ {0} /\ rb \in Nat \ {0} /\ rtOff \in Nat /\ rbOff \in Nat \ {0}
           /\ l1Off + l1Clusters = rtOff /\ rtOff + rt = rbOff /\ rbOff + rb = nextHost
           /\ rb = ceilDiv(nextHost, RefsPerCl) /\ rt = ceilDiv(rb, Entries)
           /\ Top = l1Off
<1>1. Top = l1Off /\ Sized
  BY DEF Top, Tabled, Sized
<1>2. /\ l1Off + l1Clusters = rtOff /\ rtOff + rt = rbOff /\ rbOff + rb = nextHost
      /\ rb = ceilDiv(nextHost, RefsPerCl) /\ rt = ceilDiv(rb, Entries)
  BY <1>1 DEF QInv, LayoutOK
<1> QED BY <1>1, <1>2, TopInFile

\* The refcount table lists the blocks, and nothing behind them.
LEMMA BlocksListed ==
    ASSUME QInv, opens, NEW b \in Nat, b < rt * Entries
    PROVE  tableEntry(rtOff, b) = IF b < rb THEN rbOff + b ELSE 0
<1>1. /\ rt \in Nat /\ rb \in Nat /\ rtOff \in Nat
      /\ \A j \in 0 .. rt - 1 : hostAt(rtOff + j) = Table(slice(refTable, j * Entries))
  BY SealedLayout DEF QInv, TablesOK, Listed
<1>2. b \div Entries \in 0 .. rt - 1
  <2>1. PICK q \in Nat, r \in 0 .. Entries - 1 :
            q = b \div Entries /\ r = b % Entries /\ b = q * Entries + r
    BY Constants, DivMod
  <2>2. ~(rt <= q)
    <3> SUFFICES ASSUME rt <= q PROVE FALSE
      OBVIOUS
    <3>1. rt * Entries <= q * Entries /\ rt * Entries \in Nat /\ q * Entries \in Nat
      BY <1>1, Constants, TimesMonotonic
    <3> QED BY <2>1, <3>1, Constants
  <2> QED BY <1>1, <2>1, <2>2
<1>3. tableEntry(rtOff, b) = IF b \in DOMAIN refTable THEN refTable[b] ELSE 0
  BY <1>1, <1>2, TableReads
<1> QED BY <1>1, <1>3 DEF refTable

\* Every cluster of the file is counted once, and none behind it.
LEMMA CountsFile ==
    ASSUME QInv, opens, NEW h \in Nat
    PROVE  refcountOf(h) = IF h < nextHost THEN 1 ELSE 0
<1>1. /\ nextHost \in Nat /\ rt \in Nat /\ rb \in Nat /\ rbOff \in Nat \ {0}
      /\ rb = ceilDiv(nextHost, RefsPerCl) /\ rt = ceilDiv(rb, Entries)
  BY SealedLayout
<1>2. PICK b \in Nat, r \in 0 .. RefsPerCl - 1 :
          b = h \div RefsPerCl /\ r = h % RefsPerCl /\ h = b * RefsPerCl + r
  BY Constants, DivMod
<1>3. rt * Entries \in Nat /\ b * RefsPerCl \in Nat
  BY <1>1, Constants
<1>4. refcountOf(h) = IF b >= rt * Entries \/ tableEntry(rtOff, b) = 0 THEN 0
                      ELSE hostAt(tableEntry(rtOff, b)).counts[r]
  BY <1>2, L1Reads DEF refcountOf, Header
<1>5. CASE b < rb
  <2>1. b < rt * Entries
    BY <1>1, <1>5, TableHolds
  <2>2. tableEntry(rtOff, b) = rbOff + b
    BY <1>5, <2>1, BlocksListed
  <2>3. hostAt(rbOff + b) = refBlock(b)
    BY <1>1, <1>5 DEF QInv, TablesOK, Blocked
  <2>4. refBlock(b).counts[r] = IF h < nextHost THEN 1 ELSE 0
    BY <1>2 DEF refBlock, Refs
  <2>5. rbOff + b # 0
    BY <1>1
  <2>6. refcountOf(h) = refBlock(b).counts[r]
    BY <1>3, <1>4, <2>1, <2>2, <2>3, <2>5
  <2> QED BY <2>4, <2>6
<1>6. CASE ~(b < rb)
  <2>1. ~(h < nextHost)
    <3> SUFFICES ASSUME h < nextHost PROVE FALSE
      OBVIOUS
    <3>1. b * RefsPerCl < nextHost
      BY <1>1, <1>2, <1>3, Constants
    <3>2. b < rb
      BY <1>1, <3>1, Constants, CeilDivHolds
    <3> QED BY <1>6, <3>2
  <2>2. CASE b < rt * Entries
    BY <1>4, <1>6, <2>1, <2>2, BlocksListed
  <2>3. CASE ~(b < rt * Entries)
    BY <1>3, <1>4, <2>1, <2>3
  <2> QED BY <2>2, <2>3
<1> QED BY <1>5, <1>6

\* A set with at most one element.
LEMMA AtMostOne ==
    ASSUME NEW S, \A x, y \in S : x = y
    PROVE  Cardinality(S) = IF S = {} THEN 0 ELSE 1
<1>1. CASE S = {}
  BY <1>1, FS_EmptySet
<1>2. CASE S # {}
  <2>1. PICK x : S = {x}
    BY <1>2
  <2> QED BY <1>2, <2>1, FS_Singleton
<1> QED BY <1>1, <1>2

\* Every cluster behind the header is referenced once: as data, as an L2 table, as part
\* of the L1 or of the refcount table, or as a refcount block; nothing else is.
LEMMA ReferencesFile ==
    ASSUME QInv, opens, NEW h \in Nat
    PROVE  Referenced(h) = IF h < nextHost THEN 1 ELSE 0
<1>1. /\ l1Off \in Nat \ {0} /\ nextHost \in Nat \ {0} /\ l1Clusters \in Nat
      /\ rt \in Nat \ {0} /\ rb \in Nat \ {0} /\ rtOff \in Nat /\ rbOff \in Nat \ {0}
      /\ l1Off + l1Clusters = rtOff /\ rtOff + rt = rbOff /\ rbOff + rb = nextHost
      /\ rt = ceilDiv(rb, Entries) /\ Top = l1Off
  BY SealedLayout
<1>2. CASE h = 0
  BY <1>1, <1>2 DEF Referenced
<1>3. CASE h # 0
  <2>1. PICK A, B, D : /\ A = {g \in Guest : l2map[g] = h}
                       /\ B = {i \in L1Index : l1[i] = h}
                       /\ D = {b \in 0 .. rb - 1 : rbOff + b = h}
    OBVIOUS
  <2>2. PICK a, b, d : a = Cardinality(A) /\ b = Cardinality(B) /\ d = Cardinality(D)
    OBVIOUS
  <2>3. PICK c : c = IF h \in l1Off .. l1Off + l1Clusters - 1 \/ h \in rtOff .. rtOff + rt - 1
                     THEN 1 ELSE 0
    OBVIOUS
  <2>4. Referenced(h) = a + b + c + d
    <3>1. A = {g \in Guest : hostOffset(g) = h}
      BY <2>1, GuestReads
    <3>2. B = {i \in 0 .. l1Size - 1 : tableEntry(hostAt(0).l1Off, i) = h}
      BY <2>1, L1Reads DEF Header, L1Index
    <3>3. ASSUME NEW e \in 0 .. rb - 1
          PROVE  tableEntry(rtOff, e) = rbOff + e
      <4>1. e \in Nat /\ e < rb
        BY <1>1
      <4>2. e < rt * Entries
        BY <1>1, <4>1, TableHolds
      <4> QED BY <4>1, <4>2, BlocksListed
    <3>4. D = {e \in 0 .. rb - 1 : tableEntry(rtOff, e) = h}
      BY <2>1, <3>3
    <3> QED BY <1>3, <2>2, <2>3, <3>1, <3>2, <3>4 DEF Referenced
  <2>5. /\ l2map \in [Guest -> Nat] /\ l1 \in [L1Index -> Nat]
        /\ \A g \in Guest : l2map[g] < l1Off
        /\ \A i \in L1Index : l1[i] < l1Off
        /\ \A g \in Guest, i \in L1Index : l2map[g] # 0 => l2map[g] # l1[i]
    BY <1>1 DEF QInv, FormOK, TypeOK, OwnersOK
  <2>6. a = IF A = {} THEN 0 ELSE 1
    BY <1>3, <2>1, <2>2, AtMostOne DEF QInv, OwnersOK
  <2>7. b = IF B = {} THEN 0 ELSE 1
    BY <1>3, <2>1, <2>2, AtMostOne DEF QInv, OwnersOK
  <2>8. d = IF D = {} THEN 0 ELSE 1
    <3>1. \A x, y \in D : x = y
      BY <1>1, <2>1
    <3> QED BY <2>2, <3>1, AtMostOne
  <2>9. D = {} <=> ~(h \in rbOff .. nextHost - 1)
    <3>1. CASE h \in rbOff .. nextHost - 1
      <4>1. h - rbOff \in 0 .. rb - 1 /\ rbOff + (h - rbOff) = h
        BY <1>1, <3>1
      <4> QED BY <2>1, <3>1, <4>1
    <3>2. CASE ~(h \in rbOff .. nextHost - 1)
      BY <1>1, <2>1, <3>2
    <3> QED BY <3>1, <3>2
  <2>10. CASE h < l1Off
    <3>1. Owned(h)
      BY <1>1, <1>3, <2>10 DEF QInv, OwnersOK
    <3>2. (A = {} /\ B # {}) \/ (A # {} /\ B = {})
      BY <1>3, <2>1, <2>5, <3>1 DEF Owned
    <3>3. c = 0 /\ d = 0
      BY <1>1, <2>3, <2>8, <2>9, <2>10
    <3> QED BY <1>1, <2>4, <2>6, <2>7, <2>10, <3>2, <3>3
  <2>11. CASE h >= l1Off
    <3>1. a = 0 /\ b = 0
      BY <1>1, <2>1, <2>5, <2>6, <2>7, <2>11
    <3>2. c = (IF h < rbOff THEN 1 ELSE 0)
      BY <1>1, <2>3, <2>11
    <3>3. d = (IF h >= rbOff /\ h < nextHost THEN 1 ELSE 0)
      BY <1>1, <2>8, <2>9
    <3> QED BY <1>1, <2>4, <2>11, <3>1, <3>2, <3>3
  <2> QED BY <1>1, <2>10, <2>11
<1> QED BY <1>2, <1>3

-----------------------------------------------------------------------------
(* The theorems. *)

\* The fields of the writer and the locals of Finalize keep their ranges, and the
\* host file never has a cluster that the writer did not hand out.
THEOREM WriterIsTyped == Spec => []TypeOK
<1>1. QInv => TypeOK
  BY DEF QInv, FormOK
<1> QED BY <1>1, QInvHolds, PTL

\* Writer.ReadAt returns what WriteAt was given: on every disk, after every sequence
\* of writes, the ones that failed included, and all through Finalize.
THEOREM WriterKeepsDisk == Spec => []WriterReadsBack
<1>1. QInv => WriterReadsBack
  BY DEF QInv
<1> QED BY <1>1, QInvHolds, PTL

\* A file that opens gives the whole disk back to Reader.ReadAt, at whatever write
\* Finalize failed.
THEOREM ImageIsComplete == Spec => []ImageHoldsDisk
<1>1. QInv => ImageHoldsDisk
  BY ReaderReads DEF ImageHoldsDisk
<1> QED BY <1>1, QInvHolds, PTL

\* In a file that opens every cluster has refcount 1 and one reference, the refcount
\* structures included, and nothing behind the end of the file is counted.
THEOREM RefcountsAreExact == Spec => []RefcountsExact
<1>1. ASSUME QInv
      PROVE  RefcountsExact
  <2>1. SUFFICES ASSUME opens, NEW h \in Counted
                 PROVE  /\ refcountOf(h) = (IF h < nextHost THEN 1 ELSE 0)
                        /\ Referenced(h) = refcountOf(h)
    BY DEF RefcountsExact
  <2>2. h \in Nat
    BY DEF Counted
  <2> QED BY <1>1, <2>1, <2>2, CountsFile, ReferencesFile
<1> QED BY <1>1, QInvHolds, PTL
=============================================================================
