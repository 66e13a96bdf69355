----------------------------- MODULE DiskProofs -----------------------------
(***************************************************************************)
(* Proofs about module Disk, for disks of any size, any list of partition  *)
(* sizes (zero and negative ones included) and engines that write anywhere *)
(* and as often as they like: a disk the command has finished has sound    *)
(* partitions and both tables, and no engine changes what it does not own. *)
(***************************************************************************)
EXTENDS Disk, SequenceTheorems, TLAPS

FS(j) == [t |-> "fs", of |-> j]

\* The last sector a partition may use, and what the formatter writes.
LastLBA == IF scheme = "gpt" THEN lastUsableLBA ELSE totalLBA - 1
Tables == IF scheme = "gpt" THEN tablesGPT(parts) ELSE tableMBR(parts)

\* The command has not failed.
Running == stage \in {"assign", "write", "engine"} \/ Succeeded
Planned == stage \in {"write", "engine"} \/ Succeeded

\* The first n partitions hold at least a sector.
NonEmpty(n) == \A j \in 1 .. n : sectionSize(parts[j]) > 0

ShapeOK ==
    /\ scheme \in {"gpt", "mbr"} /\ size \in Nat /\ size \in DiskSizes
    /\ specs \in Seq(Int)
    /\ parts \in Seq([start : Nat, end : Int]) /\ cur \in Nat /\ at \in Nat \ {0}
    /\ stage = "check" => parts = <<>> /\ dev = NoFn /\ at = 1
    /\ stage = "assign" => Len(parts) < Len(specs) /\ dev = NoFn /\ at = 1
    /\ Planned => Len(parts) = Len(specs) /\ at <= Len(specs)
    /\ Running => totalLBA >= (IF scheme = "gpt" THEN firstUsableLBA + entryArraySecs ELSE alignSectors)
                              + alignSectors

\* What is known of a partition as soon as it is planned: it may be empty, or end
\* before it starts, and then what follows it may start anywhere.
PlanOK ==
    Running => \A i \in 1 .. Len(parts) :
        /\ parts[i].end <= LastLBA
        /\ parts[i].start % alignSectors = 0
        /\ specs[i] # 0 => sectionSize(parts[i]) * sectorSize >= specs[i]
        /\ NonEmpty(i - 1) =>
              /\ parts[i].start >= alignSectors
              /\ \A j \in 1 .. i - 1 : parts[j].end < parts[i].start

CursorOK ==
    stage = "assign" =>
        /\ cur % alignSectors = 0
        /\ NonEmpty(Len(parts)) =>
              cur >= alignSectors /\ \A j \in 1 .. Len(parts) : parts[j].end < cur

\* The record a write left.
Written(r) == r.off \in DOMAIN dev /\ dev[r.off] = [len |-> r.len, what |-> r.what]

TablesOK ==
    /\ stage = "write" =>
        /\ todo \in Seq({Tables[i] : i \in 1 .. Len(Tables)}) /\ todo # <<>>
        /\ \A i \in 1 .. Len(Tables) : Written(Tables[i]) \/ \E k \in 1 .. Len(todo) : todo[k] = Tables[i]
    /\ stage = "engine" \/ Succeeded => \A i \in 1 .. Len(Tables) : Written(Tables[i])

\* Every record is of a table, outside all partitions, or of an engine, inside its
\* own; an engine that is done has a partition with room for one.
InTables(o) ==
    /\ dev[o].what.t # "fs"
    /\ (o + dev[o].len <= alignSectors \/ LastLBA < o)
InPartition(o, j) ==
    /\ dev[o].what = FS(j)
    /\ parts[j].start <= o /\ o + dev[o].len <= parts[j].end + 1
RecordsOK ==
    Running =>
        /\ \A o \in DOMAIN dev : o \in Nat /\ dev[o].len \in Nat \ {0}
        /\ \A o \in DOMAIN dev :
              InTables(o) \/ (stage # "write" /\ \E j \in 1 .. at : InPartition(o, j))
        /\ NonEmpty(at - 1)
        /\ Succeeded => NonEmpty(Len(parts))

DiskInv == ShapeOK /\ PlanOK /\ CursorOK /\ TablesOK /\ RecordsOK

-----------------------------------------------------------------------------
(* Arithmetic. *)

\* Rounding up to the alignment.
LEMMA NextStartIsAligned ==
    ASSUME NEW n \in Nat
    PROVE  /\ ceilTo(n, alignSectors) \in Nat
           /\ ceilTo(n, alignSectors) >= n
           /\ ceilTo(n, alignSectors) % alignSectors = 0
<1>1. PICK q \in Int : q = (n + 2047) \div 2048
  OBVIOUS
<1>2. q * 2048 >= n /\ q >= 0
  BY <1>1
<1>3. (q * 2048) % 2048 = 0
  OBVIOUS
<1>4. ceilTo(n, alignSectors) = q * 2048
  BY <1>1 DEF ceilTo, alignSectors
<1> QED BY <1>2, <1>3, <1>4 DEF alignSectors

\* A partition has room for the bytes asked for.
LEMMA SectorsHold ==
    ASSUME NEW b \in Int
    PROVE  sectors(b) \in Int /\ sectors(b) * sectorSize >= b
<1>1. CASE b + 511 >= 0
  BY <1>1 DEF sectors, sectorSize
<1>2. CASE b + 511 < 0
  BY <1>2 DEF sectors, sectorSize
<1> QED BY <1>1, <1>2

\* The geometry of a disk that was not refused.
LEMMA Geometry ==
    ASSUME ShapeOK, Running
    PROVE  /\ totalLBA \in Nat /\ lastUsableLBA = totalLBA - 34 /\ backupArrayLBA = totalLBA - 33
           /\ scheme = "gpt" => totalLBA >= 2114 /\ LastLBA = totalLBA - 34
           /\ scheme = "mbr" => totalLBA >= 4096 /\ LastLBA = totalLBA - 1
           /\ LastLBA \in Nat /\ LastLBA >= alignSectors
  BY DEF ShapeOK, totalLBA, lastUsableLBA, backupArrayLBA, LastLBA, firstUsableLBA,
         entryArraySecs, alignSectors, sectorSize

-----------------------------------------------------------------------------
(* The device. *)

\* A write leaves the records that it does not overlap.
LEMMA OverwriteKeeps ==
    ASSUME NEW d, NEW r, NEW o \in DOMAIN d, o \in Int, r.off \in Int, r.len \in Nat \ {0},
           d[o].len \in Nat \ {0}, o + d[o].len <= r.off \/ r.off + r.len <= o
    PROVE  o \in DOMAIN overwrite(d, r) /\ overwrite(d, r)[o] = d[o]
<1>1. o \in Clear(d, r) /\ o # r.off
  BY DEF Clear
<1> QED BY <1>1 DEF overwrite

\* What a device holds after a write is what was written, and old records.
LEMMA OverwriteAdds ==
    ASSUME NEW d, NEW r
    PROVE  /\ r.off \in DOMAIN overwrite(d, r)
           /\ overwrite(d, r)[r.off] = [len |-> r.len, what |-> r.what]
           /\ \A o \in DOMAIN overwrite(d, r) :
                 o = r.off \/ (o \in DOMAIN d /\ overwrite(d, r)[o] = d[o])
  BY DEF overwrite, Clear

\* The tables lie outside what partitions may use and overlap each other in
\* nothing.
LEMMA TablesLieApart ==
    ASSUME ShapeOK, Running
    PROVE  /\ Len(Tables) \in Nat \ {0}
           /\ \A i \in 1 .. Len(Tables) :
                 /\ Tables[i].off \in Nat /\ Tables[i].len \in Nat \ {0}
                 /\ Tables[i].what.t # "fs"
                 /\ Tables[i].off + Tables[i].len <= alignSectors \/ LastLBA < Tables[i].off
           /\ \A i, j \in 1 .. Len(Tables) :
                 i # j => \/ Tables[i].off + Tables[i].len <= Tables[j].off
                          \/ Tables[j].off + Tables[j].len <= Tables[i].off
<1>1. /\ totalLBA \in Nat /\ lastUsableLBA = totalLBA - 34 /\ backupArrayLBA = totalLBA - 33
      /\ scheme = "gpt" => totalLBA >= 2114 /\ LastLBA = totalLBA - 34
      /\ scheme = "mbr" => totalLBA >= 4096 /\ LastLBA = totalLBA - 1
  BY Geometry
<1>2. CASE scheme = "gpt"
  <2>1. Tables = tablesGPT(parts) /\ Len(Tables) = 5
    BY <1>2 DEF Tables, tablesGPT
  <2>2. /\ Tables[1].off = 0 /\ Tables[1].len = 1 /\ Tables[1].what.t = "protective"
        /\ Tables[2].off = 2 /\ Tables[2].len = 32 /\ Tables[2].what.t = "entries"
        /\ Tables[3].off = 1 /\ Tables[3].len = 1 /\ Tables[3].what.t = "gpt"
        /\ Tables[4].off = totalLBA - 33 /\ Tables[4].len = 32 /\ Tables[4].what.t = "entries"
        /\ Tables[5].off = totalLBA - 1 /\ Tables[5].len = 1 /\ Tables[5].what.t = "gpt"
    BY <1>1, <2>1 DEF tablesGPT, Request, header, entryArrayLBA, entryArraySecs, primaryHdrLBA
  <2> QED BY <1>1, <1>2, <2>1, <2>2 DEF alignSectors
<1>3. CASE scheme = "mbr"
  <2>1. Tables = tableMBR(parts)
    BY <1>3 DEF Tables
  <2>2. Len(Tables) = 1 /\ Tables[1].off = 0 /\ Tables[1].len = 1 /\ Tables[1].what.t = "mbr"
    BY <2>1 DEF tableMBR, Request
  <2> QED BY <2>2 DEF alignSectors
<1> QED BY <1>2, <1>3 DEF ShapeOK

\* A sequence is one over its own values.
LEMMA SeqOfItsValues ==
    ASSUME NEW S, NEW s \in Seq(S)
    PROVE  s \in Seq({s[i] : i \in 1 .. Len(s)})
<1> DEFINE V == {s[i] : i \in 1 .. Len(s)}
<1>1. Len(s) \in Nat /\ s = [i \in 1 .. Len(s) |-> s[i]]
  OBVIOUS
<1>2. \A i \in 1 .. Len(s) : s[i] \in V
  OBVIOUS
<1> HIDE DEF V
<1>3. s \in [1 .. Len(s) -> V]
  BY <1>1, <1>2, Zenon
<1>4. s \in Seq(V)
  BY <1>1, <1>3
<1> QED BY <1>4 DEF V

\* The writes of a table are a sequence of requests.
LEMMA TablesAreListed ==
    ASSUME NEW ps, NEW q, q \in {tablesGPT(ps), tableMBR(ps)}
    PROVE  q \in Seq({q[i] : i \in 1 .. Len(q)}) /\ q # <<>>
<1>1. CASE q = tablesGPT(ps)
  <2>1. PICK a, b, c, d, e : q = <<a, b, c, d, e>>
    BY <1>1 DEF tablesGPT
  <2>2. q \in Seq({a, b, c, d, e}) /\ q # <<>>
    BY <2>1
  <2> QED BY <2>2, SeqOfItsValues
<1>2. CASE q = tableMBR(ps)
  <2>1. PICK a : q = <<a>>
    BY <1>2 DEF tableMBR
  <2>2. q \in Seq({a}) /\ q # <<>>
    BY <2>1
  <2> QED BY <2>2, SeqOfItsValues
<1> QED BY <1>1, <1>2

-----------------------------------------------------------------------------
(* How the steps keep the invariant. *)

\* A failed command leaves what it has written; nothing more is claimed of it.
LEMMA FailKeeps ==
    ASSUME DiskInv, NEW why, why # "nil", err' = why, stage' = "done",
           UNCHANGED <<scheme, size, specs, cur, parts, at>>
    PROVE  DiskInv'
<1>1. ~Running' /\ ~Planned' /\ ~Succeeded' /\ stage' = "done"
  BY DEF Running, Planned, Succeeded
<1>2. ShapeOK'
  BY <1>1 DEF DiskInv, ShapeOK
<1>3. PlanOK' /\ CursorOK' /\ TablesOK' /\ RecordsOK'
  BY <1>1 DEF PlanOK, CursorOK, TablesOK, RecordsOK
<1> QED BY <1>2, <1>3 DEF DiskInv

\* The checks before the first partition is placed.
LEMMA FormatKeeps ==
    ASSUME DiskInv, formatScheme
    PROVE  DiskInv'
<1>1. CASE refusal # "nil" /\ Fails(refusal)
  BY <1>1, FailKeeps DEF Fails
<1>2. CASE /\ refusal = "nil" /\ stage' = "assign"
           /\ cur' = IF scheme = "gpt" THEN ceilTo(firstUsableLBA, alignSectors) ELSE alignSectors
           /\ UNCHANGED <<scheme, size, specs, dev, parts, todo, at, writes, err>>
  <2>1. /\ parts = <<>> /\ dev = NoFn /\ at = 1 /\ specs \in Seq(Int) /\ size \in Nat
        /\ scheme \in {"gpt", "mbr"}
    BY DEF formatScheme, DiskInv, ShapeOK
  <2>2. /\ specs # <<>>
        /\ scheme = "gpt" => ~(totalLBA < firstUsableLBA + entryArraySecs + alignSectors)
        /\ scheme = "mbr" => ~(totalLBA < alignSectors + alignSectors)
    BY <1>2 DEF refusal
  <2>3. /\ cur' \in Nat /\ cur' % alignSectors = 0 /\ cur' >= alignSectors
    BY <1>2, <2>1 DEF ceilTo, firstUsableLBA, entryArraySecs, alignSectors
  <2>4. totalLBA \in Nat /\ totalLBA' = totalLBA /\ Len(specs) > 0
    BY <1>2, <2>1, <2>2 DEF totalLBA, sectorSize
  <2>5. ~Planned' /\ ~Succeeded'
    BY <1>2 DEF Planned, Succeeded
  <2>6. ShapeOK'
    BY <1>2, <2>1, <2>2, <2>3, <2>4, <2>5
       DEF DiskInv, ShapeOK, firstUsableLBA, entryArraySecs, alignSectors
  <2>7. Len(parts') = 0 /\ DOMAIN dev' = {} /\ at' - 1 = 0
    BY <1>2, <2>1 DEF NoFn
  <2>8. PlanOK' /\ CursorOK'
    BY <1>2, <2>3, <2>7 DEF PlanOK, CursorOK
  <2>9. TablesOK' /\ RecordsOK'
    BY <1>2, <2>5, <2>7 DEF TablesOK, RecordsOK, NonEmpty
  <2> QED BY <2>6, <2>8, <2>9 DEF DiskInv
<1> QED BY <1>1, <1>2 DEF formatScheme

\* The end of the partition that is placed: whichever scheme, it is not behind the
\* last sector, and it may lie before the start but never below zero.
LEMMA PlacedEnd ==
    ASSUME DiskInv, stage = "assign",
           NEW end, end = IF scheme = "gpt" THEN endGPT ELSE endMBR,
           (IF scheme = "gpt" THEN refusalGPT ELSE refusalMBR) = "nil"
    PROVE  /\ end \in Int /\ end + 1 \in Nat /\ end <= LastLBA /\ next \in Int
           /\ next # 0 => (end - cur + 1) * sectorSize >= next
<1>1. /\ totalLBA \in Nat /\ lastUsableLBA = totalLBA - 34
      /\ scheme = "gpt" => totalLBA >= 2114 /\ LastLBA = totalLBA - 34
      /\ scheme = "mbr" => totalLBA >= 4096 /\ LastLBA = totalLBA - 1
  BY Geometry DEF DiskInv, Running
<1>2. /\ specs \in Seq(Int) /\ Len(parts) < Len(specs) /\ cur \in Nat
      /\ scheme \in {"gpt", "mbr"} /\ Len(parts) \in Nat
  BY DEF DiskInv, ShapeOK
<1>3. next \in Int
  BY <1>2 DEF next
<1>4. sectors(next) \in Int /\ sectors(next) * sectorSize >= next
  BY <1>3, SectorsHold
<1>5. CASE scheme = "gpt" /\ next = 0
  BY <1>1, <1>3, <1>5 DEF endGPT
<1>6. CASE scheme = "gpt" /\ next # 0
  <2>1. end = cur + sectors(next) - 1 /\ end >= 0 /\ end <= lastUsableLBA
    BY <1>1, <1>2, <1>4, <1>6 DEF endGPT, refusalGPT
  <2>2. end - cur + 1 = sectors(next)
    <3>1. PICK n \in Int : n = sectors(next)
      BY <1>4
    <3>2. PICK c \in Nat : c = cur
      BY <1>2
    <3>3. end = c + n - 1
      BY <2>1, <3>1, <3>2
    <3>4. end - c + 1 = n
      BY <3>3
    <3> QED BY <3>1, <3>2, <3>4
  <2>3. (end - cur + 1) * sectorSize >= next
    BY <1>4, <2>2
  <2>4. end \in Int /\ end + 1 \in Nat /\ end <= LastLBA
    BY <1>1, <1>2, <1>4, <1>6, <2>1
  <2> QED BY <1>3, <2>3, <2>4
<1>7. CASE scheme = "mbr" /\ next = 0
  BY <1>1, <1>3, <1>7 DEF endMBR
<1>8. CASE scheme = "mbr" /\ next # 0
  <2>1. end = cur + sectors(next) - 1 /\ end + 1 >= 0 /\ end + 1 <= totalLBA
    BY <1>1, <1>2, <1>4, <1>8 DEF endMBR, refusalMBR
  <2>2. end - cur + 1 = sectors(next)
    <3>1. PICK n \in Int : n = sectors(next)
      BY <1>4
    <3>2. PICK c \in Nat : c = cur
      BY <1>2
    <3>3. end = c + n - 1
      BY <2>1, <3>1, <3>2
    <3>4. end - c + 1 = n
      BY <3>3
    <3> QED BY <3>1, <3>2, <3>4
  <2>3. (end - cur + 1) * sectorSize >= next
    BY <1>4, <2>2
  <2>4. end \in Int /\ end + 1 \in Nat /\ end <= LastLBA
    BY <1>1, <1>2, <1>4, <1>8, <2>1
  <2> QED BY <1>3, <2>3, <2>4
<1> QED BY <1>2, <1>5, <1>6, <1>7, <1>8

\* One more partition is placed.
LEMMA PlaceKeepsPlan ==
    ASSUME DiskInv, stage = "assign",
           NEW end \in Int, end + 1 \in Nat, end <= LastLBA,
           next # 0 => (end - cur + 1) * sectorSize >= next,
           parts' = Append(parts, Part(cur, end)), cur' = nextStart(end),
           UNCHANGED <<scheme, size, specs>>
    PROVE  /\ parts' \in Seq([start : Nat, end : Int]) /\ Len(parts') = Len(parts) + 1
           /\ PlanOK' /\ CursorOK' /\ cur' \in Nat
<1>1. PICK n : n = Len(parts)
  OBVIOUS
<1>2. /\ parts \in Seq([start : Nat, end : Int]) /\ n \in Nat /\ cur \in Nat
      /\ cur % alignSectors = 0
      /\ NonEmpty(n) => cur >= alignSectors /\ \A j \in 1 .. n : parts[j].end < cur
  BY <1>1 DEF DiskInv, ShapeOK, CursorOK
<1>3. PICK p : p = Part(cur, end)
  OBVIOUS
<1>4. p \in [start : Nat, end : Int] /\ p.start = cur /\ p.end = end
  BY <1>2, <1>3 DEF Part
<1>5. /\ parts' \in Seq([start : Nat, end : Int]) /\ Len(parts') = n + 1 /\ parts'[n + 1] = p
      /\ \A j \in 1 .. n : parts'[j] = parts[j]
  BY <1>1, <1>2, <1>3, <1>4
<1>6. /\ cur' \in Nat /\ cur' >= end + 1 /\ cur' % alignSectors = 0
  BY NextStartIsAligned DEF nextStart
<1>7. LastLBA' = LastLBA
  BY DEF LastLBA, lastUsableLBA, totalLBA
<1>8. ASSUME NEW i \in 1 .. n + 1, NonEmpty(i - 1)'
      PROVE  NonEmpty(i - 1)
  <2>1. \A j \in 1 .. i - 1 : parts'[j] = parts[j]
    BY <1>2, <1>5
  <2>2. \A j \in 1 .. i - 1 : sectionSize(parts'[j]) > 0
    BY <1>8 DEF NonEmpty
  <2> QED BY <2>1, <2>2 DEF NonEmpty
<1>9. ASSUME NEW i \in 1 .. n + 1
      PROVE  /\ parts'[i].end <= LastLBA
             /\ parts'[i].start % alignSectors = 0
             /\ specs[i] # 0 => sectionSize(parts'[i]) * sectorSize >= specs[i]
             /\ NonEmpty(i - 1)' =>
                   /\ parts'[i].start >= alignSectors
                   /\ \A j \in 1 .. i - 1 : parts'[j].end < parts'[i].start
  <2>1. CASE i \in 1 .. n
    <3>1. parts'[i] = parts[i] /\ \A j \in 1 .. i - 1 : parts'[j] = parts[j]
      BY <1>2, <1>5, <2>1
    <3> QED BY <1>1, <1>8, <2>1, <3>1 DEF DiskInv, PlanOK, Running
  <2>2. CASE i = n + 1
    <3>1. parts'[i] = p /\ i - 1 = n /\ specs[i] = next
      BY <1>1, <1>2, <1>5, <2>2 DEF next
    <3>2. sectionSize(p) = end - cur + 1
      BY <1>4 DEF sectionSize
    <3>3. NonEmpty(n)' => NonEmpty(n)
      BY <1>8, <3>1
    <3>4. NonEmpty(i - 1)' => NonEmpty(n)
      BY <3>1, <3>3
    <3>5. NonEmpty(i - 1)' => p.start >= alignSectors /\ \A j \in 1 .. n : parts'[j].end < p.start
      BY <1>2, <1>4, <1>5, <3>4
    <3> QED BY <1>2, <1>4, <3>1, <3>2, <3>5
  <2>3. i \in 1 .. n \/ i = n + 1
    BY <1>2
  <2> QED BY <2>1, <2>2, <2>3, Zenon
<1>10. PlanOK'
  BY <1>5, <1>7, <1>9 DEF PlanOK
<1>11. NonEmpty(n + 1)' => cur' >= alignSectors /\ \A j \in 1 .. n + 1 : parts'[j].end < cur'
  <2> SUFFICES ASSUME NonEmpty(n + 1)'
               PROVE  cur' >= alignSectors /\ \A j \in 1 .. n + 1 : parts'[j].end < cur'
    OBVIOUS
  <2>1. NonEmpty(n) /\ sectionSize(p) > 0
    <3>1. \A j \in 1 .. n + 1 : sectionSize(parts'[j]) > 0
      BY DEF NonEmpty
    <3>2. n + 1 \in 1 .. n + 1 /\ \A j \in 1 .. n : j \in 1 .. n + 1
      BY <1>2
    <3>3. \A j \in 1 .. n : sectionSize(parts[j]) > 0
      BY <1>5, <3>1, <3>2
    <3> QED BY <1>5, <3>1, <3>2, <3>3 DEF NonEmpty
  <2>2. end >= cur /\ cur >= alignSectors /\ \A j \in 1 .. n : parts[j].end < cur
    BY <1>2, <1>4, <2>1 DEF sectionSize
  <2>3. alignSectors \in Nat /\ \A j \in 1 .. n : parts[j].end \in Int
    <3>1. ASSUME NEW j \in 1 .. n
          PROVE  parts[j] \in [start : Nat, end : Int]
      <4>1. j \in 1 .. Len(parts) /\ parts \in Seq([start : Nat, end : Int])
        BY <1>1, <1>2
      <4> QED BY <4>1, ElementOfSeq
    <3> QED BY <3>1 DEF alignSectors
  <2>4. ASSUME NEW j \in 1 .. n + 1
        PROVE  parts'[j].end < cur'
    <3>1. CASE j \in 1 .. n
      <4>1. PICK y \in Int : y = cur
        BY <1>2
      <4>2. PICK z \in Int : z = cur'
        BY <1>6
      <4>3. y < z
        BY <1>2, <1>6, <2>2, <4>1, <4>2
      <4>4. PICK x \in Int : x = parts[j].end
        BY <2>3, <3>1
      <4>5. x = parts'[j].end
        BY <1>5, <3>1, <4>4
      <4>6. x < y
        BY <2>2, <3>1, <4>1, <4>4
      <4>7. x < z
        BY <4>3, <4>6
      <4> QED BY <4>2, <4>5, <4>7, Zenon
    <3>2. CASE j = n + 1
      BY <1>4, <1>5, <1>6, <3>2
    <3>3. j \in 1 .. n \/ j = n + 1
      BY <1>2
    <3> QED BY <3>1, <3>2, <3>3, Zenon
  <2>5. cur' >= alignSectors
    BY <1>2, <1>6, <2>2, <2>3
  <2> QED BY <2>4, <2>5, Zenon
<1>12. CursorOK'
  BY <1>5, <1>6, <1>11 DEF CursorOK
<1> QED BY <1>1, <1>5, <1>6, <1>10, <1>12

\* A step of the loop over the partitions.
LEMMA AssignKeeps ==
    ASSUME DiskInv, Assign
    PROVE  DiskInv'
<1>1. PICK refused : refused = IF scheme = "gpt" THEN refusalGPT ELSE refusalMBR
  OBVIOUS
<1>2. PICK end : end = IF scheme = "gpt" THEN endGPT ELSE endMBR
  OBVIOUS
<1>3. CASE refused # "nil" /\ Fails(refused)
  BY <1>3, FailKeeps DEF Fails
<1>5. CASE refused = "nil" /\ last /\ overflowsGPT(specs) /\ Fails("panic")
  BY <1>5, FailKeeps DEF Fails
<1>4. CASE /\ refused = "nil" /\ ~(last /\ overflowsGPT(specs))
           /\ parts' = Append(parts, Part(cur, end))
           /\ cur' = nextStart(end)
           /\ todo' = IF ~last THEN todo ELSE IF scheme = "gpt" THEN tablesGPT(parts') ELSE tableMBR(parts')
           /\ stage' = IF last THEN "write" ELSE stage
           /\ UNCHANGED <<scheme, size, specs, dev, at, writes, err>>
  <2>1. stage = "assign"
    BY DEF Assign
  <2>2. /\ end \in Int /\ end + 1 \in Nat /\ end <= LastLBA
        /\ next # 0 => (end - cur + 1) * sectorSize >= next
    BY <1>1, <1>2, <1>4, <2>1, PlacedEnd
  <2>3. /\ parts' \in Seq([start : Nat, end : Int]) /\ Len(parts') = Len(parts) + 1
        /\ PlanOK' /\ CursorOK' /\ cur' \in Nat
    BY <1>4, <2>1, <2>2, PlaceKeepsPlan
  <2>4. /\ Len(parts) < Len(specs) /\ dev = NoFn /\ at = 1 /\ specs \in Seq(Int)
        /\ Len(parts) \in Nat /\ Len(specs) \in Nat /\ scheme \in {"gpt", "mbr"}
    BY <2>1 DEF DiskInv, ShapeOK
  <2>5. /\ stage' \in {"assign", "write"} /\ ~Succeeded' /\ Running /\ totalLBA' = totalLBA
        /\ stage' = "write" <=> Len(parts') = Len(specs)
    BY <1>4, <2>1, <2>3, <2>4 DEF last, Succeeded, Running, totalLBA
  <2>6. ShapeOK'
    BY <1>4, <2>3, <2>4, <2>5 DEF DiskInv, ShapeOK, Planned, Running
  <2>7. stage' = "write" => todo' = Tables'
    BY <1>4, <2>1, <2>5 DEF Tables, tablesGPT, tableMBR, header, totalLBA, lastUsableLBA, backupArrayLBA
  <2>8. ASSUME stage' = "write"
        PROVE  todo' \in Seq({todo'[i] : i \in 1 .. Len(todo')}) /\ todo' # <<>>
    <3>1. PICK q : q = todo'
      OBVIOUS
    <3>2. PICK ps : ps = parts'
      OBVIOUS
    <3>3. q \in {tablesGPT(ps), tableMBR(ps)}
      BY <1>4, <2>1, <2>8, <3>1, <3>2
    <3>4. q \in Seq({q[i] : i \in 1 .. Len(q)}) /\ q # <<>>
      BY <3>3, TablesAreListed, Zenon
    <3> QED BY <3>1, <3>4, Zenon
  <2>9. TablesOK'
    BY <2>5, <2>7, <2>8 DEF TablesOK
  <2>10. DOMAIN dev' = {} /\ at' - 1 = 0
    BY <1>4, <2>4 DEF NoFn
  <2>11. RecordsOK'
    BY <2>5, <2>10 DEF RecordsOK, NonEmpty
  <2> QED BY <2>3, <2>6, <2>9, <2>11 DEF DiskInv
<1> QED BY <1>1, <1>2, <1>3, <1>4, <1>5 DEF Assign

\* Facts about the plan that no write changes.
LEMMA PlanStays ==
    ASSUME DiskInv, Running, Running' => Running, UNCHANGED <<scheme, size, specs, parts>>,
           stage' # "assign"
    PROVE  PlanOK' /\ CursorOK' /\ Tables' = Tables /\ LastLBA' = LastLBA
           /\ totalLBA' = totalLBA /\ \A n : NonEmpty(n)' <=> NonEmpty(n)
<1>1. totalLBA' = totalLBA /\ LastLBA' = LastLBA
  BY DEF LastLBA, lastUsableLBA, totalLBA
<1>2. Tables' = Tables
  BY DEF Tables, tablesGPT, tableMBR, header, totalLBA, lastUsableLBA, backupArrayLBA
<1>3. \A n : NonEmpty(n)' <=> NonEmpty(n)
  BY DEF NonEmpty
<1>4. PlanOK' /\ CursorOK'
  BY <1>1, <1>3 DEF DiskInv, PlanOK, CursorOK
<1> QED BY <1>1, <1>2, <1>3, <1>4

\* A table is written: it overlaps no other.
LEMMA WriteTableKeeps ==
    ASSUME DiskInv, WriteTable
    PROVE  DiskInv'
<1>1. CASE Fails("write")
  BY <1>1, FailKeeps DEF Fails
<1>2. CASE /\ dev' = overwrite(dev, Head(todo)) /\ todo' = Tail(todo)
           /\ stage' = IF Len(todo) = 1 THEN "engine" ELSE stage
           /\ UNCHANGED <<scheme, size, specs, cur, parts, at, writes, err>>
  <2> DEFINE T == {Tables[i] : i \in 1 .. Len(Tables)}
  <2>1. /\ stage = "write" /\ Running /\ Planned /\ ShapeOK
        /\ todo \in Seq(T) /\ todo # <<>>
        /\ \A i \in 1 .. Len(Tables) :
              Written(Tables[i]) \/ \E k \in 1 .. Len(todo) : todo[k] = Tables[i]
    BY DEF WriteTable, DiskInv, TablesOK, Running, Planned
  <2>2. /\ stage' \in {"write", "engine"} /\ Running' /\ Planned' /\ ~Succeeded'
    BY <1>2, <2>1 DEF Running, Planned, Succeeded
  <2>3. /\ PlanOK' /\ CursorOK' /\ Tables' = Tables /\ LastLBA' = LastLBA
        /\ totalLBA' = totalLBA /\ \A n : NonEmpty(n)' <=> NonEmpty(n)
    BY <1>2, <2>1, <2>2, PlanStays
  <2>4. ShapeOK'
    BY <1>2, <2>1, <2>2, <2>3 DEF ShapeOK
  <2>5. /\ Head(todo) \in T /\ Head(todo) = todo[1] /\ Tail(todo) \in Seq(T)
        /\ Len(Tail(todo)) = Len(todo) - 1 /\ Len(todo) \in Nat
        /\ \A k \in 1 .. Len(todo) - 1 : Tail(todo)[k] = todo[k + 1]
    <3> HIDE DEF T
    <3> QED BY <2>1
  <2>6. PICK h \in 1 .. Len(Tables) : Head(todo) = Tables[h]
    BY <2>5
  <2> HIDE DEF T
  <2>7. PICK r : r = Head(todo)
    OBVIOUS
  <2>8. /\ r.off \in Nat /\ r.len \in Nat \ {0} /\ r.what.t # "fs"
        /\ r.off + r.len <= alignSectors \/ LastLBA < r.off
        /\ \A i \in 1 .. Len(Tables) :
              /\ Tables[i].off \in Nat /\ Tables[i].len \in Nat \ {0}
              /\ Tables[i] = r \/ Tables[i].off + Tables[i].len <= r.off
                                \/ r.off + r.len <= Tables[i].off
    BY <2>1, <2>6, <2>7, TablesLieApart
  <2>9. /\ r.off \in DOMAIN dev' /\ dev'[r.off] = [len |-> r.len, what |-> r.what]
        /\ \A o \in DOMAIN dev' : o = r.off \/ (o \in DOMAIN dev /\ dev'[o] = dev[o])
    BY <1>2, <2>7, OverwriteAdds
  <2>10. ASSUME NEW i \in 1 .. Len(Tables)
         PROVE  Written(Tables[i])' \/ \E k \in 1 .. Len(todo') : todo'[k] = Tables'[i]
    <3>1. CASE Tables[i] = r
      BY <2>3, <2>9, <3>1 DEF Written
    <3>2. CASE Tables[i] # r /\ Written(Tables[i])
      <4>1. PICK t : t = Tables[i]
        OBVIOUS
      <4>2. /\ t.off \in DOMAIN dev /\ t.off \in Int /\ dev[t.off].len = t.len
            /\ t.len \in Nat \ {0}
            /\ t.off + t.len <= r.off \/ r.off + r.len <= t.off
        BY <2>8, <3>2, <4>1 DEF Written
      <4>3. t.off \in DOMAIN dev' /\ dev'[t.off] = dev[t.off]
        BY <1>2, <2>7, <2>8, <4>2, OverwriteKeeps
      <4> QED BY <2>3, <3>2, <4>1, <4>3 DEF Written
    <3>3. CASE Tables[i] # r /\ ~Written(Tables[i])
      <4>1. PICK k \in 1 .. Len(todo) : todo[k] = Tables[i]
        BY <2>1, <3>3
      <4>2. k # 1
        BY <2>5, <2>7, <3>3, <4>1
      <4>3. PICK n : n = Len(todo)
        OBVIOUS
      <4>4. k - 1 \in 1 .. n - 1 /\ (k - 1) + 1 = k
        BY <2>5, <4>2, <4>3
      <4>5. todo'[k - 1] = Tables[i] /\ Len(todo') = n - 1
        BY <1>2, <2>5, <4>1, <4>3, <4>4
      <4> QED BY <2>3, <4>4, <4>5
    <3> QED BY <3>1, <3>2, <3>3
  <2>11. Len(todo) # 1 => todo' # <<>>
    <3>1. PICK n : n = Len(todo)
      OBVIOUS
    <3>2. PICK l : l = Len(todo')
      OBVIOUS
    <3>3. l = n - 1 /\ n \in Nat
      BY <1>2, <2>5, <3>1, <3>2
    <3>4. n # 1 => l # 0
      BY <3>3
    <3>5. Len(<<>>) = 0
      OBVIOUS
    <3> QED BY <3>1, <3>2, <3>4, <3>5, Zenon
  <2>12. TablesOK'
    <3>1. CASE stage' = "write"
      <4>1. todo' \in Seq({Tables'[i] : i \in 1 .. Len(Tables')}) /\ todo' # <<>>
        BY <1>2, <2>3, <2>5, <2>11, <3>1, <2>1 DEF T
      <4>2. \A i \in 1 .. Len(Tables') :
                Written(Tables[i])' \/ \E k \in 1 .. Len(todo') : todo'[k] = Tables'[i]
        BY <2>3, <2>10
      <4> QED BY <2>2, <3>1, <4>1, <4>2 DEF TablesOK
    <3>2. CASE stage' = "engine"
      <4>1. Len(todo) = 1
        BY <1>2, <2>1, <3>2
      <4>2. Len(todo') = 0
        BY <1>2, <2>5, <4>1
      <4>3. \A i \in 1 .. Len(Tables') : Written(Tables[i])'
        BY <2>3, <2>10, <4>2
      <4> QED BY <3>2, <4>3 DEF TablesOK
    <3> QED BY <2>2, <3>1, <3>2
  <2>13. RecordsOK'
    <3>1. ASSUME NEW o \in DOMAIN dev'
          PROVE  o \in Nat /\ dev'[o].len \in Nat \ {0} /\ InTables(o)'
      <4>1. CASE o = r.off
        BY <2>3, <2>8, <2>9, <4>1 DEF InTables
      <4>2. CASE o # r.off
        <5>1. o \in DOMAIN dev /\ dev'[o] = dev[o]
          BY <2>9, <4>2
        <5>2. o \in Nat /\ dev[o].len \in Nat \ {0} /\ InTables(o)
          BY <2>1, <5>1 DEF DiskInv, RecordsOK
        <5> QED BY <2>3, <5>1, <5>2 DEF InTables
      <4> QED BY <4>1, <4>2
    <3>2. NonEmpty(at - 1)'
      BY <1>2, <2>1, <2>3 DEF DiskInv, RecordsOK
    <3> QED BY <2>2, <3>1, <3>2 DEF RecordsOK
  <2> QED BY <2>3, <2>4, <2>12, <2>13 DEF DiskInv
<1> QED BY <1>1, <1>2 DEF WriteTable

\* The offsets an engine tries are numbers.
LEMMA OffsetsAreNumbers ==
    ASSUME DiskInv, stage = "engine", NEW off \in offsets(parts[at])
    PROVE  off \in Int
<1>1. at \in 1 .. Len(parts) /\ parts \in Seq([start : Nat, end : Int])
  BY DEF DiskInv, ShapeOK, Planned
<1>2. parts[at] \in [start : Nat, end : Int]
  BY <1>1, ElementOfSeq
<1>3. PICK z : z = sectionSize(parts[at])
  OBVIOUS
<1>4. z \in Int
  BY <1>2, <1>3 DEF sectionSize
<1>5. off \in Near \/ \E n \in Near : off = z + n
  BY <1>3 DEF offsets
<1>6. \A n \in Near : n \in Int
  BY InputAssumption
<1>7. CASE off \in Near
  BY <1>6, <1>7
<1>8. CASE \E n \in Near : off = z + n
  <2>1. PICK n \in Near : off = z + n
    BY <1>8
  <2>2. n \in Int
    BY <1>6
  <2> QED BY <1>4, <2>1, <2>2
<1> QED BY <1>5, <1>7, <1>8

\* A write an engine's section takes lies in its partition, which is not empty;
\* what it overlaps is the engine's own.
LEMMA EngineWriteApart ==
    ASSUME DiskInv, stage = "engine", NEW len \in Lens, NEW off \in Int,
           ~refuses(parts[at], off, len), NEW r,
           r = Request(parts[at].start + off, len, FS(at))
    PROVE  /\ r.off \in Nat /\ r.len \in Nat \ {0} /\ r.what = FS(at)
           /\ NonEmpty(at)
           /\ parts[at].start <= r.off /\ r.off + r.len <= parts[at].end + 1
           /\ r.off >= alignSectors /\ r.off + r.len <= LastLBA + 1
           /\ \A o \in DOMAIN dev :
                 dev[o].what # FS(at) => o + dev[o].len <= r.off \/ r.off + r.len <= o
<1>1. /\ Running /\ at \in 1 .. Len(parts) /\ parts \in Seq([start : Nat, end : Int])
      /\ NonEmpty(at - 1) /\ PlanOK /\ RecordsOK
  BY DEF DiskInv, ShapeOK, RecordsOK, Running, Planned
<1>2. PICK p : p = parts[at]
  OBVIOUS
<1>3. p \in [start : Nat, end : Int]
  BY <1>1, <1>2, ElementOfSeq
<1>4. len \in Nat \ {0} /\ off >= 0 /\ off + len <= p.end - p.start + 1
  BY <1>2, <1>3, InputAssumption DEF refuses, sectionSize
<1>5. /\ r.off = p.start + off /\ r.len = len /\ r.what = FS(at)
  BY <1>2 DEF Request
<1>6. LastLBA \in Nat /\ LastLBA >= alignSectors /\ alignSectors \in Nat
  BY <1>1, Geometry DEF DiskInv, alignSectors
<1>7. p.end <= LastLBA /\ p.start >= alignSectors /\ \A j \in 1 .. at - 1 : parts[j].end < p.start
  BY <1>1, <1>2 DEF PlanOK
<1>8. NonEmpty(at)
  <2>1. sectionSize(parts[at]) > 0
    BY <1>2, <1>3, <1>4 DEF sectionSize
  <2>2. \A j \in 1 .. at : j \in 1 .. at - 1 \/ j = at
    BY <1>1
  <2> QED BY <1>1, <2>1, <2>2 DEF NonEmpty
<1>9. /\ r.off \in Nat /\ r.len \in Nat \ {0} /\ p.start <= r.off /\ r.off + r.len <= p.end + 1
      /\ r.off >= alignSectors /\ r.off + r.len <= LastLBA + 1
  BY <1>3, <1>4, <1>5, <1>6, <1>7
<1>10. ASSUME NEW o \in DOMAIN dev, dev[o].what # FS(at)
       PROVE  o + dev[o].len <= r.off \/ r.off + r.len <= o
  <2>1. o \in Nat /\ dev[o].len \in Nat \ {0}
    BY <1>1 DEF RecordsOK
  <2>2. CASE InTables(o)
    BY <1>6, <1>9, <2>1, <2>2 DEF InTables
  <2>3. CASE \E j \in 1 .. at : InPartition(o, j)
    <3>1. PICK j \in 1 .. at : InPartition(o, j)
      BY <2>3
    <3>2. j # at
      BY <1>10, <3>1 DEF InPartition
    <3>3. j \in 1 .. at - 1 /\ j \in 1 .. Len(parts)
      BY <1>1, <3>2
    <3>4. parts[j] \in [start : Nat, end : Int]
      BY <1>1, <3>3, ElementOfSeq
    <3>5. parts[j].end < p.start /\ o + dev[o].len <= parts[j].end + 1
      BY <1>7, <3>1, <3>3 DEF InPartition
    <3> QED BY <1>3, <1>9, <2>1, <3>4, <3>5
  <2> QED BY <1>1, <2>2, <2>3 DEF RecordsOK
<1> QED BY <1>2, <1>5, <1>8, <1>9, <1>10

\* An engine writes, or is refused and gives up or goes on.
LEMMA EngineWritesKeeps ==
    ASSUME DiskInv, EngineWrites
    PROVE  DiskInv'
<1>1. stage = "engine" /\ Running /\ Planned /\ ShapeOK /\ at \in Nat \ {0}
      /\ UNCHANGED <<scheme, size, specs, cur, parts, todo, at>>
  BY DEF EngineWrites, Running, Planned, DiskInv, ShapeOK
<1>2. CASE err' = "refused" /\ stage' = "done"
  BY <1>1, <1>2, FailKeeps
<1>3. CASE dev' = dev /\ UNCHANGED <<stage, err>>
  <2>1. Running' /\ Planned' /\ stage' = "engine" /\ ~Succeeded'
    BY <1>1, <1>3 DEF Running, Planned, Succeeded
  <2>2. /\ PlanOK' /\ CursorOK' /\ Tables' = Tables /\ LastLBA' = LastLBA
        /\ totalLBA' = totalLBA /\ \A n : NonEmpty(n)' <=> NonEmpty(n)
    BY <1>1, <2>1, PlanStays
  <2>3. ShapeOK'
    BY <1>1, <2>1, <2>2 DEF ShapeOK
  <2>4. TablesOK'
    BY <1>1, <1>3, <2>1, <2>2 DEF DiskInv, TablesOK, Written
  <2>5. RecordsOK'
    BY <1>1, <1>3, <2>1, <2>2 DEF DiskInv, RecordsOK, InTables, InPartition
  <2> QED BY <2>2, <2>3, <2>4, <2>5 DEF DiskInv
<1>4. ASSUME NEW len \in Lens,
             NEW off \in offsets(parts[at]),
             ~refuses(parts[at], off, len), UNCHANGED <<stage, err>>,
             dev' = overwrite(dev, Request(parts[at].start + off, len, FS(at)))
      PROVE  DiskInv'
  <2>1. Running' /\ Planned' /\ stage' = "engine" /\ ~Succeeded'
    BY <1>1, <1>4 DEF Running, Planned, Succeeded
  <2>2. /\ PlanOK' /\ CursorOK' /\ Tables' = Tables /\ LastLBA' = LastLBA
        /\ totalLBA' = totalLBA /\ \A n : NonEmpty(n)' <=> NonEmpty(n)
    BY <1>1, <2>1, PlanStays
  <2>3. ShapeOK'
    BY <1>1, <2>1, <2>2 DEF ShapeOK
  <2>4. off \in Int
    BY <1>1, <1>4, OffsetsAreNumbers
  <2>5. PICK r : r = Request(parts[at].start + off, len, FS(at))
    OBVIOUS
  <2>6. /\ r.off \in Nat /\ r.len \in Nat \ {0} /\ r.what = FS(at)
        /\ NonEmpty(at)
        /\ parts[at].start <= r.off /\ r.off + r.len <= parts[at].end + 1
        /\ r.off >= alignSectors /\ r.off + r.len <= LastLBA + 1
        /\ \A o \in DOMAIN dev :
              dev[o].what # FS(at) => o + dev[o].len <= r.off \/ r.off + r.len <= o
    BY <1>1, <1>4, <2>4, <2>5, EngineWriteApart
  <2>7. /\ r.off \in DOMAIN dev' /\ dev'[r.off] = [len |-> r.len, what |-> r.what]
        /\ \A o \in DOMAIN dev' : o = r.off \/ (o \in DOMAIN dev /\ dev'[o] = dev[o])
    BY <1>4, <2>5, OverwriteAdds
  <2>8. ASSUME NEW i \in 1 .. Len(Tables)
        PROVE  Written(Tables[i])'
    <3>1. PICK t : t = Tables[i]
      OBVIOUS
    <3>2. /\ t.off \in DOMAIN dev /\ dev[t.off] = [len |-> t.len, what |-> t.what]
      BY <1>1, <3>1 DEF DiskInv, TablesOK, Written
    <3>3. t.off \in Nat /\ t.len \in Nat \ {0} /\ t.what.t # "fs"
      BY <1>1, <3>1, TablesLieApart
    <3>4. dev[t.off].what # FS(at)
      BY <3>2, <3>3 DEF FS
    <3>5. t.off \in DOMAIN dev' /\ dev'[t.off] = dev[t.off]
      BY <1>4, <2>5, <2>6, <3>2, <3>3, <3>4, OverwriteKeeps
    <3> QED BY <2>2, <3>1, <3>2, <3>5 DEF Written
  <2>9. TablesOK'
    BY <2>1, <2>2, <2>8 DEF TablesOK
  <2>10. ASSUME NEW o \in DOMAIN dev'
         PROVE  /\ o \in Nat /\ dev'[o].len \in Nat \ {0}
                /\ InTables(o)' \/ \E j \in 1 .. at' : InPartition(o, j)'
    <3>1. CASE o = r.off
      <4>1. InPartition(o, at)'
        BY <1>1, <2>6, <2>7, <3>1 DEF InPartition
      <4>2. at \in 1 .. at' /\ at' = at
        BY <1>1
      <4>3. \E j \in 1 .. at' : InPartition(o, j)'
        BY <4>1, <4>2 DEF InPartition
      <4> QED BY <2>6, <2>7, <3>1, <4>3
    <3>2. CASE o # r.off
      <4>1. o \in DOMAIN dev /\ dev'[o] = dev[o]
        BY <2>7, <3>2
      <4>2. /\ o \in Nat /\ dev[o].len \in Nat \ {0}
            /\ InTables(o) \/ \E j \in 1 .. at : InPartition(o, j)
        BY <1>1, <4>1 DEF DiskInv, RecordsOK
      <4> QED BY <1>1, <2>2, <4>1, <4>2 DEF InTables, InPartition
    <3> QED BY <3>1, <3>2
  <2>11. NonEmpty(at - 1)'
    BY <1>1, <2>2 DEF DiskInv, RecordsOK
  <2>12. RecordsOK'
    BY <2>1, <2>10, <2>11 DEF RecordsOK
  <2> QED BY <2>2, <2>3, <2>9, <2>12 DEF DiskInv
<1> QED BY <1>2, <1>3, <1>4 DEF EngineWrites, FS

\* An engine ends: it has written something, so its partition is not empty.
LEMMA EngineDoneKeeps ==
    ASSUME DiskInv, EngineDone
    PROVE  DiskInv'
<1>1. /\ stage = "engine" /\ Running /\ Planned /\ ShapeOK /\ at \in Nat \ {0}
      /\ at <= Len(specs) /\ Len(parts) = Len(specs) /\ Len(specs) \in Nat
      /\ UNCHANGED <<scheme, size, specs, dev, cur, parts, todo, err>>
  BY DEF EngineDone, Running, Planned, DiskInv, ShapeOK
<1>2. NonEmpty(at)
  <2>1. PICK o \in DOMAIN dev : dev[o].what = FS(at)
    BY DEF EngineDone, FS
  <2>2. /\ o \in Nat /\ dev[o].len \in Nat \ {0} /\ NonEmpty(at - 1)
        /\ InTables(o) \/ \E j \in 1 .. at : InPartition(o, j)
    BY <1>1 DEF DiskInv, RecordsOK
  <2>3. ~InTables(o)
    BY <2>1 DEF InTables, FS
  <2>4. PICK j \in 1 .. at : InPartition(o, j)
    BY <2>2, <2>3
  <2>5. j = at
    BY <2>1, <2>4 DEF InPartition, FS
  <2>6. parts[at] \in [start : Nat, end : Int]
    <3>1. at \in 1 .. Len(parts) /\ parts \in Seq([start : Nat, end : Int])
      BY <1>1 DEF ShapeOK
    <3> QED BY <3>1, ElementOfSeq
  <2>7. sectionSize(parts[at]) > 0
    BY <2>2, <2>4, <2>5, <2>6 DEF InPartition, sectionSize
  <2>8. \A i \in 1 .. at : i \in 1 .. at - 1 \/ i = at
    BY <1>1
  <2> QED BY <2>2, <2>7, <2>8 DEF NonEmpty
<1>3. \/ stage' = "engine" /\ at' = at + 1 /\ at + 1 <= Len(specs)
      \/ stage' = "done" /\ at' = at /\ at = Len(specs)
  BY <1>1 DEF EngineDone
<1>4. CASE ~Running'
  <2>1. ~Planned' /\ ~Succeeded' /\ stage' = "done"
    BY <1>3, <1>4 DEF Running, Planned, Succeeded
  <2>2. ShapeOK'
    BY <1>1, <1>3, <1>4, <2>1 DEF ShapeOK
  <2>3. PlanOK' /\ CursorOK' /\ TablesOK' /\ RecordsOK'
    BY <1>4, <2>1 DEF PlanOK, CursorOK, TablesOK, RecordsOK
  <2> QED BY <2>2, <2>3 DEF DiskInv
<1>5. CASE Running'
  <2>1. stage' # "assign" /\ stage' # "write" /\ stage' # "check" /\ Planned'
    BY <1>3, <1>5 DEF Running, Planned
  <2>2. /\ PlanOK' /\ CursorOK' /\ Tables' = Tables /\ LastLBA' = LastLBA
        /\ totalLBA' = totalLBA /\ \A n : NonEmpty(n)' <=> NonEmpty(n)
    BY <1>1, <2>1, PlanStays
  <2>3. ShapeOK'
    <3>1. at' \in Nat \ {0} /\ at' <= Len(specs)
      BY <1>1, <1>3
    <3>2. /\ scheme' \in {"gpt", "mbr"} /\ size' \in Nat /\ size' \in DiskSizes
          /\ specs' \in Seq(Int)
          /\ parts' \in Seq([start : Nat, end : Int]) /\ cur' \in Nat
          /\ Len(parts') = Len(specs') /\ Len(specs') = Len(specs)
      BY <1>1 DEF ShapeOK
    <3>3. totalLBA' >= (IF scheme' = "gpt" THEN firstUsableLBA + entryArraySecs ELSE alignSectors)
                        + alignSectors
      BY <1>1, <2>2 DEF ShapeOK
    <3> QED BY <2>1, <3>1, <3>2, <3>3 DEF ShapeOK
  <2>4. TablesOK'
    BY <1>1, <2>1, <2>2 DEF DiskInv, TablesOK, Written
  <2>5. ASSUME NEW o \in DOMAIN dev'
        PROVE  /\ o \in Nat /\ dev'[o].len \in Nat \ {0}
               /\ InTables(o)' \/ \E j \in 1 .. at' : InPartition(o, j)'
    <3>1. /\ o \in DOMAIN dev /\ dev'[o] = dev[o]
      BY <1>1
    <3>2. /\ o \in Nat /\ dev[o].len \in Nat \ {0}
          /\ InTables(o) \/ \E j \in 1 .. at : InPartition(o, j)
      BY <1>1, <3>1 DEF DiskInv, RecordsOK
    <3>3. \A j \in 1 .. at : j \in 1 .. at'
      BY <1>1, <1>3
    <3> QED BY <1>1, <2>2, <3>1, <3>2, <3>3 DEF InTables, InPartition
  <2>6. NonEmpty(at - 1)'
    <3>1. at' - 1 = at \/ at' - 1 = at - 1
      BY <1>1, <1>3
    <3> QED BY <1>1, <1>2, <2>2, <3>1 DEF DiskInv, RecordsOK, NonEmpty
  <2>7. Succeeded' => NonEmpty(Len(parts))'
    <3>1. Succeeded' => at = Len(parts) /\ Len(parts') = Len(parts)
      BY <1>1, <1>3 DEF Succeeded
    <3> QED BY <1>1, <1>2, <3>1 DEF NonEmpty
  <2>8. RecordsOK'
    BY <2>1, <2>5, <2>6, <2>7 DEF RecordsOK
  <2> QED BY <2>2, <2>3, <2>4, <2>8 DEF DiskInv
<1> QED BY <1>4, <1>5

\* The state does not change.
LEMMA StutterKeeps ==
    ASSUME DiskInv, UNCHANGED vars
    PROVE  DiskInv'
<1>1. UNCHANGED <<scheme, size, specs, dev, cur, parts, todo, stage, at, writes, err>>
  BY DEF vars
<1>2. /\ (Running' <=> Running) /\ (Planned' <=> Planned) /\ (Succeeded' <=> Succeeded)
      /\ LastLBA' = LastLBA /\ Tables' = Tables /\ totalLBA' = totalLBA
      /\ \A n : NonEmpty(n)' <=> NonEmpty(n)
  BY <1>1 DEF Running, Planned, Succeeded, LastLBA, lastUsableLBA, totalLBA, NonEmpty, Tables,
              tablesGPT, tableMBR, header, backupArrayLBA
<1>3. ShapeOK' /\ PlanOK' /\ CursorOK'
  BY <1>1, <1>2 DEF DiskInv, ShapeOK, PlanOK, CursorOK
<1>4. TablesOK' /\ RecordsOK'
  BY <1>1, <1>2 DEF DiskInv, TablesOK, RecordsOK, Written, InTables, InPartition, NonEmpty
<1> QED BY <1>3, <1>4 DEF DiskInv

-----------------------------------------------------------------------------
(* The theorems. *)

\* An empty disk.
LEMMA DiskInvInit ==
    ASSUME Init
    PROVE  DiskInv
<1>1. stage = "check" /\ ~Running /\ ~Planned /\ ~Succeeded
  BY DEF Init, Running, Planned, Succeeded
<1>2. ShapeOK
  BY <1>1, InputAssumption DEF Init, ShapeOK
<1>3. PlanOK /\ CursorOK /\ TablesOK /\ RecordsOK
  BY <1>1 DEF PlanOK, CursorOK, TablesOK, RecordsOK
<1> QED BY <1>2, <1>3 DEF DiskInv

\* Every step of the command and of its engines keeps the invariant.
LEMMA DiskInvInductive ==
    ASSUME DiskInv, [Next]_vars
    PROVE  DiskInv'
<1>1. CASE formatScheme
  BY <1>1, FormatKeeps
<1>2. CASE Assign
  BY <1>2, AssignKeeps
<1>3. CASE WriteTable
  BY <1>3, WriteTableKeeps
<1>4. CASE EngineWrites
  BY <1>4, EngineWritesKeeps
<1>5. CASE EngineFails
  BY <1>5, FailKeeps DEF EngineFails, Fails
<1>6. CASE EngineDone
  BY <1>6, EngineDoneKeeps
<1>7. CASE UNCHANGED vars
  BY <1>7, StutterKeeps
<1> QED BY <1>1, <1>2, <1>3, <1>4, <1>5, <1>6, <1>7, Zenon DEF Next, Done

\* So it holds of every behaviour.
LEMMA DiskInvHolds == Spec => []DiskInv
  BY DiskInvInit, DiskInvInductive, PTL DEF Spec

\* Only the last partition may be one for the rest of the disk; a GPT has one only
\* where there is room for it.
FillOK ==
    Running => \A i \in 1 .. Len(parts) :
        specs[i] = 0 => /\ i = Len(specs) /\ parts[i].end = LastLBA
                        /\ scheme = "gpt" => parts[i].start <= LastLBA

\* The step that places a partition is the one that decides about it.
LEMMA AssignFills ==
    ASSUME DiskInv, FillOK, Assign, Running'
    PROVE  FillOK'
<1>1. /\ specs \in Seq(Int) /\ parts \in Seq([start : Nat, end : Int]) /\ cur \in Nat
      /\ Len(parts) < Len(specs) /\ scheme \in {"gpt", "mbr"} /\ Running
  BY DEF Assign, DiskInv, ShapeOK, Running
<1>2. PICK end : end = IF scheme = "gpt" THEN endGPT ELSE endMBR
  OBVIOUS
<1>3. /\ (IF scheme = "gpt" THEN refusalGPT ELSE refusalMBR) = "nil"
      /\ parts' = Append(parts, Part(cur, end)) /\ UNCHANGED <<scheme, size, specs>>
  BY <1>2 DEF Assign, Fails, Running, Succeeded
<1>4. LastLBA' = LastLBA
  BY <1>3 DEF LastLBA, lastUsableLBA, totalLBA
<1>5. PICK n : n = Len(parts)
  OBVIOUS
<1>6. n \in Nat /\ next = specs[n + 1] /\ (last <=> n + 1 = Len(specs))
  BY <1>1, <1>5 DEF next, last
<1>7. PICK p : p = Part(cur, end)
  OBVIOUS
<1>8. /\ Len(parts') = n + 1 /\ parts'[n + 1] = p /\ p.start = cur /\ p.end = end
      /\ \A j \in 1 .. n : parts'[j] = parts[j]
  <2>1. p.start = cur /\ p.end = end
    BY <1>7 DEF Part
  <2>2. /\ Len(parts') = n + 1 /\ parts'[n + 1] = p
        /\ \A j \in 1 .. n : parts'[j] = parts[j]
    BY <1>1, <1>3, <1>5, <1>6, <1>7
  <2> QED BY <2>1, <2>2
<1>9. next = 0 => last /\ end = LastLBA /\ (scheme = "gpt" => cur <= LastLBA)
  <2> SUFFICES ASSUME next = 0
               PROVE  last /\ end = LastLBA /\ (scheme = "gpt" => cur <= LastLBA)
    OBVIOUS
  <2>1. totalLBA \in Nat /\ lastUsableLBA = totalLBA - 34
    BY <1>1, Geometry DEF DiskInv
  <2>2. CASE scheme = "gpt"
    BY <1>1, <1>2, <1>3, <2>1, <2>2 DEF endGPT, refusalGPT, LastLBA
  <2>3. CASE scheme = "mbr"
    BY <1>2, <1>3, <2>3 DEF endMBR, refusalMBR, LastLBA
  <2> QED BY <1>1, <2>2, <2>3
<1>10. ASSUME NEW i \in 1 .. n + 1, specs[i] = 0
       PROVE  /\ i = Len(specs) /\ parts'[i].end = LastLBA
              /\ scheme = "gpt" => parts'[i].start <= LastLBA
  <2>1. CASE i \in 1 .. n
    BY <1>1, <1>5, <1>8, <1>10, <2>1 DEF FillOK
  <2>2. CASE i = n + 1
    BY <1>6, <1>8, <1>9, <1>10, <2>2
  <2>3. i \in 1 .. n \/ i = n + 1
    BY <1>6
  <2> QED BY <2>1, <2>2, <2>3, Zenon
<1> QED BY <1>3, <1>4, <1>8, <1>10 DEF FillOK

\* The other steps leave the plan alone.
LEMMA FillsHold == Spec => [](DiskInv /\ FillOK)
<1>1. Init => FillOK
  BY DEF Init, FillOK, Running, Succeeded
<1>2. ASSUME DiskInv, FillOK, [Next]_vars
      PROVE  FillOK'
  <2>1. CASE ~Running'
    BY <2>1 DEF FillOK
  <2>2. CASE Assign /\ Running'
    BY <1>2, <2>2, AssignFills
  <2>3. CASE formatScheme
    BY <1>2, <2>3 DEF formatScheme, Fails, DiskInv, ShapeOK, FillOK, Running, Succeeded
  <2>4. CASE UNCHANGED <<scheme, size, specs, parts>> /\ Running
    BY <1>2, <2>4 DEF FillOK, LastLBA, lastUsableLBA, totalLBA
  <2>5. CASE WriteTable \/ EngineWrites \/ EngineFails \/ EngineDone \/ UNCHANGED vars
    <3>1. UNCHANGED <<scheme, size, specs, parts>>
      BY <2>5 DEF WriteTable, EngineWrites, EngineFails, EngineDone, Fails, vars
    <3>2. Running' => Running
      BY <2>5 DEF WriteTable, EngineWrites, EngineFails, EngineDone, vars, Running, Succeeded
    <3> QED BY <2>1, <2>4, <3>1, <3>2
  <2> QED BY <1>2, <2>1, <2>2, <2>3, <2>5, Zenon DEF Next, Done
<1> QED BY <1>1, <1>2, DiskInvHolds, PTL DEF Spec

\* What a machine reads where a table was written.
LEMMA ReadsTable ==
    ASSUME NEW r, Written(r)
    PROVE  At(r.off) = r.what
  BY DEF Written, At

\* The partitions of a disk that is finished.
LEMMA PartitionsPlaced ==
    ASSUME DiskInv, Succeeded
    PROVE  /\ Len(parts) = Len(specs)
           /\ \A i \in DOMAIN parts :
                 /\ parts[i].start \in Nat /\ parts[i].end \in Int
                 /\ parts[i].start % alignSectors = 0
                 /\ sectionSize(parts[i]) * sectorSize >= specs[i] /\ sectionSize(parts[i]) > 0
                 /\ parts[i].start > 0 /\ parts[i].end < totalLBA
                 /\ \A j \in DOMAIN parts : i < j => parts[i].end < parts[j].start
<1>1. /\ Running /\ ShapeOK /\ PlanOK /\ Len(parts) = Len(specs) /\ NonEmpty(Len(parts))
      /\ parts \in Seq([start : Nat, end : Int]) /\ specs \in Seq(Int)
  BY DEF DiskInv, ShapeOK, RecordsOK, Running, Planned
<1>2. PICK n : n = Len(parts)
  OBVIOUS
<1>3. n \in Nat /\ DOMAIN parts = 1 .. n
  BY <1>1, <1>2
<1>4. LastLBA \in Nat /\ LastLBA < totalLBA /\ totalLBA \in Nat
  BY <1>1, Geometry DEF ShapeOK
<1>5. ASSUME NEW i \in 1 .. n
      PROVE  /\ parts[i].start \in Nat /\ parts[i].end \in Int
             /\ parts[i].start % alignSectors = 0
             /\ sectionSize(parts[i]) * sectorSize >= specs[i] /\ sectionSize(parts[i]) > 0
             /\ parts[i].start > 0 /\ parts[i].end < totalLBA
             /\ \A j \in 1 .. i - 1 : parts[j].end < parts[i].start
  <2>1. parts[i] \in [start : Nat, end : Int] /\ specs[i] \in Int
    BY <1>1, <1>2, ElementOfSeq
  <2>2. NonEmpty(i - 1) /\ sectionSize(parts[i]) > 0
    BY <1>1, <1>2, <1>3 DEF NonEmpty
  <2>3. /\ parts[i].end <= LastLBA
        /\ parts[i].start % alignSectors = 0
        /\ specs[i] # 0 => sectionSize(parts[i]) * sectorSize >= specs[i]
        /\ parts[i].start >= alignSectors
        /\ \A j \in 1 .. i - 1 : parts[j].end < parts[i].start
    BY <1>1, <1>2, <2>2 DEF PlanOK
  <2>4. sectionSize(parts[i]) \in Int
    BY <2>1 DEF sectionSize
  <2>5. sectionSize(parts[i]) * sectorSize >= specs[i]
    <3>1. PICK z : z = sectionSize(parts[i])
      OBVIOUS
    <3>2. z * sectorSize >= 0
      BY <2>2, <2>4, <3>1 DEF sectorSize
    <3> QED BY <2>1, <2>3, <3>1, <3>2
  <2> QED BY <1>4, <2>1, <2>2, <2>3, <2>5 DEF alignSectors
<1>6. \A i, j \in 1 .. n : i < j => i \in 1 .. j - 1
  BY <1>3
<1> QED BY <1>1, <1>3, <1>5, <1>6

\* The fields of an MBR entry hold the numbers of every disk whose sectors they can
\* count; then what is read back is what was planned.
LEMMA EntriesReadBack ==
    ASSUME DiskInv, Succeeded, scheme = "mbr", totalLBA <= Word
    PROVE  onDisk = parts
<1>1. /\ Running /\ ShapeOK /\ TablesOK /\ parts \in Seq([start : Nat, end : Int])
  BY DEF DiskInv, ShapeOK, Running
<1>2. \A i \in DOMAIN parts : /\ parts[i].start \in Nat /\ parts[i].end \in Int
                              /\ sectionSize(parts[i]) > 0
                              /\ parts[i].start > 0 /\ parts[i].end < totalLBA
  BY PartitionsPlaced
<1>3. Tables = tableMBR(parts) /\ Len(Tables) = 1
  BY DEF Tables, tableMBR
<1>4. Written(Tables[1])
  BY <1>1, <1>3 DEF TablesOK
<1> DEFINE es == [i \in DOMAIN parts |->
                    [start |-> parts[i].start % Word, count |-> (parts[i].end - parts[i].start + 1) % Word]]
<1>5. Tables[1].off = 0 /\ Tables[1].what = [t |-> "mbr", of |-> es]
  BY <1>3 DEF tableMBR, Request
<1>6. At(0) = [t |-> "mbr", of |-> es]
  BY <1>4, <1>5, ReadsTable
<1>7. At(0).t = "mbr" /\ At(0).of = es
  BY <1>6
<1>8. DOMAIN es = DOMAIN parts
  OBVIOUS
<1>9. totalLBA \in Nat /\ Word \in Nat
  BY <1>1, Geometry, WordAssumption
<1>10. ASSUME NEW i \in DOMAIN parts
       PROVE  Part(es[i].start, es[i].start + es[i].count - 1) = parts[i]
  <2>1. PICK s \in Nat, e \in Int : s = parts[i].start /\ e = parts[i].end
    BY <1>2
  <2>2. s > 0 /\ e < totalLBA /\ e - s + 1 > 0
    BY <1>2, <2>1 DEF sectionSize
  <2>3. 0 <= s /\ s < Word /\ 0 <= e - s + 1 /\ e - s + 1 < Word
    BY <1>9, <2>1, <2>2
  <2>4. s % Word = s /\ (e - s + 1) % Word = e - s + 1
    BY <1>9, <2>3
  <2>5. es[i].start = s /\ es[i].count = e - s + 1
    BY <2>1, <2>4
  <2>6. s + (e - s + 1) - 1 = e
    BY <2>1
  <2>7. parts[i] = [start |-> s, end |-> e]
    <3>1. i \in 1 .. Len(parts)
      BY <1>1
    <3>2. parts[i] \in [start : Nat, end : Int]
      BY <1>1, <3>1, ElementOfSeq
    <3> QED BY <2>1, <3>2
  <2> QED BY <2>5, <2>6, <2>7 DEF Part
<1> HIDE DEF es
<1>11. onDisk = [i \in DOMAIN parts |-> Part(es[i].start, es[i].start + es[i].count - 1)]
  BY <1>7, <1>8, Zenon DEF onDisk
<1>12. parts = [i \in DOMAIN parts |-> parts[i]]
  BY <1>1
<1> QED BY <1>10, <1>11, <1>12, Zenon

\* Both tables of a GPT are where the headers say they are.
LEMMA TablesReadBack ==
    ASSUME DiskInv, Succeeded, scheme = "gpt"
    PROVE  /\ At(0).t = "protective"
           /\ At(primaryHdrLBA) = header(primaryHdrLBA, totalLBA - 1, entryArrayLBA, parts)
           /\ At(entryArrayLBA) = [t |-> "entries", of |-> parts]
           /\ At(backupArrayLBA) = [t |-> "entries", of |-> parts]
           /\ At(totalLBA - 1) = header(totalLBA - 1, primaryHdrLBA, backupArrayLBA, parts)
<1>1. TablesOK /\ Tables = tablesGPT(parts) /\ Len(Tables) = 5
  BY DEF DiskInv, Tables, tablesGPT
<1>2. \A i \in 1 .. 5 : Written(Tables[i])
  BY <1>1 DEF TablesOK
<1>3. \A i \in 1 .. 5 : At(Tables[i].off) = Tables[i].what
  BY <1>2, ReadsTable
<1>4. /\ Tables[1].off = 0 /\ Tables[1].what.t = "protective"
      /\ Tables[2].off = entryArrayLBA /\ Tables[2].what = [t |-> "entries", of |-> parts]
      /\ Tables[3].off = primaryHdrLBA
      /\ Tables[3].what = header(primaryHdrLBA, totalLBA - 1, entryArrayLBA, parts)
      /\ Tables[4].off = backupArrayLBA /\ Tables[4].what = [t |-> "entries", of |-> parts]
      /\ Tables[5].off = totalLBA - 1
      /\ Tables[5].what = header(totalLBA - 1, primaryHdrLBA, backupArrayLBA, parts)
  BY <1>1 DEF tablesGPT, Request
<1> QED BY <1>3, <1>4

\* A disk the command reports as finished is sound: its partitions are the planned
\* ones, as large as asked for, aligned, apart from each other, the tables and the end
\* of the disk; and both GPTs are there after all engines have run.  The fields of an
\* MBR entry are 32 bits wide and the formatter does not check that the numbers fit:
\* the theorem is of disks whose sectors they count.
THEOREM DiskIsSound ==
    ASSUME \A s \in DiskSizes : s \div sectorSize <= Word
    PROVE  Spec => []DiskSound
<1>1. ASSUME DiskInv PROVE DiskSound
  <2>1. PartitionsSound
    <3>1. SUFFICES ASSUME Succeeded PROVE onDisk = parts
      BY <1>1, PartitionsPlaced DEF PartitionsSound
    <3>2. CASE scheme = "gpt"
      <4>1. /\ At(0).t = "protective" /\ At(primaryHdrLBA).array = entryArrayLBA
            /\ At(entryArrayLBA).of = parts
        BY <1>1, <3>1, <3>2, TablesReadBack DEF header
      <4> QED BY <4>1 DEF onDisk
    <3>3. CASE scheme = "mbr"
      <4>1. totalLBA <= Word
        BY <1>1 DEF DiskInv, ShapeOK, totalLBA
      <4> QED BY <1>1, <3>1, <3>3, <4>1, EntriesReadBack
    <3> QED BY <1>1, <3>2, <3>3 DEF DiskInv, ShapeOK
  <2>2. TablesSurvive
    <3>1. SUFFICES ASSUME Succeeded, scheme = "gpt" PROVE TablesSurvive
      BY DEF TablesSurvive
    <3>2. PICK p, b : p = At(primaryHdrLBA) /\ b = At(totalLBA - 1)
      OBVIOUS
    <3>3. /\ p = header(primaryHdrLBA, totalLBA - 1, entryArrayLBA, parts)
          /\ b = header(totalLBA - 1, primaryHdrLBA, backupArrayLBA, parts)
          /\ At(0).t = "protective"
          /\ At(entryArrayLBA) = [t |-> "entries", of |-> parts]
          /\ At(backupArrayLBA) = [t |-> "entries", of |-> parts]
      BY <1>1, <3>1, <3>2, TablesReadBack
    <3>4. /\ p.t = "gpt" /\ p.other = totalLBA - 1 /\ p.array = entryArrayLBA /\ p.crc = parts
          /\ b.t = "gpt" /\ b.other = primaryHdrLBA /\ b.self = totalLBA - 1
          /\ b.array = backupArrayLBA /\ b.crc = parts
      BY <3>3 DEF header
    <3>5. entryArrayLBA # backupArrayLBA
      <4>1. totalLBA \in Nat /\ backupArrayLBA = totalLBA - 33 /\ totalLBA >= 2114
        BY <1>1, <3>1, Geometry DEF DiskInv, Running
      <4> QED BY <4>1 DEF entryArrayLBA
    <3> QED BY <3>2, <3>3, <3>4, <3>5, Zenon DEF TablesSurvive
  <2> QED BY <2>1, <2>2 DEF DiskSound
<1> QED BY <1>1, DiskInvHolds, PTL

\* For every disk and every list of sizes that are not negative, FormatGPT and FormatMBR
\* return partitions that lie on the disk, in order and apart, but for the last one of
\* an MBR when it is for the rest and the others leave none.
THEOREM PlansAreOnDisk == Spec => []PlanOnDisk
<1>1. ASSUME DiskInv, FillOK PROVE PlanOnDisk
  <2> SUFFICES ASSUME stage = "engine", \A i \in DOMAIN specs : specs[i] >= 0,
                      NEW i \in DOMAIN parts
               PROVE  /\ \A j \in 1 .. i - 1 : parts[j].end < parts[i].start
                      /\ \/ parts[i].start <= parts[i].end /\ parts[i].end < totalLBA
                         \/ scheme = "mbr" /\ i = Len(specs) /\ specs[i] = 0 /\ parts[i].start >= totalLBA
    BY DEF PlanOnDisk
  <2>1. PICK n : n = Len(parts)
    OBVIOUS
  <2>2. /\ Running /\ n \in Nat /\ Len(specs) = n /\ i \in 1 .. n /\ specs \in Seq(Int)
        /\ scheme \in {"gpt", "mbr"}
        /\ \A k \in 1 .. n : specs[k] \in Int /\ specs[k] >= 0
    <3>1. Running /\ Planned
      BY DEF Running, Planned
    <3>2. /\ specs \in Seq(Int) /\ parts \in Seq([start : Nat, end : Int])
          /\ scheme \in {"gpt", "mbr"} /\ Len(parts) = Len(specs)
      BY <1>1, <3>1 DEF DiskInv, ShapeOK
    <3>3. n \in Nat /\ DOMAIN parts = 1 .. n /\ DOMAIN specs = 1 .. n /\ Len(specs) = n
      BY <2>1, <3>2
    <3>4. ASSUME NEW k \in 1 .. n
          PROVE  specs[k] \in Int /\ specs[k] >= 0
      <4>1. specs[k] \in Int
        BY <3>2, <3>3, ElementOfSeq
      <4>2. specs[k] >= 0
        BY <3>3, Zenon
      <4> QED BY <4>1, <4>2
    <3> QED BY <3>1, <3>2, <3>3, <3>4, Zenon
  <2>3. /\ totalLBA \in Nat /\ lastUsableLBA = totalLBA - 34
        /\ scheme = "gpt" => LastLBA = totalLBA - 34
        /\ scheme = "mbr" => LastLBA = totalLBA - 1
    BY <1>1, <2>2, Geometry DEF DiskInv
  <2>4. ASSUME NEW k \in 1 .. n
        PROVE  parts[k].start \in Int /\ parts[k].end \in Int
    <3>1. k \in 1 .. Len(parts) /\ parts \in Seq([start : Nat, end : Int])
      BY <1>1, <2>1 DEF DiskInv, ShapeOK
    <3>2. parts[k] \in [start : Nat, end : Int]
      BY <3>1, ElementOfSeq
    <3> QED BY <3>2
  <2>5. ASSUME NEW k \in 1 .. n, specs[k] # 0
        PROVE  sectionSize(parts[k]) > 0 /\ parts[k].start <= parts[k].end /\ parts[k].end <= LastLBA
    <3>1. /\ sectionSize(parts[k]) * sectorSize >= specs[k] /\ parts[k].end <= LastLBA
      BY <1>1, <2>1, <2>2, <2>5 DEF DiskInv, PlanOK
    <3>2. PICK s \in Int : s = sectionSize(parts[k]) /\ s = parts[k].end - parts[k].start + 1
      BY <2>4 DEF sectionSize
    <3>3. s * 512 > 0
      BY <2>2, <2>5, <3>1, <3>2 DEF sectorSize
    <3>4. s > 0
      BY <3>3
    <3>5. parts[k].start <= parts[k].end
      BY <2>4, <3>2, <3>4
    <3> QED BY <3>1, <3>2, <3>4, <3>5
  <2>6. ASSUME NEW k \in 1 .. n, specs[k] = 0
        PROVE  k = n /\ parts[k].end = LastLBA /\ (scheme = "gpt" => parts[k].start <= LastLBA)
    BY <1>1, <2>1, <2>2, <2>6 DEF FillOK
  <2>7. NonEmpty(i - 1)
    <3> SUFFICES ASSUME NEW j \in 1 .. i - 1 PROVE sectionSize(parts[j]) > 0
      BY DEF NonEmpty
    <3>1. j \in 1 .. n /\ j # n
      BY <2>2
    <3> QED BY <2>5, <2>6, <3>1
  <2>8. \A j \in 1 .. i - 1 : parts[j].end < parts[i].start
    BY <1>1, <2>1, <2>2, <2>7 DEF DiskInv, PlanOK
  <2>9. CASE specs[i] # 0
    BY <2>2, <2>3, <2>4, <2>5, <2>8, <2>9
  <2>10. CASE specs[i] = 0
    BY <2>2, <2>3, <2>4, <2>6, <2>8, <2>10
  <2> QED BY <2>9, <2>10
<1> QED BY <1>1, FillsHold, PTL

\* Whatever an engine tries to write, the tables and what the other engines wrote
\* stay as they are, and what it does write lies in its partition (Section.WriteAt,
\* and the loop of the command over the partitions).
THEOREM EnginesKeepInside == Spec => EnginesStayInside
<1> DEFINE Kept == stage = "engine" =>
                      \A o \in DOMAIN dev : dev[o].what # FS(at) => o \in DOMAIN dev' /\ dev'[o] = dev[o]
            Inside == stage = "engine" =>
                        \A o \in DOMAIN dev' :
                            \/ o \in DOMAIN dev /\ dev'[o] = dev[o]
                            \/ parts[at].start <= o /\ o + dev'[o].len <= parts[at].end + 1
<1>1. ASSUME DiskInv, Next PROVE Kept
  <2>1. SUFFICES ASSUME stage = "engine", NEW o \in DOMAIN dev, dev[o].what # FS(at)
                 PROVE  o \in DOMAIN dev' /\ dev'[o] = dev[o]
    OBVIOUS
  <2>2. CASE dev' = dev
    BY <2>2
  <2>3. ASSUME NEW len \in Lens,
               NEW off \in offsets(parts[at]),
               ~refuses(parts[at], off, len),
               dev' = overwrite(dev, Request(parts[at].start + off, len, FS(at)))
        PROVE  o \in DOMAIN dev' /\ dev'[o] = dev[o]
    <3>1. off \in Int
      BY <1>1, <2>1, <2>3, OffsetsAreNumbers
    <3>2. PICK r : r = Request(parts[at].start + off, len, FS(at))
      OBVIOUS
    <3>3. /\ r.off \in Nat /\ r.len \in Nat \ {0}
          /\ o + dev[o].len <= r.off \/ r.off + r.len <= o
      BY <1>1, <2>1, <2>3, <3>1, <3>2, EngineWriteApart
    <3>4. o \in Int /\ dev[o].len \in Nat \ {0}
      BY <1>1, <2>1 DEF DiskInv, RecordsOK, Running
    <3> QED BY <2>3, <3>2, <3>3, <3>4, OverwriteKeeps
  <2>4. CASE EngineWrites
    BY <2>2, <2>3, <2>4 DEF EngineWrites, FS
  <2>5. CASE EngineFails \/ EngineDone \/ Done
    BY <2>2, <2>5 DEF EngineFails, Fails, EngineDone, Done, vars
  <2> QED BY <1>1, <2>1, <2>4, <2>5 DEF Next, formatScheme, Assign, WriteTable
<1>2. ASSUME DiskInv, Next PROVE Inside
  <2>1. SUFFICES ASSUME stage = "engine", NEW o \in DOMAIN dev'
                 PROVE  \/ o \in DOMAIN dev /\ dev'[o] = dev[o]
                        \/ parts[at].start <= o /\ o + dev'[o].len <= parts[at].end + 1
    OBVIOUS
  <2>2. CASE dev' = dev
    BY <2>1, <2>2
  <2>3. ASSUME NEW len \in Lens,
               NEW off \in offsets(parts[at]),
               ~refuses(parts[at], off, len),
               dev' = overwrite(dev, Request(parts[at].start + off, len, FS(at)))
        PROVE  \/ o \in DOMAIN dev /\ dev'[o] = dev[o]
               \/ parts[at].start <= o /\ o + dev'[o].len <= parts[at].end + 1
    <3>1. off \in Int
      BY <1>2, <2>1, <2>3, OffsetsAreNumbers
    <3>2. PICK r : r = Request(parts[at].start + off, len, FS(at))
      OBVIOUS
    <3>3. parts[at].start <= r.off /\ r.off + r.len <= parts[at].end + 1
      BY <1>2, <2>1, <2>3, <3>1, <3>2, EngineWriteApart
    <3>4. CASE o = r.off
      BY <2>1, <2>3, <3>2, <3>3, <3>4 DEF overwrite
    <3>5. CASE o # r.off
      BY <2>1, <2>3, <3>2, <3>5 DEF overwrite, Clear
    <3> QED BY <3>4, <3>5
  <2>4. CASE EngineWrites
    BY <2>2, <2>3, <2>4 DEF EngineWrites, FS
  <2>5. CASE EngineFails \/ EngineDone \/ Done
    BY <2>2, <2>5 DEF EngineFails, Fails, EngineDone, Done, vars
  <2> QED BY <1>2, <2>1, <2>4, <2>5 DEF Next, formatScheme, Assign, WriteTable
<1> DEFINE Both == stage = "engine" =>
                      /\ \A o \in DOMAIN dev : dev[o].what # FS(at) => o \in DOMAIN dev' /\ dev'[o] = dev[o]
                      /\ \A o \in DOMAIN dev' :
                            \/ o \in DOMAIN dev /\ dev'[o] = dev[o]
                            \/ parts[at].start <= o /\ o + dev'[o].len <= parts[at].end + 1
<1>3. ASSUME DiskInv, [Next]_vars PROVE [Both]_vars
  BY <1>1, <1>2, <1>3
<1>4. Spec => [][Both]_vars
  BY <1>3, DiskInvHolds, PTL DEF Spec
<1> QED BY <1>4 DEF EnginesStayInside, FS
=============================================================================
