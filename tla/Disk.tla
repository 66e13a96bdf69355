-------------------------------- MODULE Disk --------------------------------
(***************************************************************************)
(* fsforge disk (cmd/fsforge/disk.go) over pkg/partition and the Section   *)
(* of pkg/device: a partition table is planned and written, then an engine *)
(* is run in every partition, one after the other.  An engine is any       *)
(* sequence of writes to its section: whether it gives up when a write is  *)
(* refused is its own business (some drop the error).                      *)
(***************************************************************************)
EXTENDS Extents

CONSTANTS DiskSizes,    \* sizes of the disk, in bytes
          SpecLists,    \* lists of partition sizes in bytes, 0 for the rest
          Lens,         \* lengths of an engine's writes, in sectors
          Near,         \* their offsets, from the start or the end of its section
          MaxWrites,    \* bound on the writes of one engine
          Word          \* the fields of an MBR entry are numbers below Word

ASSUME WordAssumption == Word \in Nat \ {0}

\* A write of the engine is of some bytes.
ASSUME InputAssumption ==
    /\ DiskSizes \subseteq Nat
    /\ SpecLists \subseteq Seq(Int)
    /\ Lens \subseteq Nat \ {0}
    /\ Near \subseteq Int

VARIABLES scheme, size, specs,
          dev,       \* the disk, by sector
          cur,       \* where the next partition starts
          parts,     \* the partitions of FormatGPT or FormatMBR so far
          todo,      \* writes of the tables still to come
          stage,     \* where the command is
          at,        \* the partition whose engine runs
          writes,    \* how many writes that engine has made
          err

vars == <<scheme, size, specs, dev, cur, parts, todo, stage, at, writes, err>>

sectorSize == 512
entryCount == 128
entryArraySecs == 32
primaryHdrLBA == 1
entryArrayLBA == 2
firstUsableLBA == 2 + entryArraySecs
alignSectors == 2048

Init ==
    /\ scheme \in {"gpt", "mbr"}
    /\ size \in DiskSizes
    /\ specs \in SpecLists
    /\ dev = NoFn
    /\ cur = 0
    /\ parts = <<>>
    /\ todo = <<>>
    /\ stage = "check"
    /\ at = 1
    /\ writes = 0
    /\ err = "nil"

totalLBA == size \div sectorSize

\* Mutant: the backup header is taken for the only thing behind the partitions.
lastUsableLBA_header == totalLBA - 1 - 1

lastUsableLBA == totalLBA - 1 - entryArraySecs - 1
backupArrayLBA == totalLBA - 1 - entryArraySecs

\* The sectors of a size in bytes; a negative one is rounded towards zero.
sectors(bytes) ==
    LET n == bytes + sectorSize - 1
    IN  IF n >= 0 THEN n \div sectorSize ELSE -((-n) \div sectorSize)

\* Mutant: the next partition starts where the last one ends.
nextStart_packed(end) == end + 1

nextStart(end) == ceilTo(end + 1, alignSectors)

Part(start, end) == [start |-> start, end |-> end]

Fails(why) == err' = why /\ stage' = "done" /\ UNCHANGED <<scheme, size, specs, dev, cur, parts, todo, at, writes>>

\* The early returns of FormatGPT and FormatMBR.
refusal ==
    CASE specs = <<>> -> "no partitions"
      [] scheme = "mbr" /\ Len(specs) > 4 -> "too many primaries"
      [] size % sectorSize # 0 -> "bad size"
      [] scheme = "gpt" /\ totalLBA < firstUsableLBA + entryArraySecs + alignSectors -> "too small"
      [] scheme = "mbr" /\ totalLBA < alignSectors + alignSectors -> "too small"
      [] OTHER -> "nil"

formatScheme ==
    /\ stage = "check"
    /\ \/ refusal # "nil" /\ Fails(refusal)
       \/ /\ refusal = "nil"
          /\ cur' = IF scheme = "gpt" THEN ceilTo(firstUsableLBA, alignSectors) ELSE alignSectors
          /\ stage' = "assign"
          /\ UNCHANGED <<scheme, size, specs, dev, parts, todo, at, writes, err>>

next == specs[Len(parts) + 1]
last == Len(parts) + 1 = Len(specs)

\* A step of the loop of FormatGPT.  The end of a partition is unsigned: below
\* zero it is beyond every disk.
endGPT == IF next = 0 THEN lastUsableLBA ELSE cur + sectors(next) - 1

\* Mutant: what fills the disk is not looked at again.
refusalGPT_fillUnchecked ==
    CASE next = 0 /\ ~last -> "fill not last"
      [] next # 0 /\ (endGPT < 0 \/ endGPT > lastUsableLBA) -> "too small"
      [] OTHER -> "nil"

refusalGPT ==
    CASE next = 0 /\ ~last -> "fill not last"
      [] next = 0 /\ cur > lastUsableLBA -> "too small"
      [] next # 0 /\ (endGPT < 0 \/ endGPT > lastUsableLBA) -> "too small"
      [] OTHER -> "nil"

\* A step of the loop of FormatMBR: what fills the disk is not looked at again.
endMBR == IF next = 0 THEN totalLBA - 1 ELSE cur + sectors(next) - 1
refusalMBR ==
    CASE next = 0 /\ ~last -> "fill not last"
      [] next # 0 /\ (endMBR + 1 < 0 \/ endMBR + 1 > totalLBA) -> "too small"
      [] OTHER -> "nil"

\* buildHeader, with the checksum of the entries standing for them.
header(self, other, array, entries) ==
    [t |-> "gpt", self |-> self, other |-> other, first |-> firstUsableLBA, last |-> lastUsableLBA,
     array |-> array, crc |-> entries]

\* What FormatGPT writes, in that order.
tablesGPT(ps) ==
    <<Request(0, 1, [t |-> "protective", count |-> IF totalLBA - 1 < Word THEN totalLBA - 1 ELSE Word - 1]),
      Request(entryArrayLBA, entryArraySecs, [t |-> "entries", of |-> ps]),
      Request(primaryHdrLBA, 1, header(primaryHdrLBA, totalLBA - 1, entryArrayLBA, ps)),
      Request(backupArrayLBA, entryArraySecs, [t |-> "entries", of |-> ps]),
      Request(totalLBA - 1, 1, header(totalLBA - 1, primaryHdrLBA, backupArrayLBA, ps))>>

\* The array has so many slots; building an entry behind the last one panics.
overflowsGPT(ps) == scheme = "gpt" /\ Len(ps) > entryCount

\* writeMBREntry: the fields are narrower than the numbers.
tableMBR(ps) ==
    <<Request(0, 1, [t |-> "mbr", of |-> [i \in DOMAIN ps |->
        [start |-> ps[i].start % Word, count |-> (ps[i].end - ps[i].start + 1) % Word]]])>>

Assign ==
    /\ stage = "assign"
    /\ LET refused == IF scheme = "gpt" THEN refusalGPT ELSE refusalMBR
           end == IF scheme = "gpt" THEN endGPT ELSE endMBR
       IN  \/ refused # "nil" /\ Fails(refused)
           \/ refused = "nil" /\ last /\ overflowsGPT(specs) /\ Fails("panic")
           \/ /\ refused = "nil" /\ ~(last /\ overflowsGPT(specs))
              /\ parts' = Append(parts, Part(cur, end))
              /\ cur' = nextStart(end)
              /\ todo' = IF ~last THEN todo ELSE IF scheme = "gpt" THEN tablesGPT(parts') ELSE tableMBR(parts')
              /\ stage' = IF last THEN "write" ELSE stage
              /\ UNCHANGED <<scheme, size, specs, dev, at, writes, err>>

\* A write of the tables, which the host may refuse.
WriteTable ==
    /\ stage = "write"
    /\ \/ /\ dev' = overwrite(dev, Head(todo))
          /\ todo' = Tail(todo)
          /\ stage' = IF Len(todo) = 1 THEN "engine" ELSE stage
          /\ UNCHANGED <<scheme, size, specs, cur, parts, at, writes, err>>
       \/ Fails("write")

sectionSize(p) == p.end - p.start + 1

\* Mutant: only the start of a write is looked at.
refuses_startOnly(p, off, len) == off < 0 \/ off >= sectionSize(p)

\* Section.WriteAt
refuses(p, off, len) == off < 0 \/ off + len > sectionSize(p)

\* Where an engine writes, in its section and outside of it.
offsets(p) == Near \cup {sectionSize(p) + n : n \in Near}

\* A write of the engine.
EngineWrites ==
    /\ stage = "engine" /\ writes < MaxWrites
    /\ \E len \in Lens, off \in offsets(parts[at]) :
        IF ~refuses(parts[at], off, len)
        THEN /\ dev' = overwrite(dev, Request(parts[at].start + off, len, [t |-> "fs", of |-> at]))
             /\ writes' = writes + 1
             /\ UNCHANGED <<stage, err>>
        ELSE /\ dev' = dev
             /\ \/ writes' = writes /\ err' = "refused" /\ stage' = "done"
                \/ writes' = writes + 1 /\ UNCHANGED <<stage, err>>
    /\ UNCHANGED <<scheme, size, specs, cur, parts, todo, at>>

\* Format, PopulateFromDir or Finalize of the engine fails.
EngineFails ==
    /\ stage = "engine"
    /\ Fails("engine")

\* Finalize returns: an engine checks the size it is given, or notices that none
\* of its writes is taken.  The command goes on with the next partition.
EngineDone ==
    /\ stage = "engine"
    /\ \E o \in DOMAIN dev : dev[o].what = [t |-> "fs", of |-> at]
    /\ at' = IF at < Len(specs) THEN at + 1 ELSE at
    /\ stage' = IF at < Len(specs) THEN "engine" ELSE "done"
    /\ writes' = 0
    /\ UNCHANGED <<scheme, size, specs, dev, cur, parts, todo, err>>

Done == stage = "done" /\ UNCHANGED vars

Next == formatScheme \/ Assign \/ WriteTable \/ EngineWrites \/ EngineFails \/ EngineDone \/ Done

Spec == Init /\ [][Next]_vars
-----------------------------------------------------------------------------
At(o) == IF o \in DOMAIN dev THEN dev[o].what ELSE Garbage
Succeeded == stage = "done" /\ err = "nil"

\* The partitions as a machine that boots from the disk finds them.
onDisk ==
    IF At(0).t = "mbr"
    THEN [i \in DOMAIN At(0).of |-> Part(At(0).of[i].start, At(0).of[i].start + At(0).of[i].count - 1)]
    ELSE At(At(primaryHdrLBA).array).of

\* When the command succeeds, the partitions on the disk are the ones the engines
\* were run in, as large as they were asked for, aligned, and they overlap neither
\* each other nor the tables nor the end of the disk.
PartitionsSound ==
    Succeeded =>
        /\ onDisk = parts /\ Len(parts) = Len(specs)
        /\ \A i \in DOMAIN parts :
            /\ parts[i].start % alignSectors = 0
            /\ sectionSize(parts[i]) * sectorSize >= specs[i] /\ sectionSize(parts[i]) > 0
            /\ parts[i].start > 0 /\ parts[i].end < totalLBA
            /\ \A j \in DOMAIN parts : i < j => parts[i].end < parts[j].start

\* Both copies of a GPT are found after the engines have run, by the header at
\* either end of the disk, and say the same; the protective MBR covers them.
TablesSurvive ==
    Succeeded /\ scheme = "gpt" =>
        LET p == At(primaryHdrLBA)
            b == At(p.other)
        IN  /\ p.t = "gpt" /\ b.t = "gpt"
            /\ b.other = primaryHdrLBA /\ p.other = b.self /\ b.self = totalLBA - 1
            /\ p.array # b.array
            /\ At(p.array) = [t |-> "entries", of |-> p.crc]
            /\ At(b.array) = [t |-> "entries", of |-> b.crc]
            /\ p.crc = b.crc
            /\ At(0).t = "protective"

\* A disk the command has finished boots: its partitions are sound, and both tables
\* that describe them are still there after the engines.
DiskSound == PartitionsSound /\ TablesSurvive

\* What FormatGPT and FormatMBR return, before any engine runs, for sizes that are not
\* negative: partitions that hold at least a sector, on the disk, in order and apart.
\* The one exception is what FormatMBR does not look at: a last partition for the
\* rest of the disk is planned behind the end when the others leave no aligned start.
PlanOnDisk ==
    stage = "engine" /\ (\A i \in DOMAIN specs : specs[i] >= 0) =>
        \A i \in DOMAIN parts :
            /\ \A j \in 1 .. i - 1 : parts[j].end < parts[i].start
            /\ \/ parts[i].start <= parts[i].end /\ parts[i].end < totalLBA
               \/ scheme = "mbr" /\ i = Len(specs) /\ specs[i] = 0 /\ parts[i].start >= totalLBA

\* An engine changes nothing outside its partition: what the tables and the other
\* engines wrote stays, whatever it tries to write, and what it does write lies inside,
\* also where nothing has been written yet.
EnginesStayInside ==
    [][stage = "engine" =>
        /\ \A o \in DOMAIN dev : dev[o].what # [t |-> "fs", of |-> at] => o \in DOMAIN dev' /\ dev'[o] = dev[o]
        /\ \A o \in DOMAIN dev' :
              \/ o \in DOMAIN dev /\ dev'[o] = dev[o]
              \/ parts[at].start <= o /\ o + dev'[o].len <= parts[at].end + 1]_vars
=============================================================================
