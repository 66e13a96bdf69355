---------------------------- MODULE BitmapProofs ----------------------------
(***************************************************************************)
(* Proofs about module Bitmap, for every pool size, word size, request and *)
(* maxRun: its type invariant, the exactness of the hint, that Alloc is    *)
(* first-fit although it scans from the hint only, the ledger of the       *)
(* blocks lent, that AllocRuns takes exactly what it was asked for and     *)
(* gives up only when the pool is too small, and that the bitmap with its  *)
(* hint, its probes and its rollback implements module BlockPool.          *)
(***************************************************************************)
EXTENDS Bitmap, FiniteSetTheorems, WellFoundedInduction, TLAPS

-----------------------------------------------------------------------------
(* The scans. *)

\* Least really is the least element of a non-empty set of naturals.
LEMMA LeastIsLeast ==
    ASSUME NEW S, S \subseteq Nat, S # {}
    PROVE  Least(S) \in S /\ \A y \in S : Least(S) <= y
<1>1. PICK x \in S : \A y \in S : ~(<<y, x>> \in OpToRel(<, Nat))
  BY NatLessThanWellFounded, WFMin, Zenon
<1>2. \A y \in S : x <= y
  <2> TAKE y \in S
  <2>1. ~(y < x)
    BY <1>1 DEF OpToRel
  <2> QED BY <2>1
<1> QED BY <1>2 DEF Least

\* firstFree returns the lowest free block from its argument on, or Total; the
\* used padding keeps it inside the managed range.
LEMMA FirstFreeIsExact ==
    ASSUME NEW b, Padding \subseteq b, NEW from \in Nat
    PROVE  /\ firstFree(b, from) \in 0 .. Total
           /\ firstFree(b, from) < Total =>
                 firstFree(b, from) >= from /\ firstFree(b, from) \notin b
           /\ \A j \in Blocks : from <= j /\ j < firstFree(b, from) => j \in b
<1> DEFINE U == {j \in from .. Capacity - 1 : j \notin b}
<1>1. Total \in Nat /\ Capacity \in Nat /\ Total <= Capacity
  BY SizeAssumption
<1>2. CASE from >= Total \/ U = {}
  <2>1. firstFree(b, from) = Total
    BY <1>2 DEF firstFree
  <2> QED BY <1>1, <1>2, <2>1 DEF Blocks
<1>3. CASE from < Total /\ U # {}
  <2>1. firstFree(b, from) = Least(U)
    BY <1>1, <1>3 DEF firstFree
  <2>2. U \subseteq Nat
    BY <1>1
  <2> HIDE DEF U
  <2>3. Least(U) \in U /\ \A y \in U : Least(U) <= y
    BY <1>3, <2>2, LeastIsLeast
  <2> QED BY <1>1, <2>1, <2>3 DEF U, Blocks, Padding
<1> QED BY <1>1, <1>2, <1>3

\* firstUsed returns the end of the free run that starts at its argument.
LEMMA FirstUsedIsExact ==
    ASSUME NEW b, NEW from \in Blocks
    PROVE  /\ firstUsed(b, from) \in from .. Total
           /\ \A j \in from .. firstUsed(b, from) - 1 : j \notin b
           /\ firstUsed(b, from) < Total => firstUsed(b, from) \in b
<1> DEFINE U == {j \in from .. Capacity - 1 : j \in b}
<1>1. Total \in Nat /\ Capacity \in Nat /\ Total <= Capacity /\ from \in Nat /\ from < Total
  BY SizeAssumption DEF Blocks
<1>2. CASE U = {}
  <2>1. firstUsed(b, from) = Total
    BY <1>1, <1>2 DEF firstUsed
  <2> QED BY <1>1, <1>2, <2>1
<1>3. CASE U # {}
  <2>1. firstUsed(b, from) = Lesser(Least(U), Total)
    BY <1>1, <1>3 DEF firstUsed
  <2>2. U \subseteq Nat
    BY <1>1
  <2> HIDE DEF U
  <2>3. Least(U) \in U /\ \A y \in U : Least(U) <= y
    BY <1>3, <2>2, LeastIsLeast
  <2> QED BY <1>1, <2>1, <2>3 DEF U, Lesser
<1> QED BY <1>2, <1>3

\* Every candidate of Alloc's loop starts a free run of k blocks in the range.
LEMMA CandidateIsFree ==
    ASSUME NEW b, Padding \subseteq b, NEW h \in Nat, NEW k \in Nat \ {0},
           NEW i \in Candidates(b, h, k)
    PROVE  /\ i \in Blocks /\ i + k <= Total
           /\ RunBlocks(i, k) \cap b = {}
<1>1. firstFree(b, h) \in 0 .. Total
  BY FirstFreeIsExact
<1>2. i \in Blocks /\ firstUsed(b, i) - i >= k
  BY <1>1, SizeAssumption DEF Candidates, Blocks
<1> QED BY <1>2, FirstUsedIsExact, SizeAssumption DEF Blocks, RunBlocks

\* First-fit: if a free run of k blocks exists, the loop finds one, and none
\* of them starts lower.
LEMMA CandidatesAreFirstFit ==
    ASSUME NEW b, Padding \subseteq b, NEW h \in Nat, NEW k \in Nat \ {0},
           \A j \in Blocks : j < h => j \in b,
           NEW t \in Blocks, RunBlocks(t, k) \subseteq Blocks \ b
    PROVE  /\ Candidates(b, h, k) # {}
           /\ Least(Candidates(b, h, k)) <= t
<1> DEFINE F == {s \in Blocks : RunBlocks(s, k) \subseteq Blocks \ b}
           s == Least(F)
           f == firstFree(b, h)
<1>0. Total \in Nat
  BY SizeAssumption
<1>1. s \in F /\ \A y \in F : s <= y
  <2>1. F \subseteq Nat /\ F # {}
    BY <1>0 DEF Blocks
  <2> QED BY <2>1, LeastIsLeast
<1>2. s \in Blocks /\ s \in Nat /\ RunBlocks(s, k) \subseteq Blocks \ b
  BY <1>0, <1>1 DEF Blocks
<1> HIDE DEF s, F
<1>3. s \notin b /\ s >= h /\ s + k <= Total
  <2>1. s \in RunBlocks(s, k) /\ s + k - 1 \in RunBlocks(s, k)
    BY <1>2 DEF RunBlocks
  <2> QED BY <1>0, <1>2, <2>1 DEF Blocks
<1>4. f \in 0 .. Total /\ f <= s
  <2>1. f \in 0 .. Total /\ \A j \in Blocks : h <= j /\ j < f => j \in b
    BY FirstFreeIsExact
  <2> QED BY <1>0, <1>2, <1>3, <2>1
<1>5. s = f \/ s - 1 \in b
  <2> SUFFICES ASSUME s # f, s - 1 \notin b
               PROVE  FALSE
    OBVIOUS
  <2>1. s - 1 \in Blocks /\ s - 1 \notin b
    BY <1>0, <1>2, <1>4 DEF Blocks
  <2>2. RunBlocks(s - 1, k) \subseteq Blocks \ b
    BY <1>0, <1>2, <1>3, <2>1 DEF RunBlocks, Blocks
  <2>3. s - 1 \in F
    BY <2>1, <2>2 DEF F
  <2> QED BY <1>1, <1>2, <2>3
<1>6. firstUsed(b, s) - s >= k
  <2>1. /\ firstUsed(b, s) \in s .. Total
        /\ firstUsed(b, s) < Total => firstUsed(b, s) \in b
    BY <1>2, FirstUsedIsExact
  <2>2. firstUsed(b, s) < s + k => firstUsed(b, s) \notin b
    BY <1>0, <1>2, <2>1 DEF RunBlocks
  <2> QED BY <1>0, <1>2, <1>3, <2>1, <2>2
<1>7. s \in Candidates(b, h, k)
  BY <1>0, <1>2, <1>3, <1>4, <1>5, <1>6 DEF Candidates, Blocks
<1>8. s <= t
  BY <1>1 DEF F
<1>9. Candidates(b, h, k) \subseteq Nat
  BY <1>0, <1>4 DEF Candidates
<1>10. Least(Candidates(b, h, k)) \in Nat /\ Least(Candidates(b, h, k)) <= s
  BY <1>7, <1>9, LeastIsLeast
<1> QED BY <1>0, <1>2, <1>7, <1>8, <1>10 DEF Blocks

-----------------------------------------------------------------------------
(* Type correctness and the hint. *)

PaddingUsed == Padding \subseteq bits

\* What allocAtMost asks for is positive and at most what is wanted.
ProbeOK == pc = "probe" => left > 0 /\ probe \in 1 .. wanted(left, maxRun)

ScanInv == TypeOK /\ PaddingUsed /\ HintExact /\ ProbeOK

\* Below the modulus nothing wraps, so the loops visit the whole run.
LEMMA VisitedInRange ==
    ASSUME NEW s \in Word, NEW k \in Word, s + k <= Total
    PROVE  Visited(s, k) = RunBlocks(s, k)
BY SizeAssumption DEF Visited, RunBlocks, Add, Word

\* The blocks Free and Reserve visit lie in the range when their check passes.
LEMMA VisitedInBlocks ==
    ASSUME NEW s \in Word, NEW k \in Word, Add(s, k) <= Total
    PROVE  Visited(s, k) \subseteq Blocks
BY SizeAssumption DEF Visited, Blocks, Add, Word

\* A run inside the managed range.
LEMMA RunInRange ==
    ASSUME NEW s \in Blocks, NEW k \in 1 .. Total, s + k <= Total
    PROVE  Run(s, k) \in RunSet
<1>1. Run(s, k) \in [start : Blocks, len : 1 .. Total]
  BY DEF Run
<1>2. Run(s, k).start = s /\ Run(s, k).len = k
  BY DEF Run
<1> QED BY <1>1, <1>2 DEF RunSet

\* take keeps the types, the padding and the hint.
LEMMA TakeKeepsScan ==
    ASSUME ScanInv, NEW s \in Word, NEW k \in Word,
           Visited(s, k) \subseteq Blocks, take(s, k)
    PROVE  bits' \subseteq Slots /\ hint' \in 0 .. Total /\ PaddingUsed' /\ HintExact'
<1> DEFINE b == bits \cup Visited(s, k)
<1>1. bits' = b /\ hint' = firstFree(b, hint)
  BY DEF take
<1>2. Padding \subseteq b /\ hint \in Nat /\ Total \in Nat /\ Capacity \in Nat /\ Total <= Capacity
  BY SizeAssumption DEF ScanInv, PaddingUsed, TypeOK
<1>3. /\ firstFree(b, hint) \in 0 .. Total
      /\ \A j \in Blocks : hint <= j /\ j < firstFree(b, hint) => j \in b
  BY <1>2, FirstFreeIsExact
<1>4. b \subseteq Slots
  <2>1. bits \subseteq Slots
    BY DEF ScanInv, TypeOK
  <2>2. Blocks \subseteq Slots
    BY <1>2 DEF Slots, Blocks
  <2> QED BY <2>1, <2>2
<1>5. \A j \in Blocks : j < firstFree(b, hint) => j \in b
  <2> SUFFICES ASSUME NEW j \in Blocks, j < firstFree(b, hint), j \notin b
               PROVE  FALSE
    OBVIOUS
  <2>1. ~(j < hint)
    BY DEF ScanInv, HintExact
  <2>2. j \in Nat
    BY <1>2 DEF Blocks
  <2> HIDE DEF b
  <2> QED BY <1>2, <1>3, <2>1, <2>2
<1> QED BY <1>1, <1>2, <1>3, <1>4, <1>5 DEF PaddingUsed, HintExact

\* release keeps the types, the padding and, by lowering it, the hint.
LEMMA ReleaseKeepsScan ==
    ASSUME ScanInv, NEW s \in Word, NEW k \in Word,
           Visited(s, k) \subseteq Blocks, release(s, k)
    PROVE  bits' \subseteq Slots /\ hint' \in 0 .. Total /\ PaddingUsed' /\ HintExact'
<1>1. Total \in Nat /\ Capacity \in Nat /\ hint \in 0 .. Total /\ s \in Nat
  BY SizeAssumption DEF ScanInv, TypeOK, Word
<1>2. bits' = bits \ Visited(s, k) /\ hint' = Lesser(s, hint)
  BY DEF release
<1>3. hint' \in 0 .. Total /\ hint' <= hint /\ hint' <= s
  BY <1>1, <1>2 DEF Lesser
<1>4. PaddingUsed'
  BY <1>1, <1>2 DEF ScanInv, PaddingUsed, Padding, Blocks
<1>5. \A j \in Visited(s, k) : s <= j
  BY <1>1 DEF Visited, Add, Word
<1>6. HintExact'
  BY <1>1, <1>2, <1>3, <1>5 DEF ScanInv, HintExact, Blocks
<1> QED BY <1>2, <1>3, <1>4, <1>6 DEF ScanInv, TypeOK

\* The run that Alloc's loop settles on.
LEMMA AllocRunIsFree ==
    ASSUME ScanInv, NEW k \in Word \ {0}, Candidates(bits, hint, k) # {},
           NEW i, i = Least(Candidates(bits, hint, k))
    PROVE  /\ Run(i, k) \in RunSet /\ i \in Word
           /\ Visited(i, k) = RunBlocks(i, k)
           /\ RunBlocks(i, k) \subseteq Blocks \ bits
<1>1. Total \in Nat /\ Modulus \in Nat /\ Total < Modulus /\ k \in Nat \ {0} /\ hint \in Nat /\ Padding \subseteq bits
  BY SizeAssumption DEF ScanInv, PaddingUsed, TypeOK, Word
<1>2. Candidates(bits, hint, k) \subseteq Nat
  <2>1. firstFree(bits, hint) \in Nat
    BY <1>1, FirstFreeIsExact
  <2> QED BY <1>1, <2>1 DEF Candidates
<1>3. i \in Candidates(bits, hint, k)
  BY <1>2, LeastIsLeast
<1>4. i \in Blocks /\ i + k <= Total /\ RunBlocks(i, k) \cap bits = {}
  BY <1>1, <1>3, CandidateIsFree
<1>5. i \in Word /\ Run(i, k) \in RunSet
  <2>1. i \in Word /\ k \in 1 .. Total
    BY <1>1, <1>4 DEF Word, Blocks
  <2> QED BY <1>4, <2>1, RunInRange
<1>6. RunBlocks(i, k) \subseteq Blocks
  BY <1>1, <1>4 DEF RunBlocks, Blocks
<1> QED BY <1>4, <1>5, <1>6, VisitedInRange

\* The run that AllocUpTo takes: a prefix of the lowest free run.
LEMMA UpToRunIsFree ==
    ASSUME ScanInv, NEW k \in Word \ {0}, upToStart < Total
    PROVE  /\ Run(upToStart, upToLen(k)) \in RunSet
           /\ upToStart \in Word /\ upToLen(k) \in Word /\ upToLen(k) \in 1 .. k
           /\ Visited(upToStart, upToLen(k)) = RunBlocks(upToStart, upToLen(k))
           /\ RunBlocks(upToStart, upToLen(k)) \subseteq Blocks \ bits
           /\ \A t \in Blocks \ bits : upToStart <= t
           /\ upToLen(k) < k => upToStart + upToLen(k) \notin Blocks \ bits
<1> DEFINE i == upToStart
           u == firstUsed(bits, i)
<1>1. Total \in Nat /\ Modulus \in Nat /\ Total < Modulus /\ k \in Nat \ {0} /\ hint \in Nat /\ Padding \subseteq bits
  BY SizeAssumption DEF ScanInv, PaddingUsed, TypeOK, Word
<1>2. i \in Blocks /\ i \notin bits /\ i >= hint
  BY <1>1, FirstFreeIsExact DEF upToStart, Blocks
<1>3. \A j \in Blocks : j < i => j \in bits
  BY <1>1, FirstFreeIsExact DEF upToStart, Blocks, ScanInv, HintExact
<1>4. /\ u \in i .. Total
      /\ \A j \in i .. u - 1 : j \notin bits
      /\ u < Total => u \in bits
  BY <1>2, FirstUsedIsExact
<1>5. upToLen(k) = Lesser(u - i, k)
  BY DEF upToLen
<1> HIDE DEF i, u
<1>6. u > i
  BY <1>1, <1>2, <1>4 DEF Blocks
<1>7. upToLen(k) \in 1 .. k /\ i + upToLen(k) <= u /\ (upToLen(k) < k => i + upToLen(k) = u)
  BY <1>1, <1>2, <1>4, <1>5, <1>6 DEF Lesser, Blocks
<1>8. RunBlocks(i, upToLen(k)) \subseteq Blocks \ bits
  BY <1>1, <1>2, <1>4, <1>7 DEF RunBlocks, Blocks
<1>9. i \in Word /\ upToLen(k) \in Word /\ Run(i, upToLen(k)) \in RunSet /\ i + upToLen(k) <= Total
  <2>1. i \in Word /\ upToLen(k) \in Word /\ upToLen(k) \in 1 .. Total /\ i + upToLen(k) <= Total
    BY <1>1, <1>2, <1>4, <1>7 DEF Word, Blocks
  <2> QED BY <1>2, <2>1, RunInRange
<1>10. Visited(i, upToLen(k)) = RunBlocks(i, upToLen(k))
  BY <1>9, VisitedInRange
<1>11. \A t \in Blocks \ bits : i <= t
  BY <1>1, <1>2, <1>3 DEF Blocks
<1>12. upToLen(k) < k => i + upToLen(k) \notin Blocks \ bits
  BY <1>1, <1>4, <1>7 DEF Blocks
<1> QED BY <1>7, <1>8, <1>9, <1>10, <1>11, <1>12 DEF i

\* A run in the range has its blocks in the range.
LEMMA RunSetBlocks ==
    ASSUME NEW r \in RunSet
    PROVE  /\ r.start \in Word /\ r.len \in Word /\ r.len >= 1 /\ r.start + r.len <= Total
           /\ BlocksOf(r) \subseteq Blocks
           /\ r = Run(r.start, r.len)
<1>1. r \in [start : Blocks, len : 1 .. Total] /\ r.start + r.len <= Total
  BY DEF RunSet
<1>2. r.start \in Blocks /\ r.len \in 1 .. Total /\ r = Run(r.start, r.len)
  BY <1>1 DEF Run
<1>3. r.start \in Word /\ r.len \in Word /\ r.len >= 1
  BY <1>2, SizeAssumption DEF Word, Blocks
<1>4. BlocksOf(r) \subseteq Blocks
  BY <1>1, <1>2, SizeAssumption DEF BlocksOf, RunBlocks, Blocks
<1> QED BY <1>1, <1>2, <1>3, <1>4

\* What the loop asks for is positive and within what is missing and maxRun.
LEMMA WantedInRange ==
    ASSUME NEW l \in Nat \ {0}, NEW m \in Nat
    PROVE  /\ wanted(l, m) \in 1 .. l
           /\ m > 0 => wanted(l, m) <= m
BY DEF wanted

\* A run AllocRuns obtains keeps the types and the hint.
LEMMA ObtainKeepsScan ==
    ASSUME ScanInv, pc = "probe", NEW s \in Word, NEW k \in Word, k \in 1 .. probe,
           Run(s, k) \in RunSet, Visited(s, k) \subseteq Blocks, Obtain(s, k)
    PROVE  ScanInv'
<1> DEFINE rs == Append(runs, Run(s, k))
<1>1. bits' \subseteq Slots /\ hint' \in 0 .. Total /\ PaddingUsed' /\ HintExact'
  BY TakeKeepsScan DEF Obtain
<1>2. runs \in Seq(RunSet) /\ left \in Word /\ maxRun \in Word /\ n \in Word /\ left > 0
  BY DEF ScanInv, TypeOK, ProbeOK
<1>3. rs \in Seq(RunSet) /\ \A i \in DOMAIN rs : rs[i] \in RunSet
  BY <1>2
<1> HIDE DEF rs
<1>4. CASE left - k > 0
  <2>1. /\ runs' = rs /\ left' = left - k /\ probe' = wanted(left - k, maxRun)
        /\ UNCHANGED <<pc, n, maxRun, iface, undo, before, ret, held, reserved>>
    BY <1>4 DEF Obtain, rs
  <2>2. left - k \in Word /\ left - k \in Nat \ {0} /\ maxRun \in Nat
    BY <1>2, <1>4, SizeAssumption DEF Word
  <2>3. probe' \in 1 .. left' /\ probe' \in 1 .. wanted(left', maxRun')
    <3>1. wanted(left - k, maxRun) \in 1 .. left - k
      BY <2>2, WantedInRange
    <3>2. wanted(left', maxRun') = wanted(left - k, maxRun)
      BY <2>1
    <3> QED BY <2>1, <2>2, <3>1, <3>2
  <2>4. probe' \in Word
    BY <2>1, <2>2, <2>3, SizeAssumption DEF Word
  <2>5. TypeOK'
    BY <1>1, <1>2, <1>3, <2>1, <2>2, <2>4 DEF ScanInv, TypeOK
  <2>6. ProbeOK'
    BY <2>1, <2>2, <2>3 DEF ProbeOK
  <2> QED BY <1>1, <2>5, <2>6 DEF ScanInv
<1>5. CASE ~(left - k > 0)
  <2>1. /\ Leave /\ ret' = Granted(n, RunsBlocks(rs))
        /\ held' = held \cup {rs[i] : i \in DOMAIN rs}
        /\ UNCHANGED reserved
    BY <1>5 DEF Obtain, rs
  <2>2. RunsBlocks(rs) \subseteq Blocks
    BY <1>3, RunSetBlocks DEF RunsBlocks
  <2>3. ret' \in [err : {"nil", "noSpace", "zeroLen", "outOfRange"}, n : Word, blocks : SUBSET Blocks]
    BY <1>2, <2>1, <2>2 DEF Granted
  <2>4. held' \subseteq RunSet
    BY <1>3, <2>1 DEF ScanInv, TypeOK
  <2>5. 0 \in Word
    BY SizeAssumption DEF Word
  <2>6. TypeOK'
    BY <1>1, <2>1, <2>3, <2>4, <2>5 DEF ScanInv, TypeOK, Leave, Ifaces
  <2>7. ProbeOK'
    BY <2>1 DEF Leave, ProbeOK
  <2> QED BY <1>1, <2>6, <2>7 DEF ScanInv
<1> QED BY <1>4, <1>5

\* Type correctness and the exactness of the hint are inductive together with
\* the padding and the bounds on the probe.
LEMMA ScanInvInductive == ScanInv /\ [Next]_vars => ScanInv'
<1> DEFINE Replies == [err : {"nil", "noSpace", "zeroLen", "outOfRange"}, n : Word, blocks : SUBSET Blocks]
<1> SUFFICES ASSUME ScanInv, [Next]_vars
             PROVE  ScanInv'
  OBVIOUS
<1>0. /\ Requests \subseteq Word /\ MaxRuns \subseteq Word /\ 0 \in Word
      /\ Total \in Nat /\ Modulus \in Nat /\ Total < Modulus
  BY SizeAssumption DEF Word
<1>R. \A k \in Word, S \in SUBSET Blocks :
          /\ Granted(k, S) \in Replies
          /\ \A e \in {"noSpace", "zeroLen", "outOfRange"} : Refused(k, e) \in Replies
  BY DEF Granted, Refused
<1>1. ASSUME NEW k \in Requests, Alloc(k)
      PROVE  ScanInv'
  <2>0. k \in Word /\ UNCHANGED <<jobVars, reserved>> /\ pc = "idle"
    BY <1>0, <1>1 DEF Alloc
  <2>1. CASE UNCHANGED <<bits, hint, held>> /\ ret' \in Replies
    BY <2>0, <2>1 DEF ScanInv, TypeOK, PaddingUsed, HintExact, ProbeOK, jobVars
  <2>2. CASE k # 0 /\ Candidates(bits, hint, k) # {}
    <3> DEFINE i == Least(Candidates(bits, hint, k))
    <3>1. take(i, k) /\ ret' = Granted(k, RunBlocks(i, k)) /\ held' = held \cup {Run(i, k)}
      BY <1>1, <2>2 DEF Alloc
    <3> HIDE DEF i
    <3>2. /\ Run(i, k) \in RunSet /\ i \in Word
          /\ Visited(i, k) = RunBlocks(i, k)
          /\ RunBlocks(i, k) \subseteq Blocks
      BY <2>0, <2>2, AllocRunIsFree DEF i
    <3>3. bits' \subseteq Slots /\ hint' \in 0 .. Total /\ PaddingUsed' /\ HintExact'
      BY <2>0, <3>1, <3>2, TakeKeepsScan
    <3>4. ret' \in Replies
      BY <1>R, <2>0, <3>1, <3>2
    <3>5. held' \subseteq RunSet
      BY <3>1, <3>2 DEF ScanInv, TypeOK
    <3> QED BY <2>0, <3>3, <3>4, <3>5 DEF ScanInv, TypeOK, ProbeOK, jobVars
  <2> QED BY <1>0, <1>1, <1>R, <2>0, <2>1, <2>2 DEF Alloc
<1>2. ASSUME NEW k \in Requests, AllocUpTo(k)
      PROVE  ScanInv'
  <2>0. k \in Word /\ UNCHANGED <<jobVars, reserved>> /\ pc = "idle"
    BY <1>0, <1>2 DEF AllocUpTo
  <2>1. CASE UNCHANGED <<bits, hint, held>> /\ ret' \in Replies
    BY <2>0, <2>1 DEF ScanInv, TypeOK, PaddingUsed, HintExact, ProbeOK, jobVars
  <2>2. CASE k # 0 /\ upToStart < Total
    <3> DEFINE i == upToStart
               g == upToLen(k)
    <3>1. take(i, g) /\ ret' = Granted(k, RunBlocks(i, g)) /\ held' = held \cup {Run(i, g)}
      <4>1. hint \in Nat /\ Padding \subseteq bits
        BY <1>0 DEF ScanInv, TypeOK, PaddingUsed
      <4>2. upToStart \in 0 .. Total
        BY <4>1, FirstFreeIsExact DEF upToStart
      <4>3. ~(upToStart >= Total)
        BY <1>0, <2>2, <4>2
      <4> QED BY <1>2, <2>2, <4>3 DEF AllocUpTo
    <3>2. /\ Run(i, g) \in RunSet /\ i \in Word /\ g \in Word
          /\ Visited(i, g) = RunBlocks(i, g)
          /\ RunBlocks(i, g) \subseteq Blocks
      BY <2>0, <2>2, UpToRunIsFree
    <3> HIDE DEF i, g
    <3>3. bits' \subseteq Slots /\ hint' \in 0 .. Total /\ PaddingUsed' /\ HintExact'
      BY <3>1, <3>2, TakeKeepsScan
    <3>4. ret' \in Replies
      BY <1>R, <2>0, <3>1, <3>2
    <3>5. held' \subseteq RunSet
      BY <3>1, <3>2 DEF ScanInv, TypeOK
    <3> QED BY <2>0, <3>3, <3>4, <3>5 DEF ScanInv, TypeOK, ProbeOK, jobVars
  <2> QED BY <1>0, <1>2, <1>R, <2>0, <2>1, <2>2 DEF AllocUpTo
<1>3. ASSUME NEW s \in Word, NEW k \in Word, Free(s, k)
      PROVE  ScanInv'
  <2>0. UNCHANGED <<jobVars, reserved>> /\ pc = "idle"
    BY <1>3 DEF Free
  <2>1. CASE Add(s, k) <= Total
    <3>1. release(s, k) /\ ret' = Granted(0, {}) /\ held' = held \ {Run(s, k)}
      BY <1>0, <1>3, <2>1 DEF Free, Add, Word
    <3>2. bits' \subseteq Slots /\ hint' \in 0 .. Total /\ PaddingUsed' /\ HintExact'
      BY <2>1, <3>1, VisitedInBlocks, ReleaseKeepsScan
    <3>3. ret' \in Replies
      BY <1>0, <1>R, <3>1
    <3> QED BY <2>0, <3>1, <3>2, <3>3 DEF ScanInv, TypeOK, ProbeOK, jobVars
  <2>2. CASE ~(Add(s, k) <= Total)
    <3>1. ret' = Refused(0, "outOfRange") /\ UNCHANGED <<bits, hint, held>>
      BY <1>0, <1>3, <2>2 DEF Free, Add, Word
    <3>2. ret' \in Replies
      BY <1>0, <1>R, <3>1
    <3> QED BY <2>0, <3>1, <3>2 DEF ScanInv, TypeOK, PaddingUsed, HintExact, ProbeOK, jobVars
  <2> QED BY <2>1, <2>2
<1>4. ASSUME NEW s \in Word, NEW k \in Word, Reserve(s, k)
      PROVE  ScanInv'
  <2>0. UNCHANGED <<jobVars, held>> /\ pc = "idle"
    BY <1>4 DEF Reserve
  <2>1. CASE Add(s, k) <= Total
    <3>1. take(s, k) /\ ret' = Granted(0, {}) /\ reserved' = reserved \cup Visited(s, k)
      BY <1>0, <1>4, <2>1 DEF Reserve, Add, Word
    <3>2. Visited(s, k) \subseteq Blocks
      BY <2>1, VisitedInBlocks
    <3>3. bits' \subseteq Slots /\ hint' \in 0 .. Total /\ PaddingUsed' /\ HintExact'
      BY <3>1, <3>2, TakeKeepsScan
    <3>4. ret' \in Replies
      BY <1>0, <1>R, <3>1
    <3>5. reserved' \subseteq Blocks
      BY <3>1, <3>2 DEF ScanInv, TypeOK
    <3> QED BY <2>0, <3>3, <3>4, <3>5 DEF ScanInv, TypeOK, ProbeOK, jobVars
  <2>2. CASE ~(Add(s, k) <= Total)
    <3>1. ret' = Refused(0, "outOfRange") /\ UNCHANGED <<bits, hint, reserved>>
      BY <1>0, <1>4, <2>2 DEF Reserve, Add, Word
    <3>2. ret' \in Replies
      BY <1>0, <1>R, <3>1
    <3> QED BY <2>0, <3>1, <3>2 DEF ScanInv, TypeOK, PaddingUsed, HintExact, ProbeOK, jobVars
  <2> QED BY <2>1, <2>2
<1>5. ASSUME NEW k \in Requests, NEW m \in MaxRuns, NEW f \in Ifaces, AllocRuns(k, m, f)
      PROVE  ScanInv'
  <2>0. UNCHANGED <<bits, hint, held, reserved>>
    BY <1>5 DEF AllocRuns, bitmapVars
  <2>1. CASE k = 0
    <3>1. ret' = Granted(0, {}) /\ UNCHANGED jobVars
      BY <1>5, <2>1 DEF AllocRuns
    <3>2. ret' \in Replies
      BY <1>0, <1>R, <3>1
    <3> QED BY <2>0, <3>1, <3>2 DEF ScanInv, TypeOK, PaddingUsed, HintExact, ProbeOK, jobVars
  <2>2. CASE k # 0
    <3>1. /\ pc' = "probe" /\ n' = k /\ maxRun' = m /\ iface' = f /\ left' = k /\ runs' = <<>>
          /\ probe' = wanted(k, m) /\ undo' = 1 /\ before' = bits /\ UNCHANGED ret
      BY <1>5, <2>2 DEF AllocRuns
    <3>2. k \in Word /\ m \in Word /\ k \in Nat \ {0} /\ m \in Nat
      BY <1>0, <2>2 DEF Word
    <3>3. wanted(k, m) \in 1 .. k
      BY <3>2, WantedInRange
    <3>4. wanted(k, m) \in Word
      BY <1>0, <3>2, <3>3 DEF Word
    <3>5. TypeOK'
      BY <2>0, <3>1, <3>2, <3>4 DEF ScanInv, TypeOK
    <3>6. ProbeOK'
      BY <3>1, <3>2, <3>3 DEF ProbeOK
    <3> QED BY <2>0, <3>5, <3>6 DEF ScanInv, PaddingUsed, HintExact
  <2> QED BY <2>1, <2>2
<1>P. pc = "probe" => /\ probe \in Word \ {0} /\ probe \in 1 .. probe
                      /\ left \in Nat \ {0} /\ maxRun \in Nat
  BY <1>0 DEF ScanInv, TypeOK, ProbeOK, Word
<1>6. CASE ProbeFits
  <2> DEFINE i == Least(Candidates(bits, hint, probe))
  <2>1. pc = "probe" /\ Candidates(bits, hint, probe) # {} /\ Obtain(i, probe)
    BY <1>6 DEF ProbeFits
  <2> HIDE DEF i
  <2>2. Run(i, probe) \in RunSet /\ i \in Word /\ Visited(i, probe) \subseteq Blocks
    BY <1>P, <2>1, AllocRunIsFree DEF i
  <2> QED BY <1>P, <2>1, <2>2, ObtainKeepsScan
<1>7. CASE ProbeUpTo
  <2>1. pc = "probe" /\ upToStart < Total /\ Obtain(upToStart, upToLen(probe))
    BY <1>7 DEF ProbeUpTo
  <2>2. /\ Run(upToStart, upToLen(probe)) \in RunSet /\ upToStart \in Word
        /\ upToLen(probe) \in Word /\ upToLen(probe) \in 1 .. probe
        /\ Visited(upToStart, upToLen(probe)) \subseteq Blocks
    BY <1>P, <2>1, UpToRunIsFree
  <2> QED BY <2>1, <2>2, ObtainKeepsScan
<1>8. CASE ProbeHalve
  <2>1. /\ pc = "probe" /\ probe \div 2 > 0 /\ probe' = probe \div 2
        /\ UNCHANGED <<bits, hint, pc, n, maxRun, iface, left, runs, undo, ret, held, reserved, before>>
    BY <1>8 DEF ProbeHalve, halved, bitmapVars
  <2>2. probe' \in 1 .. probe /\ probe' \in Word
    BY <1>0, <1>P, <2>1 DEF Word
  <2>3. wanted(left, maxRun) \in Nat /\ probe <= wanted(left, maxRun)
    BY <1>P, <2>1, WantedInRange DEF ScanInv, ProbeOK
  <2>4. ProbeOK'
    BY <1>P, <2>1, <2>2, <2>3 DEF ProbeOK, wanted
  <2>5. TypeOK'
    BY <2>1, <2>2 DEF ScanInv, TypeOK
  <2> QED BY <2>1, <2>4, <2>5 DEF ScanInv, PaddingUsed, HintExact
<1>9. CASE ProbeFails
  BY <1>9 DEF ProbeFails, ScanInv, TypeOK, PaddingUsed, HintExact, ProbeOK, bitmapVars
<1>10. CASE Rollback
  <2>0. pc = "rollback" /\ UNCHANGED <<held, reserved>>
    BY <1>10 DEF Rollback
  <2>1. CASE undo <= Len(runs)
    <3> DEFINE r == runs[undo]
    <3>1. /\ release(r.start, r.len) /\ undo' = undo + 1
          /\ UNCHANGED <<pc, n, maxRun, iface, left, runs, probe, before, ret>>
      BY <1>10, <2>1 DEF Rollback
    <3>2. r \in RunSet
      BY <2>1 DEF ScanInv, TypeOK
    <3> HIDE DEF r
    <3>3. r.start \in Word /\ r.len \in Word /\ Visited(r.start, r.len) \subseteq Blocks
      BY <3>2, RunSetBlocks, VisitedInRange DEF BlocksOf
    <3>4. bits' \subseteq Slots /\ hint' \in 0 .. Total /\ PaddingUsed' /\ HintExact'
      BY <3>1, <3>3, ReleaseKeepsScan
    <3>5. TypeOK'
      BY <2>0, <3>1, <3>4 DEF ScanInv, TypeOK
    <3>6. ProbeOK'
      BY <2>0, <3>1 DEF ProbeOK
    <3> QED BY <3>4, <3>5, <3>6 DEF ScanInv
  <2>2. CASE ~(undo <= Len(runs))
    <3>1. Leave /\ ret' = Refused(n, "noSpace") /\ UNCHANGED <<bits, hint>>
      BY <1>10, <2>2 DEF Rollback, bitmapVars
    <3>2. ret' \in Replies
      BY <1>R, <3>1 DEF ScanInv, TypeOK
    <3> QED BY <1>0, <2>0, <3>1, <3>2 DEF Leave, Ifaces, ScanInv, TypeOK, PaddingUsed, HintExact, ProbeOK
  <2> QED BY <2>1, <2>2
<1>11. CASE UNCHANGED vars
  BY <1>11 DEF vars, jobVars, ScanInv, TypeOK, PaddingUsed, HintExact, ProbeOK
<1> QED BY <1>1, <1>2, <1>3, <1>4, <1>5, <1>6, <1>7, <1>8, <1>9, <1>10, <1>11 DEF Next, Step

\* The initial bitmap satisfies it.
LEMMA ScanInvInit == Init => ScanInv
<1> SUFFICES ASSUME Init PROVE ScanInv
  OBVIOUS
<1>1. Total \in Nat /\ Capacity \in Nat /\ 0 \in Word /\ Total <= Capacity
  BY SizeAssumption DEF Word
<1>2. Padding \subseteq Slots
  BY <1>1 DEF Padding, Slots
<1>3. ret \in [err : {"nil", "noSpace", "zeroLen", "outOfRange"}, n : Word, blocks : SUBSET Blocks]
  BY <1>1 DEF Init, Granted
<1>4. TypeOK
  BY <1>1, <1>2, <1>3 DEF Init, NewBitmap, TypeOK, Ifaces
<1>5. HintExact
  BY <1>1 DEF Init, NewBitmap, HintExact, Blocks
<1> QED BY <1>4, <1>5 DEF Init, NewBitmap, ScanInv, PaddingUsed, ProbeOK

\* Every reachable state is well typed: in particular no run ever leaves the
\* managed range although the scans work on whole words.
THEOREM TypeCorrect == Spec => []TypeOK
<1>1. ScanInv => TypeOK
  BY DEF ScanInv
<1> QED BY <1>1, ScanInvInit, ScanInvInductive, PTL DEF Spec

\* No block below the hint is ever free, so starting the scans there is exact.
THEOREM HintIsExact == Spec => []HintExact
<1>1. ScanInv => HintExact
  BY DEF ScanInv
<1> QED BY <1>1, ScanInvInit, ScanInvInductive, PTL DEF Spec
-----------------------------------------------------------------------------
(* The ledger. *)

Lent == held \cup InFlight

\* The ledger, as a relation between a bitmap, the reserved blocks and the
\* runs on loan.
Books(b, res, H) ==
    /\ b = Padding \cup res \cup UNION {BlocksOf(r) : r \in H}
    /\ \A r, s \in H : r # s => BlocksOf(r) \cap BlocksOf(s) = {}
    /\ \A r \in H : BlocksOf(r) \cap res = {}

\* What the ledger needs to be inductive: AllocRuns releases only when it has
\* failed, and no run is in its list twice or held by a caller as well, so
\* that releasing one takes exactly one entry off the books.
RunsOK ==
    /\ held \cap InFlight = {}
    /\ \A i, j \in undo .. Len(runs) : i # j => runs[i] # runs[j]
    /\ pc = "probe" => undo = 1

LedgerInv == ScanInv /\ Ledger /\ RunsOK

\* The ledger says that the books of the runs on loan are in order, before a
\* step and after it.
LEMMA LedgerIsBooks ==
    /\ Ledger <=> Books(bits, reserved, Lent)
    /\ Ledger' <=> Books(bits', reserved', Lent')
<1>1. HeldBlocks \cup InFlightBlocks = UNION {BlocksOf(r) : r \in Lent}
  BY DEF HeldBlocks, InFlightBlocks, Lent
<1>2. HeldBlocks' \cup InFlightBlocks' = UNION {BlocksOf(r) : r \in Lent'}
  BY DEF HeldBlocks, InFlightBlocks, Lent
<1>3. Ledger <=> Books(bits, reserved, Lent)
  BY <1>1 DEF Ledger, Books, Lent
<1>4. Ledger' <=> Books(bits', reserved', Lent')
  BY <1>2 DEF Ledger, Books, Lent
<1> QED BY <1>3, <1>4

\* Lending a free run keeps the books.
LEMMA LendKeepsBooks ==
    ASSUME NEW b, NEW res, NEW H, NEW q, Books(b, res, H), BlocksOf(q) \cap b = {}
    PROVE  Books(b \cup BlocksOf(q), res, H \cup {q})
<1>1. b \cup BlocksOf(q) = Padding \cup res \cup UNION {BlocksOf(r) : r \in H \cup {q}}
  BY DEF Books
<1>2. \A r \in H : BlocksOf(r) \subseteq b
  BY DEF Books
<1>3. res \subseteq b
  BY DEF Books
<1> QED BY <1>1, <1>2, <1>3 DEF Books

\* Taking back a run that is on loan keeps the books.
LEMMA ReturnKeepsBooks ==
    ASSUME NEW b, NEW res, NEW H, NEW q \in H, Books(b, res, H),
           BlocksOf(q) \cap Padding = {}
    PROVE  Books(b \ BlocksOf(q), res, H \ {q})
<1>1. \A r \in H \ {q} : BlocksOf(r) \cap BlocksOf(q) = {}
  BY DEF Books
<1>2. b \ BlocksOf(q) = Padding \cup res \cup UNION {BlocksOf(r) : r \in H \ {q}}
  BY <1>1 DEF Books
<1> QED BY <1>2 DEF Books

\* A run in the range lies outside the padding and is not empty.
LEMMA RunSetOutsidePadding ==
    ASSUME NEW r \in RunSet
    PROVE  BlocksOf(r) \cap Padding = {} /\ BlocksOf(r) # {}
<1>1. r.start \in Word /\ r.len \in Word /\ r.len >= 1 /\ BlocksOf(r) \subseteq Blocks
  BY RunSetBlocks
<1>2. BlocksOf(r) \cap Padding = {}
  BY <1>1, SizeAssumption DEF Blocks, Padding
<1>3. r.start \in BlocksOf(r)
  BY <1>1, SizeAssumption DEF BlocksOf, RunBlocks, Word
<1> QED BY <1>2, <1>3

\* A run of free blocks is on no caller's books.
LEMMA FreeRunIsNotLent ==
    ASSUME LedgerInv, NEW q \in RunSet, BlocksOf(q) \cap bits = {}
    PROVE  q \notin Lent
<1>1. \A r \in Lent : BlocksOf(r) \subseteq bits
  BY LedgerIsBooks DEF LedgerInv, Books
<1> QED BY <1>1, RunSetOutsidePadding

\* Alloc and AllocUpTo: one more run is held.
LEMMA LoanKeepsLedger ==
    ASSUME LedgerInv, pc = "idle", NEW q \in RunSet, BlocksOf(q) \cap bits = {},
           bits' = bits \cup BlocksOf(q), held' = held \cup {q},
           UNCHANGED <<jobVars, reserved>>
    PROVE  Ledger' /\ RunsOK'
<1>1. InFlight = {} /\ InFlight' = {}
  BY DEF InFlight, jobVars
<1>2. Lent' = Lent \cup {q}
  BY <1>1 DEF Lent
<1>3. Books(bits', reserved', Lent')
  BY <1>2, LedgerIsBooks, LendKeepsBooks DEF LedgerInv
<1>4. Ledger'
  BY <1>3, LedgerIsBooks
<1> QED BY <1>1, <1>4 DEF RunsOK, LedgerInv, jobVars

\* AllocRuns: the run goes to its list, or with the list to the caller.
LEMMA ObtainKeepsLedger ==
    ASSUME LedgerInv, pc = "probe", NEW s \in Word, NEW k \in Word,
           Run(s, k) \in RunSet, Visited(s, k) = RunBlocks(s, k),
           RunBlocks(s, k) \cap bits = {}, Obtain(s, k)
    PROVE  Ledger' /\ RunsOK'
<1> DEFINE q == Run(s, k)
           rs == Append(runs, q)
<1>0. q \in RunSet /\ BlocksOf(q) = RunBlocks(s, k)
  BY DEF BlocksOf, Run
<1>1. bits' = bits \cup BlocksOf(q) /\ reserved' = reserved
  BY <1>0 DEF Obtain, take
<1>2. runs \in Seq(RunSet) /\ undo = 1 /\ InFlight = {runs[i] : i \in 1 .. Len(runs)}
  BY DEF LedgerInv, ScanInv, TypeOK, RunsOK, InFlight
<1>3. q \notin Lent
  BY <1>0, FreeRunIsNotLent
<1> HIDE DEF q
<1>4. /\ Len(rs) = Len(runs) + 1 /\ Len(runs) \in Nat /\ DOMAIN rs = 1 .. Len(rs)
      /\ rs[Len(rs)] = q /\ \A i \in 1 .. Len(runs) : rs[i] = runs[i]
  BY <1>0, <1>2
<1> HIDE DEF rs
<1>5. {rs[i] : i \in 1 .. Len(rs)} = InFlight \cup {q}
  BY <1>2, <1>4
<1>6. CASE left - k > 0
  <2>1. runs' = rs /\ UNCHANGED <<pc, undo, held>>
    BY <1>6 DEF Obtain, rs, q
  <2>2. InFlight' = InFlight \cup {q}
    BY <1>2, <1>5, <2>1 DEF InFlight
  <2>3. Lent' = Lent \cup {q}
    BY <2>1, <2>2 DEF Lent
  <2>4. Ledger'
    BY <1>0, <1>1, <2>3, LedgerIsBooks, LendKeepsBooks DEF LedgerInv
  <2>5. \A i \in 1 .. Len(runs) : runs[i] # q
    BY <1>2, <1>3 DEF Lent
  <2>6. \A i, j \in undo' .. Len(runs') : i # j => runs'[i] # runs'[j]
    <3> SUFFICES ASSUME NEW i \in 1 .. Len(rs), NEW j \in 1 .. Len(rs), i # j
                 PROVE  rs[i] # rs[j]
      BY <1>2, <2>1
    <3>1. i \in 1 .. Len(runs) \/ j \in 1 .. Len(runs)
      BY <1>4
    <3>2. CASE i \in 1 .. Len(runs) /\ j \in 1 .. Len(runs)
      BY <1>2, <1>4, <3>2 DEF LedgerInv, RunsOK
    <3>3. CASE i = Len(rs) \/ j = Len(rs)
      BY <1>4, <2>5, <3>1, <3>3
    <3> QED BY <1>4, <3>2, <3>3
  <2>7. held' \cap InFlight' = {}
    BY <1>3, <2>1, <2>2 DEF LedgerInv, RunsOK, Lent
  <2> QED BY <1>2, <2>1, <2>4, <2>6, <2>7 DEF RunsOK
<1>7. CASE ~(left - k > 0)
  <2>1. Leave /\ held' = held \cup {rs[i] : i \in DOMAIN rs}
    BY <1>7 DEF Obtain, rs, q
  <2>2. InFlight' = {} /\ Lent' = Lent \cup {q}
    BY <1>4, <1>5, <2>1 DEF InFlight, Lent, Leave
  <2>3. Ledger'
    BY <1>0, <1>1, <2>2, LedgerIsBooks, LendKeepsBooks DEF LedgerInv
  <2> QED BY <2>1, <2>2, <2>3 DEF RunsOK, Leave
<1> QED BY <1>6, <1>7
\* Every step keeps the ledger.
LEMMA LedgerInvInductive == LedgerInv /\ [Next]_vars => LedgerInv'
<1> SUFFICES ASSUME LedgerInv, [Next]_vars
             PROVE  Ledger' /\ RunsOK'
  BY ScanInvInductive DEF LedgerInv
<1>0. /\ ScanInv /\ Requests \subseteq Word
      /\ Total \in Nat /\ Modulus \in Nat /\ Total < Modulus
      /\ held \subseteq RunSet /\ runs \in Seq(RunSet)
  BY SizeAssumption DEF LedgerInv, ScanInv, TypeOK, Word
<1>U. ASSUME UNCHANGED <<bits, held, reserved, jobVars>>
      PROVE  Ledger' /\ RunsOK'
  <2>1. InFlight' = InFlight /\ Lent' = Lent
    BY <1>U DEF InFlight, Lent, jobVars
  <2>2. Ledger'
    BY <1>U, <2>1, LedgerIsBooks DEF LedgerInv
  <2> QED BY <1>U, <2>1, <2>2 DEF LedgerInv, RunsOK, jobVars
<1>1. ASSUME NEW k \in Requests, Alloc(k)
      PROVE  Ledger' /\ RunsOK'
  <2>1. k \in Word /\ UNCHANGED <<jobVars, reserved>> /\ pc = "idle"
    BY <1>0, <1>1 DEF Alloc
  <2>2. CASE k # 0 /\ Candidates(bits, hint, k) # {}
    <3> DEFINE i == Least(Candidates(bits, hint, k))
    <3>1. take(i, k) /\ held' = held \cup {Run(i, k)}
      BY <1>1, <2>2 DEF Alloc
    <3> HIDE DEF i
    <3>2. /\ Run(i, k) \in RunSet /\ Visited(i, k) = RunBlocks(i, k)
          /\ RunBlocks(i, k) \cap bits = {}
      BY <1>0, <2>1, <2>2, AllocRunIsFree DEF i
    <3>3. BlocksOf(Run(i, k)) = RunBlocks(i, k)
      BY DEF BlocksOf, Run
    <3> QED BY <2>1, <3>1, <3>2, <3>3, LoanKeepsLedger DEF take
  <2>3. CASE ~(k # 0 /\ Candidates(bits, hint, k) # {})
    BY <1>1, <1>U, <2>1, <2>3 DEF Alloc
  <2> QED BY <2>2, <2>3
<1>2. ASSUME NEW k \in Requests, AllocUpTo(k)
      PROVE  Ledger' /\ RunsOK'
  <2>1. k \in Word /\ UNCHANGED <<jobVars, reserved>> /\ pc = "idle"
    BY <1>0, <1>2 DEF AllocUpTo
  <2>2. CASE k # 0 /\ upToStart < Total
    <3> DEFINE i == upToStart
               g == upToLen(k)
    <3>1. /\ Run(i, g) \in RunSet /\ Visited(i, g) = RunBlocks(i, g)
          /\ RunBlocks(i, g) \cap bits = {} /\ i \in Word
      BY <1>0, <2>1, <2>2, UpToRunIsFree
    <3>2. ~(upToStart >= Total)
      BY <1>0, <2>2, <3>1 DEF Word
    <3>3. take(i, g) /\ held' = held \cup {Run(i, g)}
      BY <1>2, <2>2, <3>2 DEF AllocUpTo
    <3>4. BlocksOf(Run(i, g)) = RunBlocks(i, g)
      BY DEF BlocksOf, Run
    <3> HIDE DEF i, g
    <3> QED BY <2>1, <3>1, <3>3, <3>4, LoanKeepsLedger DEF take
  <2>3. CASE ~(k # 0 /\ upToStart < Total)
    BY <1>2, <1>U, <2>1, <2>3 DEF AllocUpTo
  <2> QED BY <2>2, <2>3
<1>3. ASSUME NEW s \in Word, NEW k \in Word, Free(s, k)
      PROVE  Ledger' /\ RunsOK'
  <2>0. UNCHANGED <<jobVars, reserved>> /\ pc = "idle"
    BY <1>3 DEF Free
  <2>1. CASE ~(Add(s, k) <= Total)
    BY <1>0, <1>3, <1>U, <2>0, <2>1 DEF Free, Add, Word
  <2>2. CASE Add(s, k) <= Total
    <3>1. bits' = bits \ Visited(s, k) /\ held' = held \ {Run(s, k)}
      BY <1>0, <1>3, <2>2 DEF Free, Add, Word, release
    <3>2. CASE Run(s, k) \in held
      <4>1. Run(s, k) \in RunSet /\ Run(s, k).start = s /\ Run(s, k).len = k
        BY <1>0, <3>2 DEF Run
      <4>2. s + k <= Total
        BY <4>1 DEF RunSet
      <4>3. Visited(s, k) = BlocksOf(Run(s, k))
        BY <4>1, <4>2, VisitedInRange DEF BlocksOf
      <4>4. InFlight = {} /\ InFlight' = {}
        BY <2>0 DEF InFlight, jobVars
      <4>5. Lent' = Lent \ {Run(s, k)} /\ Run(s, k) \in Lent
        BY <3>1, <3>2, <4>4 DEF Lent
      <4>6. Ledger'
        BY <2>0, <3>1, <4>1, <4>3, <4>5, LedgerIsBooks, ReturnKeepsBooks, RunSetOutsidePadding
        DEF LedgerInv
      <4> QED BY <2>0, <4>4, <4>6 DEF LedgerInv, RunsOK, jobVars
    <3>3. CASE s + k > Total
      <4>1. Visited(s, k) = {}
        BY <1>0, <2>2, <3>3 DEF Visited, Add, Word
      <4>2. Run(s, k) \notin RunSet
        BY <1>0, <3>3 DEF RunSet, Run, Word
      <4> QED BY <1>0, <1>U, <2>0, <3>1, <4>1, <4>2
    <3> QED BY <1>3, <3>2, <3>3 DEF Free
  <2> QED BY <2>1, <2>2
<1>4. ASSUME NEW s \in Word, NEW k \in Word, Reserve(s, k)
      PROVE  Ledger' /\ RunsOK'
  <2>0. /\ UNCHANGED <<jobVars, held>> /\ pc = "idle"
        /\ \A r \in held : BlocksOf(r) \cap Visited(s, k) = {}
    BY <1>4 DEF Reserve
  <2>1. CASE ~(Add(s, k) <= Total)
    BY <1>0, <1>4, <1>U, <2>0, <2>1 DEF Reserve, Add, Word
  <2>2. CASE Add(s, k) <= Total
    <3>1. bits' = bits \cup Visited(s, k) /\ reserved' = reserved \cup Visited(s, k)
      BY <1>0, <1>4, <2>2 DEF Reserve, Add, Word, take
    <3>2. InFlight = {} /\ InFlight' = {} /\ Lent = held /\ Lent' = Lent
      BY <2>0 DEF InFlight, Lent, jobVars
    <3>3. Books(bits, reserved, Lent)
      BY LedgerIsBooks DEF LedgerInv
    <3>4. Books(bits \cup Visited(s, k), reserved \cup Visited(s, k), Lent)
      BY <2>0, <3>2, <3>3 DEF Books
    <3>5. Ledger'
      BY <3>1, <3>2, <3>4, LedgerIsBooks
    <3> QED BY <2>0, <3>2, <3>5 DEF LedgerInv, RunsOK, jobVars
  <2> QED BY <2>1, <2>2
<1>5. ASSUME NEW k \in Requests, NEW m \in MaxRuns, NEW f \in Ifaces, AllocRuns(k, m, f)
      PROVE  Ledger' /\ RunsOK'
  <2>0. UNCHANGED <<bits, held, reserved>> /\ pc = "idle"
    BY <1>5 DEF AllocRuns, bitmapVars
  <2>1. CASE k = 0
    BY <1>5, <1>U, <2>0, <2>1 DEF AllocRuns
  <2>2. CASE k # 0
    <3>1. runs' = <<>> /\ undo' = 1
      BY <1>5, <2>2 DEF AllocRuns
    <3>2. InFlight = {} /\ InFlight' = {}
      BY <2>0, <3>1 DEF InFlight
    <3>3. Ledger'
      BY <2>0, <3>2, LedgerIsBooks DEF LedgerInv, Lent
    <3> QED BY <3>1, <3>2, <3>3 DEF RunsOK
  <2> QED BY <2>1, <2>2
<1>P. pc = "probe" => probe \in Word \ {0}
  BY <1>0 DEF ScanInv, TypeOK, ProbeOK
<1>6. CASE ProbeFits
  <2> DEFINE i == Least(Candidates(bits, hint, probe))
  <2>1. pc = "probe" /\ Candidates(bits, hint, probe) # {} /\ Obtain(i, probe)
    BY <1>6 DEF ProbeFits
  <2> HIDE DEF i
  <2>2. /\ Run(i, probe) \in RunSet /\ i \in Word
        /\ Visited(i, probe) = RunBlocks(i, probe) /\ RunBlocks(i, probe) \cap bits = {}
    BY <1>0, <1>P, <2>1, AllocRunIsFree DEF i
  <2> QED BY <1>P, <2>1, <2>2, ObtainKeepsLedger
<1>7. CASE ProbeUpTo
  <2> DEFINE i == upToStart
             g == upToLen(probe)
  <2>1. pc = "probe" /\ i < Total /\ Obtain(i, g)
    BY <1>7 DEF ProbeUpTo
  <2>2. /\ Run(i, g) \in RunSet /\ i \in Word /\ g \in Word
        /\ Visited(i, g) = RunBlocks(i, g) /\ RunBlocks(i, g) \cap bits = {}
    BY <1>0, <1>P, <2>1, UpToRunIsFree
  <2> HIDE DEF i, g
  <2> QED BY <2>1, <2>2, ObtainKeepsLedger
<1>8. CASE ProbeHalve \/ ProbeFails
  <2>1. /\ UNCHANGED <<bits, held, reserved, runs, undo>> /\ pc = "probe"
        /\ pc' \in {"probe", "rollback"}
    BY <1>8 DEF ProbeHalve, ProbeFails, bitmapVars
  <2>2. InFlight' = InFlight /\ Lent' = Lent
    BY <2>1 DEF InFlight, Lent
  <2>3. Ledger'
    BY <2>1, <2>2, LedgerIsBooks DEF LedgerInv
  <2> QED BY <2>1, <2>2, <2>3 DEF LedgerInv, RunsOK
<1>9. CASE Rollback
  <2>0. pc = "rollback" /\ UNCHANGED <<held, reserved>> /\ undo \in Nat \ {0} /\ Len(runs) \in Nat
    BY <1>0, <1>9 DEF Rollback, ScanInv, TypeOK
  <2>1. CASE undo <= Len(runs)
    <3> DEFINE q == runs[undo]
    <3>1. bits' = bits \ Visited(q.start, q.len) /\ undo' = undo + 1 /\ UNCHANGED <<pc, runs>>
      BY <1>9, <2>1 DEF Rollback, release
    <3>2. q \in RunSet
      BY <1>0, <2>0, <2>1
    <3>3. Visited(q.start, q.len) = BlocksOf(q)
      BY <3>2, RunSetBlocks, VisitedInRange DEF BlocksOf
    <3>4. InFlight' = InFlight \ {q} /\ q \in InFlight
      BY <2>0, <2>1, <3>1 DEF InFlight, LedgerInv, RunsOK
    <3> HIDE DEF q
    <3>5. Lent' = Lent \ {q} /\ q \in Lent
      BY <2>0, <3>4 DEF Lent, LedgerInv, RunsOK
    <3>6. Ledger'
      BY <2>0, <3>1, <3>2, <3>3, <3>5, LedgerIsBooks, ReturnKeepsBooks, RunSetOutsidePadding
      DEF LedgerInv
    <3>7. \A i, j \in undo' .. Len(runs') : i # j => runs'[i] # runs'[j]
      BY <2>0, <3>1 DEF LedgerInv, RunsOK
    <3> QED BY <2>0, <3>1, <3>4, <3>6, <3>7 DEF LedgerInv, RunsOK
  <2>2. CASE ~(undo <= Len(runs))
    <3>1. Leave /\ UNCHANGED bits
      BY <1>9, <2>2 DEF Rollback, bitmapVars
    <3>2. InFlight = {} /\ InFlight' = {}
      BY <2>0, <2>2, <3>1 DEF InFlight, Leave
    <3>3. Ledger'
      BY <2>0, <3>1, <3>2, LedgerIsBooks DEF LedgerInv, Lent
    <3> QED BY <3>1, <3>2, <3>3 DEF RunsOK, Leave
  <2> QED BY <2>1, <2>2
<1>10. CASE UNCHANGED vars
  BY <1>10, <1>U DEF vars
<1> QED BY <1>1, <1>2, <1>3, <1>4, <1>5, <1>6, <1>7, <1>8, <1>9, <1>10 DEF Next, Step

\* The fresh bitmap lends nothing.
LEMMA LedgerInvInit == Init => LedgerInv
<1> SUFFICES ASSUME Init PROVE Ledger /\ RunsOK
  BY ScanInvInit DEF LedgerInv
<1>1. InFlight = {} /\ Lent = {} /\ reserved = {} /\ bits = Padding
  BY DEF Init, InFlight, Lent, NewBitmap
<1>2. Ledger
  BY <1>1, LedgerIsBooks DEF Books
<1> QED BY <1>1, <1>2 DEF Init, RunsOK

\* The bitmap accounts for every block exactly once, whatever the callers do:
\* no block is lent twice, and a rolled back AllocRuns leaks none.
THEOREM BlocksAccountedFor == Spec => []Ledger
<1>1. LedgerInv => Ledger
  BY DEF LedgerInv
<1> QED BY <1>1, LedgerInvInit, LedgerInvInductive, PTL DEF Spec

-----------------------------------------------------------------------------
(* AllocRuns and the promise to its callers. *)

\* What a call of AllocRuns relies on: it was asked for blocks, and nothing but the
\* call itself changes the bitmap until it returns.
CallOK ==
    pc # "idle" =>
        /\ n \in Requests \ {0}
        /\ before = Padding \cup reserved \cup HeldBlocks

JobInv == LedgerInv /\ CallOK /\ JobExact

-----------------------------------------------------------------------------
(* Counting blocks. *)

\* A run has as many blocks as its length says.
LEMMA RunCounts ==
    ASSUME NEW r \in RunSet
    PROVE  IsFiniteSet(BlocksOf(r)) /\ Cardinality(BlocksOf(r)) = r.len
<1>1. r.start \in Int /\ r.len \in Int /\ r.len >= 1
  BY RunSetBlocks, SizeAssumption DEF Word
<1>2. PICK a \in Int, b \in Int : a = r.start /\ b = r.start + r.len - 1
  BY <1>1
<1>3. BlocksOf(r) = a .. b /\ ~(a > b) /\ b - a + 1 = r.len
  BY <1>1, <1>2 DEF BlocksOf, RunBlocks
<1> QED BY <1>3, FS_Interval

\* The bitmap is finite.
LEMMA SlotsFinite ==
    ASSUME NEW S, S \subseteq Slots
    PROVE  IsFiniteSet(S)
<1>1. Capacity - 1 \in Int
  BY SizeAssumption
<1>2. IsFiniteSet(Slots)
  BY <1>1, FS_Interval DEF Slots
<1> QED BY <1>2, FS_Subset

\* While AllocRuns runs, what it has taken is what the bitmap has gained.
LEMMA TakenSinceCall ==
    ASSUME JobInv, pc # "idle"
    PROVE  before \subseteq bits /\ bits \ before = InFlightBlocks
<1>1. /\ before = Padding \cup reserved \cup HeldBlocks
      /\ bits = before \cup InFlightBlocks
  BY DEF JobInv, CallOK, LedgerInv, Ledger
<1>2. ASSUME NEW r \in InFlight
      PROVE  BlocksOf(r) \cap before = {}
  <2>1. r \in RunSet
    <3>1. runs \in Seq(RunSet) /\ undo \in Nat \ {0}
      BY DEF JobInv, LedgerInv, ScanInv, TypeOK
    <3>2. PICK i \in undo .. Len(runs) : r = runs[i]
      BY DEF InFlight
    <3>3. i \in 1 .. Len(runs)
      BY <3>1
    <3> QED BY <3>1, <3>2, <3>3
  <2>2. BlocksOf(r) \cap Padding = {}
    BY <2>1, RunSetOutsidePadding
  <2>3. BlocksOf(r) \cap reserved = {}
    BY DEF JobInv, LedgerInv, Ledger
  <2>4. ASSUME NEW s \in held
        PROVE  BlocksOf(r) \cap BlocksOf(s) = {}
    <3>1. r # s
      BY DEF JobInv, LedgerInv, RunsOK
    <3> QED BY <3>1 DEF JobInv, LedgerInv, Ledger
  <2> QED BY <1>1, <2>2, <2>3, <2>4 DEF HeldBlocks
<1>3. InFlightBlocks \cap before = {}
  BY <1>2 DEF InFlightBlocks
<1> QED BY <1>1, <1>3

\* AllocRuns gives up when no block is left.
LEMMA FailsOnlyWhenFull ==
    ASSUME JobInv, ProbeFails
    PROVE  Blocks \subseteq bits
<1>1. /\ pc = "probe" /\ Candidates(bits, hint, probe) = {} /\ HintExact
      /\ Padding \subseteq bits /\ hint \in Nat /\ Total \in Nat /\ probe \in Nat \ {0}
      /\ iface \in Ifaces
  BY SizeAssumption DEF ProbeFails, JobInv, LedgerInv, ScanInv, PaddingUsed, TypeOK, ProbeOK
<1>2. CASE iface = "RunAllocator"
  <2>1. upToStart >= Total
    BY <1>2 DEF ProbeFails
  <2>2. \A j \in Blocks : hint <= j /\ j < upToStart => j \in bits
    BY <1>1, FirstFreeIsExact DEF upToStart
  <2>3. upToStart \in Nat
    BY <1>1, FirstFreeIsExact DEF upToStart
  <2> QED BY <1>1, <2>1, <2>2, <2>3 DEF Blocks, HintExact
<1>3. CASE iface = "Allocator"
  <2>1. halved(probe) = 0
    BY <1>3 DEF ProbeFails
  <2>2. probe = 1
    BY <1>1, <2>1 DEF halved
  <2> SUFFICES ASSUME NEW t \in Blocks, t \notin bits
               PROVE  FALSE
    OBVIOUS
  <2>3. RunBlocks(t, 1) \subseteq Blocks \ bits
    BY <1>1 DEF RunBlocks, Blocks
  <2>4. \A j \in Blocks : j < hint => j \in bits
    BY <1>1 DEF HintExact
  <2>5. Candidates(bits, hint, 1) # {}
    BY <1>1, <2>3, <2>4, CandidatesAreFirstFit
  <2> QED BY <1>1, <2>2, <2>5
<1> QED BY <1>1, <1>2, <1>3 DEF Ifaces

-----------------------------------------------------------------------------
(* AllocRuns is exact. *)

\* What is known of the run a probe obtained.
LEMMA ProbedRun ==
    ASSUME JobInv, ProbeFits \/ ProbeUpTo
    PROVE  \E s \in Word, k \in Word :
              /\ Obtain(s, k) /\ pc = "probe" /\ k \in 1 .. probe
              /\ Run(s, k) \in RunSet /\ Visited(s, k) = RunBlocks(s, k)
              /\ RunBlocks(s, k) \subseteq Blocks \ bits
<1>0. ScanInv /\ pc = "probe" /\ probe \in Word \ {0} /\ probe \in 1 .. probe
  BY SizeAssumption DEF JobInv, LedgerInv, ScanInv, TypeOK, ProbeOK, ProbeFits, ProbeUpTo, Word
<1>1. CASE ProbeFits
  <2> DEFINE i == Least(Candidates(bits, hint, probe))
  <2>1. Candidates(bits, hint, probe) # {} /\ Obtain(i, probe)
    BY <1>1 DEF ProbeFits
  <2> HIDE DEF i
  <2>2. /\ Run(i, probe) \in RunSet /\ i \in Word
        /\ Visited(i, probe) = RunBlocks(i, probe) /\ RunBlocks(i, probe) \subseteq Blocks \ bits
    BY <1>0, <2>1, AllocRunIsFree DEF i
  <2> QED BY <1>0, <2>1, <2>2
<1>2. CASE ProbeUpTo
  <2> DEFINE i == upToStart
             g == upToLen(probe)
  <2>1. i < Total /\ Obtain(i, g)
    BY <1>2 DEF ProbeUpTo
  <2>2. /\ Run(i, g) \in RunSet /\ i \in Word /\ g \in Word /\ g \in 1 .. probe
        /\ Visited(i, g) = RunBlocks(i, g) /\ RunBlocks(i, g) \subseteq Blocks \ bits
    BY <1>0, <2>1, UpToRunIsFree
  <2> HIDE DEF i, g
  <2> QED BY <1>0, <2>1, <2>2
<1> QED BY <1>1, <1>2

\* What the call has taken with the run it obtained: the blocks, and their number.
LEMMA ObtainCounts ==
    ASSUME JobInv, pc = "probe", NEW s \in Word, NEW k \in Word, Obtain(s, k), k \in 1 .. probe,
           Run(s, k) \in RunSet, Visited(s, k) = RunBlocks(s, k),
           RunBlocks(s, k) \subseteq Blocks \ bits
    PROVE  /\ k <= left /\ left \in 1 .. n /\ n \in Nat /\ k \in Nat \ {0}
           /\ maxRun = 0 \/ k <= maxRun
           /\ bits' = bits \cup RunBlocks(s, k)
           /\ bits' \ before = InFlightBlocks \cup RunBlocks(s, k)
           /\ Cardinality(bits' \ before) = n - left + k
<1>1. /\ left \in 1 .. n /\ n \in Nat /\ left \in Nat \ {0} /\ maxRun \in Nat /\ k \in Nat \ {0}
      /\ probe \in 1 .. wanted(left, maxRun) /\ bits \subseteq Slots
      /\ Cardinality(bits \ before) = n - left
  BY SizeAssumption DEF JobInv, LedgerInv, ScanInv, TypeOK, ProbeOK, JobExact, Word
<1>2. k <= left /\ (maxRun = 0 \/ k <= maxRun)
  <2>1. wanted(left, maxRun) \in 1 .. left /\ (maxRun > 0 => wanted(left, maxRun) <= maxRun)
    BY <1>1, WantedInRange
  <2>2. PICK w : w = wanted(left, maxRun)
    OBVIOUS
  <2>3. w \in 1 .. left /\ (maxRun > 0 => w <= maxRun) /\ probe \in 1 .. w
    BY <1>1, <2>1, <2>2
  <2> QED BY <1>1, <2>3
<1>3. bits' = bits \cup RunBlocks(s, k)
  BY DEF Obtain, take
<1>4. before \subseteq bits /\ bits \ before = InFlightBlocks
  BY TakenSinceCall
<1>5. PICK old, new : old = bits \ before /\ new = RunBlocks(s, k)
  OBVIOUS
<1>6. bits' \ before = old \cup new /\ old \cap new = {}
  BY <1>3, <1>4, <1>5
<1>7. IsFiniteSet(old)
  BY <1>1, <1>5, SlotsFinite
<1>8. IsFiniteSet(new) /\ Cardinality(new) = k
  <2>1. BlocksOf(Run(s, k)) = new /\ Run(s, k).len = k
    BY <1>5 DEF BlocksOf, Run
  <2> QED BY <2>1, RunCounts
<1>9. Cardinality(old \cup new) = Cardinality(old) + k - 0
  BY <1>6, <1>7, <1>8, FS_Union, FS_EmptySet
<1>10. Cardinality(bits' \ before) = n - left + k
  <2>1. PICK c, d : c = Cardinality(old) /\ d = Cardinality(old \cup new)
    OBVIOUS
  <2>2. c = n - left /\ d = c + k - 0
    BY <1>1, <1>5, <1>9, <2>1
  <2>3. d = n - left + k
    BY <1>1, <2>2
  <2> QED BY <1>6, <2>1, <2>3
<1> QED BY <1>1, <1>2, <1>3, <1>4, <1>5, <1>6, <1>10

\* A step that obtains a run keeps the count.
LEMMA ObtainKeepsJob ==
    ASSUME JobInv, pc = "probe", NEW s \in Word, NEW k \in Word, Obtain(s, k), k \in 1 .. probe,
           Run(s, k) \in RunSet, Visited(s, k) = RunBlocks(s, k),
           RunBlocks(s, k) \subseteq Blocks \ bits
    PROVE  CallOK' /\ JobExact'
<1>1. /\ k <= left /\ left \in 1 .. n /\ n \in Nat /\ k \in Nat \ {0}
      /\ maxRun = 0 \/ k <= maxRun
      /\ Cardinality(bits' \ before) = n - left + k
  BY ObtainCounts
<1>2. CASE left - k > 0
  <2>1. /\ runs' = Append(runs, Run(s, k)) /\ left' = left - k
        /\ UNCHANGED <<pc, n, maxRun, before, held, reserved>>
    BY <1>2 DEF Obtain
  <2>2. CallOK'
    BY <2>1 DEF JobInv, CallOK, HeldBlocks
  <2>3. left' \in 1 .. n' /\ Cardinality(bits' \ before') = n' - left'
    <3>1. PICK c, l \in Nat, m \in Nat : c = Cardinality(bits' \ before) /\ l = left /\ m = n
      BY <1>1
    <3>2. c = m - l + k /\ m - (l - k) = m - l + k
      BY <1>1, <3>1
    <3> QED BY <1>1, <1>2, <2>1, <3>1, <3>2
  <2>4. \A i \in DOMAIN runs' : maxRun' = 0 \/ runs'[i].len <= maxRun'
    <3>1. PICK q : q = Run(s, k)
      OBVIOUS
    <3>2. runs \in Seq(RunSet) /\ q \in RunSet /\ q.len = k
      BY <3>1 DEF JobInv, LedgerInv, ScanInv, TypeOK, Run
    <3>3. PICK l : l = Len(runs)
      OBVIOUS
    <3>4. /\ DOMAIN runs' = 1 .. l + 1 /\ runs'[l + 1] = q /\ \A i \in 1 .. l : runs'[i] = runs[i]
          /\ l \in Nat /\ DOMAIN runs = 1 .. l
      BY <2>1, <3>1, <3>2, <3>3
    <3>5. \A i \in 1 .. l : maxRun = 0 \/ runs[i].len <= maxRun
      BY <3>4 DEF JobInv, JobExact
    <3>6. \A i \in 1 .. l + 1 : i \in 1 .. l \/ i = l + 1
      BY <3>4
    <3> QED BY <1>1, <2>1, <3>2, <3>4, <3>5, <3>6
  <2> QED BY <2>1, <2>2, <2>3, <2>4 DEF JobExact
<1>3. CASE ~(left - k > 0)
  <2>1. pc' = "idle"
    BY <1>3 DEF Obtain, Leave
  <2> QED BY <2>1 DEF CallOK, JobExact
<1> QED BY <1>2, <1>3

\* AllocRuns starts, or has nothing to do.
LEMMA StartKeepsJob ==
    ASSUME JobInv, NEW k \in Requests, NEW m \in MaxRuns, NEW f \in Ifaces, AllocRuns(k, m, f)
    PROVE  CallOK' /\ JobExact'
<1>1. pc = "idle" /\ UNCHANGED <<bits, hint, held, reserved>>
  BY DEF AllocRuns, bitmapVars
<1>2. CASE k = 0
  BY <1>1, <1>2 DEF AllocRuns, jobVars, CallOK, JobExact
<1>3. CASE k # 0
  <2>1. pc' = "probe" /\ n' = k /\ left' = k /\ runs' = <<>> /\ before' = bits
    BY <1>3 DEF AllocRuns
  <2>2. k \in Nat \ {0}
    BY <1>3, SizeAssumption
  <2>3. bits = Padding \cup reserved \cup HeldBlocks
    <3>1. InFlightBlocks = {}
      BY <1>1 DEF InFlightBlocks, InFlight
    <3> QED BY <3>1 DEF JobInv, LedgerInv, Ledger
  <2>4. CallOK'
    BY <1>1, <1>3, <2>1, <2>3 DEF CallOK, HeldBlocks
  <2>5. left' \in 1 .. n' /\ Cardinality(bits' \ before') = n' - left'
    <3>1. bits' \ before' = {}
      BY <1>1, <2>1
    <3> QED BY <2>1, <2>2, <3>1, FS_EmptySet
  <2> QED BY <2>1, <2>4, <2>5 DEF JobExact
<1> QED BY <1>2, <1>3

\* The call gives up: the blocks that were free when it was made are all its own
\* now, and they are fewer than it was asked for.
LEMMA FailKeepsJob ==
    ASSUME JobInv, ProbeFails
    PROVE  CallOK' /\ JobExact'
<1>1. /\ pc = "probe" /\ pc' = "rollback"
      /\ UNCHANGED <<bits, n, maxRun, runs, held, reserved, before>>
  BY DEF ProbeFails, bitmapVars
<1>2. CallOK'
  BY <1>1 DEF JobInv, CallOK, HeldBlocks
<1>3. Cardinality(Blocks \ before) < n
  <2>1. left \in 1 .. n /\ Cardinality(bits \ before) = n - left /\ n \in Nat /\ bits \subseteq Slots
    BY <1>1, SizeAssumption DEF JobInv, JobExact, LedgerInv, ScanInv, TypeOK, Word
  <2>2. Blocks \ before \subseteq bits \ before
    BY FailsOnlyWhenFull
  <2>3. IsFiniteSet(bits \ before)
    BY <2>1, SlotsFinite
  <2>4. /\ IsFiniteSet(Blocks \ before)
        /\ Cardinality(Blocks \ before) <= Cardinality(bits \ before)
    BY <2>2, <2>3, FS_Subset
  <2>5. Cardinality(Blocks \ before) \in Nat
    BY <2>4, FS_CardinalityType
  <2> QED BY <2>1, <2>4, <2>5
<1> QED BY <1>1, <1>2, <1>3 DEF JobInv, JobExact, Blocks

\* Every step keeps the count.
LEMMA JobInvInductive ==
    ASSUME JobInv, [Next]_vars
    PROVE  JobInv'
<1>0. LedgerInv'
  BY LedgerInvInductive DEF JobInv
<1> SUFFICES CallOK' /\ JobExact'
  BY <1>0 DEF JobInv
<1>1. ASSUME pc = "idle", UNCHANGED jobVars
      PROVE  CallOK' /\ JobExact'
  BY <1>1 DEF CallOK, JobExact, jobVars
<1>2. ASSUME NEW k, Alloc(k) \/ AllocUpTo(k)
      PROVE  CallOK' /\ JobExact'
  BY <1>1, <1>2 DEF Alloc, AllocUpTo
<1>3. ASSUME NEW s, NEW k, Free(s, k) \/ Reserve(s, k)
      PROVE  CallOK' /\ JobExact'
  BY <1>1, <1>3 DEF Free, Reserve
<1>4. ASSUME NEW k \in Requests, NEW m \in MaxRuns, NEW f \in Ifaces, AllocRuns(k, m, f)
      PROVE  CallOK' /\ JobExact'
  BY <1>4, StartKeepsJob
<1>5. CASE ProbeFits \/ ProbeUpTo
  BY <1>5, ProbedRun, ObtainKeepsJob
<1>6. CASE ProbeHalve
  BY <1>6 DEF ProbeHalve, JobInv, CallOK, JobExact, HeldBlocks, bitmapVars
<1>7. CASE ProbeFails
  BY <1>7, FailKeepsJob
<1>8. CASE Rollback
  <2>1. pc = "rollback" /\ UNCHANGED <<held, reserved>>
    BY <1>8 DEF Rollback
  <2>2. CASE undo <= Len(runs)
    <3>1. UNCHANGED <<pc, n, maxRun, runs, before>>
      BY <1>8, <2>2 DEF Rollback
    <3> QED BY <2>1, <3>1 DEF JobInv, CallOK, JobExact, HeldBlocks, Blocks
  <2>3. CASE ~(undo <= Len(runs))
    <3>1. pc' = "idle"
      BY <1>8, <2>3 DEF Rollback, Leave
    <3> QED BY <3>1 DEF CallOK, JobExact
  <2> QED BY <2>2, <2>3
<1>9. CASE UNCHANGED vars
  BY <1>9 DEF vars, jobVars, JobInv, CallOK, JobExact, HeldBlocks
<1> QED BY <1>2, <1>3, <1>4, <1>5, <1>6, <1>7, <1>8, <1>9 DEF Next, Step

\* No call is running at first.
LEMMA JobInvInit == Init => JobInv
  BY LedgerInvInit DEF Init, JobInv, CallOK, JobExact

\* So it holds of every behaviour.
LEMMA JobInvHolds == Spec => []JobInv
  BY JobInvInit, JobInvInductive, PTL DEF Spec

\* At every step of its loop AllocRuns has taken exactly the blocks it believes it
\* has, in runs that respect maxRun; it gives up only if the pool could not have met
\* the request when the call was made, however the bitmap was fragmented and whether
\* the allocator offers AllocUpTo or must be probed by halving.
THEOREM AllocRunsIsExact == Spec => []JobExact
<1>1. JobInv => JobExact
  BY DEF JobInv
<1> QED BY <1>1, JobInvHolds, PTL
-----------------------------------------------------------------------------
(* The bitmap implements BlockPool.  Pool's blocks are the free ones of the bitmap *)
(* between calls, and while AllocRuns runs the ones that were free when it started. *)

poolFree == Blocks \ (IF pc = "idle" THEN bits ELSE before)

\* The mapping leaves the blocks and the replies as they are.
LEMMA PoolNames ==
    /\ Pool!Blocks = Blocks
    /\ \A s, k : Pool!RunBlocks(s, k) = RunBlocks(s, k)
    /\ \A k, S : Pool!Granted(k, S) = Granted(k, S)
    /\ \A k, e : Pool!Refused(k, e) = Refused(k, e)
    /\ \A s, k : Pool!Fits(s, k) <=> RunBlocks(s, k) \subseteq poolFree
  BY DEF Pool!Blocks, Blocks, Pool!RunBlocks, RunBlocks, Pool!Granted, Granted, Pool!Refused,
         Refused, Pool!Fits, poolFree

\* It counts blocks as the bitmap does.
LEMMA PoolCounts == \A S : Pool!Cardinality(S) = Cardinality(S)
  BY DEF Pool!Cardinality, Cardinality

\* A new pool is all free.
LEMMA PoolInit == Init => Pool!Init
<1> SUFFICES ASSUME Init PROVE Pool!Init
  OBVIOUS
<1>1. pc = "idle" /\ bits = Padding /\ ret = Granted(0, {})
  BY DEF Init, NewBitmap
<1>2. Blocks \ bits = Blocks
  BY <1>1, SizeAssumption DEF Blocks, Padding
<1> QED BY <1>1, <1>2, PoolNames DEF Pool!Init

\* Alloc is first-fit over the whole pool although it starts at the hint.
LEMMA AllocIsContiguous ==
    ASSUME JobInv, NEW k \in Requests, Alloc(k)
    PROVE  Pool!Next
<1>1. /\ pc = "idle" /\ pc' = "idle" /\ k \in Word /\ ScanInv /\ Total \in Nat
      /\ poolFree = Blocks \ bits /\ poolFree' = Blocks \ bits'
      /\ Padding \subseteq bits /\ hint \in Nat /\ \A j \in Blocks : j < hint => j \in bits
  BY SizeAssumption DEF Alloc, jobVars, poolFree, Blocks, JobInv, LedgerInv, ScanInv, PaddingUsed,
                        TypeOK, HintExact, Word
<1>2. CASE k = 0
  <2>1. ret' = Refused(0, "zeroLen") /\ bits' = bits
    BY <1>2 DEF Alloc
  <2>2. poolFree' = poolFree
    BY <1>1, <2>1
  <2>3. Pool!Reject
    BY <2>1, <2>2, PoolNames DEF Pool!Reject, poolFree
  <2> QED BY <2>3 DEF Pool!Next
<1>3. CASE k # 0 /\ Candidates(bits, hint, k) # {}
  <2>1. PICK i : i = Least(Candidates(bits, hint, k))
    OBVIOUS
  <2>2. take(i, k) /\ ret' = Granted(k, RunBlocks(i, k))
    BY <1>3, <2>1 DEF Alloc
  <2>3. /\ Run(i, k) \in RunSet /\ i \in Word /\ Visited(i, k) = RunBlocks(i, k)
        /\ RunBlocks(i, k) \subseteq Blocks \ bits
    BY <1>1, <1>3, <2>1, AllocRunIsFree
  <2>4. k \in Nat \ {0} /\ i \in Nat /\ i \in RunBlocks(i, k)
    BY <1>1, <1>3, <2>3, SizeAssumption DEF Word, RunBlocks
  <2>5. i \in poolFree /\ RunBlocks(i, k) \subseteq poolFree
    BY <1>1, <2>3, <2>4
  <2>6. \A t \in poolFree : RunBlocks(t, k) \subseteq poolFree => i <= t
    BY <1>1, <2>1, <2>4, CandidatesAreFirstFit
  <2>7. poolFree' = poolFree \ RunBlocks(i, k)
    BY <1>1, <2>2, <2>3 DEF take
  <2>8. Pool!Contiguous(k)
    BY <2>2, <2>5, <2>6, <2>7, PoolNames DEF Pool!Contiguous, poolFree
  <2> QED BY <1>3, <2>8 DEF Pool!Next
<1>4. CASE k # 0 /\ Candidates(bits, hint, k) = {}
  <2>1. ret' = Refused(k, "noSpace") /\ bits' = bits
    BY <1>4 DEF Alloc
  <2>2. k \in Nat \ {0}
    BY <1>1, <1>4, SizeAssumption DEF Word
  <2>3. \A t \in poolFree : ~(RunBlocks(t, k) \subseteq poolFree)
    BY <1>1, <1>4, <2>2, CandidatesAreFirstFit
  <2>4. poolFree' = poolFree
    BY <1>1, <2>1
  <2>5. Pool!Contiguous(k)
    BY <2>1, <2>3, <2>4, PoolNames DEF Pool!Contiguous, poolFree
  <2> QED BY <1>4, <2>5 DEF Pool!Next
<1> QED BY <1>2, <1>3, <1>4

\* AllocUpTo takes a prefix of the lowest free run.
LEMMA AllocUpToIsPrefix ==
    ASSUME JobInv, NEW k \in Requests, AllocUpTo(k)
    PROVE  Pool!Next
<1>1. /\ pc = "idle" /\ pc' = "idle" /\ k \in Word /\ ScanInv /\ Total \in Nat
      /\ poolFree = Blocks \ bits /\ poolFree' = Blocks \ bits'
      /\ Padding \subseteq bits /\ hint \in Nat /\ \A j \in Blocks : j < hint => j \in bits
  BY SizeAssumption DEF AllocUpTo, jobVars, poolFree, Blocks, JobInv, LedgerInv, ScanInv, PaddingUsed,
                        TypeOK, HintExact, Word
<1>2. /\ upToStart \in 0 .. Total
      /\ \A j \in Blocks : hint <= j /\ j < upToStart => j \in bits
  BY <1>1, FirstFreeIsExact DEF upToStart
<1>3. CASE k = 0
  <2>1. ret' = Refused(0, "zeroLen") /\ bits' = bits
    BY <1>3 DEF AllocUpTo
  <2>2. poolFree' = poolFree
    BY <1>1, <2>1
  <2>3. Pool!Reject
    BY <2>1, <2>2, PoolNames DEF Pool!Reject, poolFree
  <2> QED BY <2>3 DEF Pool!Next
<1>4. CASE k # 0 /\ upToStart < Total
  <2>1. PICK i, g : i = upToStart /\ g = upToLen(k)
    OBVIOUS
  <2>2. take(i, g) /\ ret' = Granted(k, RunBlocks(i, g))
    <3>1. ~(upToStart >= Total)
      BY <1>1, <1>2, <1>4
    <3> QED BY <1>4, <2>1, <3>1 DEF AllocUpTo
  <2>3. /\ Run(i, g) \in RunSet /\ i \in Word /\ g \in Word /\ g \in 1 .. k
        /\ Visited(i, g) = RunBlocks(i, g) /\ RunBlocks(i, g) \subseteq Blocks \ bits
        /\ \A t \in Blocks \ bits : i <= t
        /\ g < k => i + g \notin Blocks \ bits
    BY <1>1, <1>4, <2>1, UpToRunIsFree
  <2>4. i \in RunBlocks(i, g) /\ g \in 1 .. Total /\ g <= k
    <3>1. Run(i, g).len \in 1 .. Total
      BY <2>3 DEF RunSet
    <3>2. Run(i, g).len = g
      BY DEF Run
    <3> QED BY <2>3, <3>1, <3>2, SizeAssumption DEF RunBlocks, Word
  <2>5. i \in poolFree /\ RunBlocks(i, g) \subseteq poolFree
    BY <1>1, <2>3, <2>4
  <2>6. (\A t \in poolFree : i <= t) /\ (g < k => i + g \notin poolFree)
    BY <1>1, <2>3
  <2>7. poolFree' = poolFree \ RunBlocks(i, g)
    BY <1>1, <2>2, <2>3 DEF take
  <2>8. Pool!Prefix(k)
    BY <2>2, <2>4, <2>5, <2>6, <2>7, PoolNames DEF Pool!Prefix, poolFree
  <2> QED BY <1>4, <2>8 DEF Pool!Next
<1>5. CASE k # 0 /\ ~(upToStart < Total)
  <2>1. ret' = Refused(k, "noSpace") /\ bits' = bits
    BY <1>5 DEF AllocUpTo
  <2>2. poolFree = {}
    BY <1>1, <1>2, <1>5 DEF Blocks
  <2>3. poolFree' = poolFree
    BY <1>1, <2>1
  <2>4. Pool!Prefix(k)
    BY <2>1, <2>2, <2>3, PoolNames DEF Pool!Prefix, poolFree
  <2> QED BY <1>5, <2>4 DEF Pool!Next
<1> QED BY <1>3, <1>4, <1>5

\* Free and Reserve give back and withdraw the blocks their loops visit, none when
\* the end of the run wraps, or reject the call.
LEMMA FreeReserveAreSets ==
    ASSUME JobInv, NEW s \in Word, NEW k \in Word, Free(s, k) \/ Reserve(s, k)
    PROVE  Pool!Next
<1>1. /\ pc = "idle" /\ pc' = "idle"
      /\ poolFree = Blocks \ bits /\ poolFree' = Blocks \ bits'
  BY DEF Free, Reserve, jobVars, poolFree, Blocks
<1>2. Total \in Nat /\ Modulus \in Nat
  BY SizeAssumption
<1>3. CASE ~(Add(s, k) <= Total)
  <2>1. ret' = Refused(0, "outOfRange") /\ bits' = bits
    BY <1>2, <1>3 DEF Free, Reserve
  <2>2. poolFree' = poolFree
    BY <1>1, <2>1
  <2>3. Pool!Reject
    BY <2>1, <2>2, PoolNames DEF Pool!Reject, poolFree
  <2> QED BY <2>3 DEF Pool!Next
<1>4. CASE Add(s, k) <= Total
  <2>1. PICK S : S = Visited(s, k)
    OBVIOUS
  <2>2. S \subseteq Blocks
    BY <1>4, <2>1, VisitedInBlocks
  <2>3. Add(s, k) \in Int /\ ~(Add(s, k) > Total)
    BY <1>2, <1>4 DEF Add, Word
  <2>4. CASE Free(s, k)
    <3>1. bits' = bits \ S /\ ret' = Granted(0, {})
      BY <2>1, <2>3, <2>4 DEF Free, release
    <3>2. poolFree' = poolFree \cup S
      BY <1>1, <2>2, <3>1
    <3>3. Pool!Release(S)
      BY <3>1, <3>2, PoolNames DEF Pool!Release, poolFree
    <3> QED BY <2>2, <3>3, PoolNames DEF Pool!Next
  <2>5. CASE Reserve(s, k)
    <3>1. bits' = bits \cup S /\ ret' = Granted(0, {})
      BY <2>1, <2>3, <2>5 DEF Reserve, take
    <3>2. poolFree' = poolFree \ S
      BY <1>1, <3>1
    <3>3. Pool!Withdraw(S)
      BY <3>1, <3>2, PoolNames DEF Pool!Withdraw, poolFree
    <3> QED BY <2>2, <3>3, PoolNames DEF Pool!Next
  <2> QED BY <2>4, <2>5
<1> QED BY <1>3, <1>4

\* A call of AllocRuns that asks for nothing lends nothing; one that asks for blocks
\* starts without the caller seeing it.
LEMMA StartIsSilent ==
    ASSUME JobInv, NEW k \in Requests, NEW m \in MaxRuns, NEW f \in Ifaces, AllocRuns(k, m, f)
    PROVE  Pool!Next \/ UNCHANGED Pool!poolVars
<1>1. pc = "idle" /\ bits' = bits
  BY DEF AllocRuns, bitmapVars
<1>2. CASE k = 0
  <2>1. ret' = Granted(0, {}) /\ pc' = "idle"
    BY <1>1, <1>2 DEF AllocRuns, jobVars
  <2>2. poolFree' = poolFree \ {}
    BY <1>1, <2>1 DEF poolFree, Blocks
  <2>3. {} \in SUBSET poolFree /\ Cardinality({}) = 0
    BY FS_EmptySet
  <2>4. Pool!Scattered(0)
    BY <2>1, <2>2, <2>3, PoolNames, PoolCounts DEF Pool!Scattered, poolFree
  <2> QED BY <1>2, <2>4 DEF Pool!Next
<1>3. CASE k # 0
  <2>1. pc' = "probe" /\ before' = bits /\ ret' = ret
    BY <1>3 DEF AllocRuns
  <2>2. poolFree' = poolFree
    BY <1>1, <2>1 DEF poolFree, Blocks
  <2> QED BY <2>1, <2>2 DEF Pool!poolVars, poolFree
<1> QED BY <1>2, <1>3

\* The run that completes the request makes the whole call visible at once: the
\* caller gets exactly n blocks, which were all free when the call was made.
LEMMA ObtainIsScattered ==
    ASSUME JobInv, ProbeFits \/ ProbeUpTo
    PROVE  Pool!Next \/ UNCHANGED Pool!poolVars
<1>1. PICK s \in Word, k \in Word :
              /\ Obtain(s, k) /\ pc = "probe" /\ k \in 1 .. probe
              /\ Run(s, k) \in RunSet /\ Visited(s, k) = RunBlocks(s, k)
              /\ RunBlocks(s, k) \subseteq Blocks \ bits
  BY ProbedRun
<1>2. /\ k <= left /\ left \in 1 .. n /\ n \in Nat /\ k \in Nat \ {0}
      /\ bits' = bits \cup RunBlocks(s, k)
      /\ bits' \ before = InFlightBlocks \cup RunBlocks(s, k)
      /\ Cardinality(bits' \ before) = n - left + k
  BY <1>1, ObtainCounts
<1>3. CASE left - k > 0
  <2>1. UNCHANGED <<pc, before, ret>>
    BY <1>1, <1>3 DEF Obtain
  <2>2. poolFree' = poolFree
    BY <1>1, <2>1 DEF poolFree, Blocks
  <2> QED BY <2>1, <2>2 DEF Pool!poolVars, poolFree
<1>4. CASE ~(left - k > 0)
  <2>1. PICK q : q = Run(s, k)
    OBVIOUS
  <2>2. PICK rs : rs = Append(runs, q)
    OBVIOUS
  <2>3. pc' = "idle" /\ ret' = Granted(n, RunsBlocks(rs))
    BY <1>1, <1>4, <2>1, <2>2 DEF Obtain, Leave
  <2>4. runs \in Seq(RunSet) /\ q \in RunSet /\ undo = 1
    BY <1>1, <2>1 DEF JobInv, LedgerInv, ScanInv, TypeOK, RunsOK
  <2>5. PICK l : l = Len(runs)
    OBVIOUS
  <2>6. /\ DOMAIN rs = 1 .. l + 1 /\ rs[l + 1] = q /\ \A i \in 1 .. l : rs[i] = runs[i]
        /\ l \in Nat
    BY <2>2, <2>4, <2>5
  <2>7. BlocksOf(q) = RunBlocks(s, k)
    BY <2>1 DEF BlocksOf, Run
  <2>8. InFlightBlocks = UNION {BlocksOf(runs[i]) : i \in 1 .. l}
    BY <1>1, <2>4, <2>5 DEF InFlightBlocks, InFlight
  <2>9. RunsBlocks(rs) = InFlightBlocks \cup RunBlocks(s, k)
    <3>1. RunsBlocks(rs) = UNION {BlocksOf(rs[i]) : i \in 1 .. l + 1}
      BY <2>6 DEF RunsBlocks
    <3>2. \A i \in 1 .. l + 1 : i \in 1 .. l \/ i = l + 1
      BY <2>6
    <3>3. \A i \in 1 .. l : i \in 1 .. l + 1
      BY <2>6
    <3>4. l + 1 \in 1 .. l + 1
      BY <2>6
    <3> QED BY <2>6, <2>7, <2>8, <3>1, <3>2, <3>3, <3>4
  <2>10. PICK S : S = bits' \ before
    OBVIOUS
  <2>11. Cardinality(S) = n
    <3>1. k = left
      BY <1>2, <1>4
    <3>2. n - left + left = n
      BY <1>2
    <3> QED BY <1>2, <2>10, <3>1, <3>2
  <2>12. S \subseteq Blocks \ before
    <3>1. bits \ before = InFlightBlocks
      BY <1>1, TakenSinceCall
    <3>2. \A i \in 1 .. l : BlocksOf(runs[i]) \subseteq Blocks
      <4>1. \A i \in 1 .. l : runs[i] \in RunSet
        BY <2>4, <2>5
      <4> QED BY <4>1, RunSetBlocks
    <3>3. InFlightBlocks \subseteq Blocks
      BY <2>8, <3>2
    <3> QED BY <1>1, <1>2, <2>10, <3>3
  <2>13. poolFree = Blocks \ before /\ poolFree' = Blocks \ bits'
    BY <1>1, <2>3 DEF poolFree, Blocks
  <2>14. poolFree' = poolFree \ S
    <3>1. before \subseteq bits'
      BY <1>1, <1>2, TakenSinceCall
    <3> QED BY <2>10, <2>13, <3>1
  <2>15. ret' = Granted(n, S)
    BY <1>2, <2>3, <2>9, <2>10
  <2>16. Pool!Scattered(n)
    BY <2>11, <2>12, <2>13, <2>14, <2>15, PoolNames, PoolCounts DEF Pool!Scattered, poolFree
  <2>17. n \in Requests
    BY <1>1 DEF JobInv, CallOK
  <2> QED BY <2>16, <2>17 DEF Pool!Next
<1> QED BY <1>3, <1>4

\* The failure loop ends with the bitmap as it was before the call.
LEMMA RollbackIsRefusal ==
    ASSUME JobInv, Rollback
    PROVE  Pool!Next \/ UNCHANGED Pool!poolVars
<1>1. pc = "rollback" /\ undo \in Nat /\ Len(runs) \in Nat
  BY DEF Rollback, JobInv, LedgerInv, ScanInv, TypeOK
<1>2. CASE undo <= Len(runs)
  <2>1. UNCHANGED <<pc, before, ret>>
    BY <1>2 DEF Rollback
  <2>2. poolFree' = poolFree
    BY <1>1, <2>1 DEF poolFree, Blocks
  <2> QED BY <2>1, <2>2 DEF Pool!poolVars, poolFree
<1>3. CASE ~(undo <= Len(runs))
  <2>1. pc' = "idle" /\ ret' = Refused(n, "noSpace") /\ bits' = bits
    BY <1>3 DEF Rollback, Leave, bitmapVars
  <2>2. InFlightBlocks = {}
    BY <1>1, <1>3 DEF InFlightBlocks, InFlight
  <2>3. bits = before
    BY <1>1, <2>2, TakenSinceCall
  <2>4. poolFree' = poolFree /\ poolFree = Blocks \ before
    BY <1>1, <2>1, <2>3 DEF poolFree, Blocks
  <2>5. Cardinality(Blocks \ before) < n /\ n \in Requests
    BY <1>1 DEF JobInv, JobExact, CallOK
  <2>6. Pool!Scattered(n)
    BY <2>1, <2>4, <2>5, PoolNames, PoolCounts DEF Pool!Scattered, poolFree
  <2> QED BY <2>5, <2>6 DEF Pool!Next
<1> QED BY <1>2, <1>3

\* Every step of the bitmap is a step of the pool, or one that its callers cannot see.
LEMMA StepsArePoolSteps ==
    ASSUME JobInv, [Next]_vars
    PROVE  [Pool!Next]_Pool!poolVars
<1>1. CASE ProbeHalve \/ ProbeFails
  <2>1. /\ pc = "probe" /\ pc' \in {"probe", "rollback"} /\ UNCHANGED <<before, ret>>
    BY <1>1 DEF ProbeHalve, ProbeFails
  <2>2. poolFree' = poolFree
    BY <2>1 DEF poolFree, Blocks
  <2> QED BY <2>1, <2>2 DEF Pool!poolVars, poolFree
<1>2. CASE UNCHANGED vars
  <2>1. poolFree' = poolFree /\ ret' = ret
    BY <1>2 DEF vars, jobVars, poolFree, Blocks
  <2> QED BY <2>1 DEF Pool!poolVars, poolFree
<1>3. ASSUME NEW k \in Requests, Alloc(k) \/ AllocUpTo(k)
      PROVE  Pool!Next
  BY <1>3, AllocIsContiguous, AllocUpToIsPrefix
<1>4. ASSUME NEW s \in Word, NEW k \in Word, Free(s, k) \/ Reserve(s, k)
      PROVE  Pool!Next
  BY <1>4, FreeReserveAreSets
<1>5. ASSUME NEW k \in Requests, NEW m \in MaxRuns, NEW f \in Ifaces, AllocRuns(k, m, f)
      PROVE  Pool!Next \/ UNCHANGED Pool!poolVars
  BY <1>5, StartIsSilent
<1>6. CASE ProbeFits \/ ProbeUpTo
  BY <1>6, ObtainIsScattered
<1>7. CASE Rollback
  BY <1>7, RollbackIsRefusal
<1> QED BY <1>1, <1>2, <1>3, <1>4, <1>5, <1>6, <1>7 DEF Next, Step

\* The bitmap implements BlockPool: to its callers Alloc is first-fit, AllocUpTo takes
\* the lowest run, AllocRuns is one atomic step that lends exactly n blocks or none,
\* and a refused call changes nothing.
THEOREM BitmapImplementsPool == Spec => PoolSpec
  BY PoolInit, StepsArePoolSteps, JobInvHolds, PTL DEF Spec, PoolSpec, Pool!Spec
=============================================================================
