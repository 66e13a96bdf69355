------------------------------- MODULE Bitmap -------------------------------
(***************************************************************************)
(* pkg/alloc: the first-fit bitmap allocator (bitmap.go) and AllocRuns     *)
(* (alloc.go), which builds an all-or-nothing scattered allocation out of  *)
(* it.  The words of the bitmap are the set of the slots whose bit is set; *)
(* the padding slots of the last word belong to it.  AllocRuns runs one    *)
(* call of the allocator per step; no other call interleaves with it, for  *)
(* the code is single-threaded.                                            *)
(***************************************************************************)
EXTENDS Integers, Sequences, FiniteSets

CONSTANTS Total,        \* Bitmap.total
          WordBits,     \* slots per word of the bitmap (64 in the code)
          Modulus,      \* uint64 arithmetic is modulo this number
          Requests,     \* lengths that callers pass to Alloc, AllocUpTo, AllocRuns
          MaxRuns       \* the maxRun bounds that callers pass to AllocRuns

Capacity == ((Total + WordBits - 1) \div WordBits) * WordBits

ASSUME SizeAssumption ==
    /\ Total \in Nat
    /\ WordBits \in Nat \ {0}
    /\ Modulus \in Nat
    /\ Capacity \in Total .. Modulus - 1
    /\ Requests \subseteq 0 .. Modulus - 1
    /\ MaxRuns \subseteq 0 .. Modulus - 1

VARIABLES bits,     \* slots marked used
          hint,     \* Bitmap.hint
          pc,       \* "idle", or the point AllocRuns has reached
          n, maxRun, left, runs,  \* arguments and locals of AllocRuns
          iface,    \* what AllocRuns was given, which allocAtMost asserts
          probe,    \* length allocAtMost asks for next
          undo,     \* next run the failure loop of AllocRuns releases
          ret,      \* reply of the last call that returned
          held,     \* history: runs handed to callers and not yet freed
          reserved, \* history: blocks withdrawn by Reserve
          before    \* history: bits when the current AllocRuns started

jobVars == <<pc, n, maxRun, iface, left, runs, probe, undo, before>>
bitmapVars == <<bits, hint>>
vars == <<bits, hint, jobVars, ret, held, reserved>>

Word == 0 .. Modulus - 1
Ifaces == {"RunAllocator", "Allocator"}
Blocks == 0 .. Total - 1
Slots == 0 .. Capacity - 1
Padding == Total .. Capacity - 1

Add(a, b) == IF a + b >= Modulus THEN a + b - Modulus ELSE a + b
RunBlocks(s, k) == s .. s + k - 1
Run(s, k) == [start |-> s, len |-> k]
RunSet == {r \in [start : Blocks, len : 1 .. Total] : r.start + r.len <= Total}
BlocksOf(r) == RunBlocks(r.start, r.len)
Granted(k, S) == [err |-> "nil", n |-> k, blocks |-> S]
Refused(k, e) == [err |-> e, n |-> k, blocks |-> {}]

Least(S) == CHOOSE x \in S : \A y \in S : x <= y
Lesser(a, b) == IF a <= b THEN a ELSE b

-----------------------------------------------------------------------------
(* The scans.  b is the bitmap they look at. *)

firstFree(b, from) ==
    LET unset == {j \in from .. Capacity - 1 : j \notin b}
    IN  IF from >= Total \/ unset = {} THEN Total ELSE Least(unset)

firstUsed(b, from) ==
    LET set == {j \in from .. Capacity - 1 : j \in b}
    IN  IF from >= Total \/ set = {} THEN Total ELSE Lesser(Least(set), Total)

\* The starts of the free runs, in the order Alloc's loop visits them, that
\* are long enough: it begins at the first free block from the hint on, and
\* goes on from the used block that ends the run it rejects.
Candidates(b, h, k) ==
    {i \in firstFree(b, h) .. Total - 1 :
        /\ i \notin b
        /\ i = firstFree(b, h) \/ i - 1 \in b
        /\ firstUsed(b, i) - i >= k}

\* Mutant: the last block of a run is left out.
Visited_lastMissed(s, k) == s .. Add(s, k) - 2

\* The blocks that the loops of take and Free visit: none when the end of the
\* run wraps round below its start.
Visited(s, k) == s .. Add(s, k) - 1

take(s, k) ==
    LET b == bits \cup Visited(s, k)
    IN  /\ bits' = b
        /\ hint' = firstFree(b, hint)

\* Mutant: Free does not lower the hint.
release_hintKept(s, k) == bits' = bits \ Visited(s, k) /\ UNCHANGED hint

\* What Free does once its arguments are in range.
release(s, k) ==
    /\ bits' = bits \ Visited(s, k)
    /\ hint' = Lesser(s, hint)

-----------------------------------------------------------------------------
NewBitmap ==
    /\ bits = Padding
    /\ hint = 0

Init ==
    /\ NewBitmap
    /\ pc = "idle" /\ n = 0 /\ maxRun = 0 /\ iface = "Allocator" /\ left = 0 /\ runs = <<>>
    /\ probe = 0 /\ undo = 1 /\ before = {}
    /\ ret = Granted(0, {})
    /\ held = {} /\ reserved = {}

Alloc(k) ==
    /\ pc = "idle"
    /\ \/ /\ k = 0
          /\ ret' = Refused(0, "zeroLen")
          /\ UNCHANGED <<bits, hint, held>>
       \/ /\ k # 0
          /\ Candidates(bits, hint, k) # {}
          /\ LET i == Least(Candidates(bits, hint, k))
             IN  /\ take(i, k)
                 /\ ret' = Granted(k, RunBlocks(i, k))
                 /\ held' = held \cup {Run(i, k)}
       \/ /\ k # 0
          /\ Candidates(bits, hint, k) = {}
          /\ ret' = Refused(k, "noSpace")
          /\ UNCHANGED <<bits, hint, held>>
    /\ UNCHANGED <<jobVars, reserved>>

\* What AllocUpTo(k) would reserve, k > 0: the start and the length.
upToStart == firstFree(bits, hint)
upToLen(k) == Lesser(firstUsed(bits, upToStart) - upToStart, k)

AllocUpTo(k) ==
    /\ pc = "idle"
    /\ \/ /\ k = 0
          /\ ret' = Refused(0, "zeroLen")
          /\ UNCHANGED <<bits, hint, held>>
       \/ /\ k # 0
          /\ upToStart < Total
          /\ take(upToStart, upToLen(k))
          /\ ret' = Granted(k, RunBlocks(upToStart, upToLen(k)))
          /\ held' = held \cup {Run(upToStart, upToLen(k))}
       \/ /\ k # 0
          /\ upToStart >= Total
          /\ ret' = Refused(k, "noSpace")
          /\ UNCHANGED <<bits, hint, held>>
    /\ UNCHANGED <<jobVars, reserved>>

\* Free is called with a run that was allocated, or with a range that is not
\* the pool's at all (its check is there for those).
Free(s, k) ==
    /\ pc = "idle"
    /\ Run(s, k) \in held \/ s + k > Total
    /\ \/ /\ Add(s, k) > Total
          /\ ret' = Refused(0, "outOfRange")
          /\ UNCHANGED <<bits, hint, held>>
       \/ /\ Add(s, k) <= Total
          /\ release(s, k)
          /\ ret' = Granted(0, {})
          /\ held' = held \ {Run(s, k)}
    /\ UNCHANGED <<jobVars, reserved>>

\* Mutant: the range is not checked.
Reserve_unchecked(s, k) ==
    /\ pc = "idle"
    /\ \A r \in held : BlocksOf(r) \cap Visited(s, k) = {}
    /\ take(s, k)
    /\ ret' = Granted(0, {})
    /\ reserved' = reserved \cup Visited(s, k)
    /\ UNCHANGED <<jobVars, held>>

\* Reserve is called with fixed regions that no caller holds.
Reserve(s, k) ==
    /\ pc = "idle"
    /\ \A r \in held : BlocksOf(r) \cap Visited(s, k) = {}
    /\ \/ /\ Add(s, k) > Total
          /\ ret' = Refused(0, "outOfRange")
          /\ UNCHANGED <<bits, hint, reserved>>
       \/ /\ Add(s, k) <= Total
          /\ take(s, k)
          /\ ret' = Granted(0, {})
          /\ reserved' = reserved \cup Visited(s, k)
    /\ UNCHANGED <<jobVars, held>>

-----------------------------------------------------------------------------
(* AllocRuns, one call of the allocator per step. *)

\* The length the loop asks allocAtMost for when l blocks are still missing.
wanted(l, m) == IF m > 0 /\ l > m THEN m ELSE l

RunsBlocks(rs) == UNION {BlocksOf(rs[i]) : i \in DOMAIN rs}

AllocRuns(k, m, f) ==
    /\ pc = "idle"
    /\ IF k = 0
       THEN /\ ret' = Granted(0, {})
            /\ UNCHANGED jobVars
       ELSE /\ pc' = "probe"
            /\ n' = k /\ maxRun' = m /\ iface' = f /\ left' = k /\ runs' = <<>>
            /\ probe' = wanted(k, m)
            /\ undo' = 1
            /\ before' = bits
            /\ UNCHANGED ret
    /\ UNCHANGED <<bitmapVars, held, reserved>>

\* AllocRuns returns: its locals go out of scope.
Leave ==
    /\ pc' = "idle" /\ n' = 0 /\ maxRun' = 0 /\ iface' = "Allocator"
    /\ left' = 0 /\ runs' = <<>>
    /\ probe' = 0 /\ undo' = 1 /\ before' = {}

\* allocAtMost got the run (s, k): the loop records it and goes on or returns.
Obtain(s, k) ==
    LET rs == Append(runs, Run(s, k))
    IN  /\ take(s, k)
        /\ IF left - k > 0
           THEN /\ runs' = rs
                /\ left' = left - k
                /\ probe' = wanted(left - k, maxRun)
                /\ UNCHANGED <<pc, n, maxRun, iface, undo, before, ret, held>>
           ELSE /\ Leave
                /\ ret' = Granted(n, RunsBlocks(rs))
                /\ held' = held \cup {rs[i] : i \in DOMAIN rs}
        /\ UNCHANGED reserved

\* allocAtMost: an Alloc of the length being probed that fits.
ProbeFits ==
    /\ pc = "probe"
    /\ Candidates(bits, hint, probe) # {}
    /\ Obtain(Least(Candidates(bits, hint, probe)), probe)

\* It does not fit and the allocator offers AllocUpTo.
ProbeUpTo ==
    /\ pc = "probe"
    /\ Candidates(bits, hint, probe) = {}
    /\ iface = "RunAllocator"
    /\ upToStart < Total
    /\ Obtain(upToStart, upToLen(probe))

\* Mutant: the halves are rounded up.
halved_up(k) == (k + 1) \div 2

\* The next length that allocAtMost tries; it gives up at zero.
halved(k) == k \div 2

\* It does not fit and the allocator is a plain one: halve the request.
ProbeHalve ==
    /\ pc = "probe"
    /\ Candidates(bits, hint, probe) = {}
    /\ iface = "Allocator"
    /\ halved(probe) > 0
    /\ probe' = halved(probe)
    /\ UNCHANGED <<bitmapVars, pc, n, maxRun, iface, left, runs, undo, ret, held, reserved, before>>

\* Mutant: a plain allocator's first refusal ends the call.
ProbeFails_noHalving ==
    /\ pc = "probe" /\ Candidates(bits, hint, probe) = {}
    /\ iface = "RunAllocator" => upToStart >= Total
    /\ pc' = "rollback"
    /\ UNCHANGED <<bitmapVars, n, maxRun, iface, left, runs, probe, undo, ret, held, reserved, before>>

ProbeFails ==
    /\ pc = "probe"
    /\ Candidates(bits, hint, probe) = {}
    /\ IF iface = "RunAllocator" THEN upToStart >= Total ELSE halved(probe) = 0
    /\ pc' = "rollback"
    /\ UNCHANGED <<bitmapVars, n, maxRun, iface, left, runs, probe, undo, ret, held, reserved, before>>

\* Mutant: the runs already taken are not released.
Rollback_leaks ==
    /\ pc = "rollback"
    /\ Leave
    /\ ret' = Refused(n, "noSpace")
    /\ UNCHANGED <<bitmapVars, held, reserved>>

\* The failure loop: release the runs taken so far, then report the error.
Rollback ==
    /\ pc = "rollback"
    /\ IF undo <= Len(runs)
       THEN /\ release(runs[undo].start, runs[undo].len)
            /\ undo' = undo + 1
            /\ UNCHANGED <<pc, n, maxRun, iface, left, runs, probe, before, ret>>
       ELSE /\ Leave
            /\ ret' = Refused(n, "noSpace")
            /\ UNCHANGED bitmapVars
    /\ UNCHANGED <<held, reserved>>

-----------------------------------------------------------------------------
Step == ProbeFits \/ ProbeUpTo \/ ProbeHalve \/ ProbeFails \/ Rollback

Next ==
    \/ \E k \in Requests : Alloc(k) \/ AllocUpTo(k)
    \/ \E s, k \in Word : Free(s, k) \/ Reserve(s, k)
    \/ \E k \in Requests, m \in MaxRuns, f \in Ifaces : AllocRuns(k, m, f)
    \/ Step

\* A call of AllocRuns keeps running: nothing in it waits for anyone.
Spec == Init /\ [][Next]_vars /\ WF_vars(Step)

-----------------------------------------------------------------------------
(* Properties. *)

\* Every variable has the type of the field or local it models.
TypeOK ==
    /\ bits \subseteq Slots
    /\ hint \in 0 .. Total
    /\ pc \in {"idle", "probe", "rollback"}
    /\ n \in Word /\ maxRun \in Word /\ left \in Word /\ probe \in Word
    /\ runs \in Seq(RunSet)
    /\ iface \in Ifaces
    /\ undo \in Nat \ {0}
    /\ before \subseteq Slots
    /\ ret \in [err : {"nil", "noSpace", "zeroLen", "outOfRange"},
                n : Word, blocks : SUBSET Blocks]
    /\ held \subseteq RunSet
    /\ reserved \subseteq Blocks

\* The runs of the current AllocRuns that it has not released again.
InFlight == IF pc = "idle" THEN {} ELSE {runs[i] : i \in undo .. Len(runs)}
InFlightBlocks == UNION {BlocksOf(r) : r \in InFlight}
HeldBlocks == UNION {BlocksOf(r) : r \in held}

\* "No block below hint is free" (the comment on Bitmap.hint): the scans of
\* Alloc and AllocUpTo, which start at the hint, miss no free block, whatever
\* sequence of Alloc, Free, Reserve and rolled back AllocRuns came before.
HintExact == \A j \in Blocks : j < hint => j \in bits

\* The bitmap accounts for every block exactly once: it is used because it is
\* padding, reserved, or in one run that one caller holds or one that the
\* AllocRuns in progress has taken; nothing is lent twice and nothing leaks.
Ledger ==
    /\ bits = Padding \cup reserved \cup HeldBlocks \cup InFlightBlocks
    /\ \A r, s \in held \cup InFlight : r # s => BlocksOf(r) \cap BlocksOf(s) = {}
    /\ \A r \in held \cup InFlight : BlocksOf(r) \cap reserved = {}

\* While AllocRuns runs it has taken exactly the blocks it believes it has (n
\* less the count still missing), in runs that respect maxRun, and it gives up
\* only if the pool could not have met the request when the call was made.
JobExact ==
    /\ pc = "probe" =>
          /\ left \in 1 .. n
          /\ Cardinality(bits \ before) = n - left
    /\ pc = "rollback" => Cardinality(Blocks \ before) < n
    /\ pc # "idle" =>
          \A i \in DOMAIN runs : maxRun = 0 \/ runs[i].len <= maxRun

\* The bitmap implements BlockPool: Alloc is first-fit and AllocUpTo takes the
\* lowest run although both scan from the hint only, and the many steps of an
\* AllocRuns amount to one atomic step that lends exactly n blocks or none.
Pool == INSTANCE BlockPool
            WITH free <- Blocks \ (IF pc = "idle" THEN bits ELSE before)
PoolSpec == Pool!Spec

\* AllocRuns returns: each turn of its loop takes a block or halves the
\* request, and the release loop is finite.
AllocRunsReturns == pc # "idle" ~> pc = "idle"
=============================================================================
