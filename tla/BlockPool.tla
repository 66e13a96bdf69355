------------------------------ MODULE BlockPool ------------------------------
(***************************************************************************)
(* What pkg/alloc promises its callers, without saying how.  A pool is a   *)
(* set of free blocks.  A contiguous request is answered first-fit, with   *)
(* the lowest run that holds it; a request that may be scattered           *)
(* (AllocRuns) is all or nothing, and refused only when the pool really is *)
(* too small; a refused call leaves the pool as it was.  Module Bitmap is  *)
(* shown to implement this specification.                                  *)
(***************************************************************************)
EXTENDS Integers, FiniteSets

CONSTANTS Total,    \* number of blocks the pool manages
          Requests  \* the lengths callers ask for

VARIABLES free,     \* the blocks nobody holds
          ret       \* the reply of the last call

poolVars == <<free, ret>>

Blocks == 0 .. Total - 1
RunBlocks(s, n) == s .. s + n - 1

\* A reply repeats the length asked for (0 for calls that lend nothing).
Granted(n, S) == [err |-> "nil", n |-> n, blocks |-> S]
Refused(n, e) == [err |-> e, n |-> n, blocks |-> {}]

Fits(s, n) == RunBlocks(s, n) \subseteq free

Init ==
    /\ free = Blocks
    /\ ret = Granted(0, {})

(* Alloc: the lowest run of n free blocks, or no space if there is none. *)
Contiguous(n) ==
    \/ \E s \in free :
          /\ Fits(s, n)
          /\ \A t \in free : Fits(t, n) => s <= t
          /\ free' = free \ RunBlocks(s, n)
          /\ ret' = Granted(n, RunBlocks(s, n))
    \/ /\ \A s \in free : ~Fits(s, n)
       /\ UNCHANGED free
       /\ ret' = Refused(n, "noSpace")

(* AllocUpTo: a prefix, at most n long, of the lowest free run; shorter than *)
(* n only because the run ends there.                                        *)
Prefix(n) ==
    \/ \E s \in free, k \in 1 .. Total :
          /\ k <= n
          /\ Fits(s, k)
          /\ \A t \in free : s <= t
          /\ k < n => (s + k) \notin free
          /\ free' = free \ RunBlocks(s, k)
          /\ ret' = Granted(n, RunBlocks(s, k))
    \/ /\ free = {}
       /\ UNCHANGED free
       /\ ret' = Refused(n, "noSpace")

(* AllocRuns: exactly n blocks wherever they are, or none at all, and none   *)
(* only when fewer than n are free.                                          *)
Scattered(n) ==
    \/ \E S \in SUBSET free :
          /\ Cardinality(S) = n
          /\ free' = free \ S
          /\ ret' = Granted(n, S)
    \/ /\ Cardinality(free) < n
       /\ UNCHANGED free
       /\ ret' = Refused(n, "noSpace")

Release(S) ==
    /\ free' = free \cup S
    /\ ret' = Granted(0, {})

Withdraw(S) ==
    /\ free' = free \ S
    /\ ret' = Granted(0, {})

Reject ==
    /\ UNCHANGED free
    /\ \E e \in {"zeroLen", "outOfRange"} : ret' = Refused(0, e)

Next ==
    \/ \E n \in Requests \ {0} : Contiguous(n) \/ Prefix(n)
    \/ \E n \in Requests : Scattered(n)
    \/ \E S \in SUBSET Blocks : Release(S) \/ Withdraw(S)
    \/ Reject

Spec == Init /\ [][Next]_poolVars
=============================================================================
