------------------------------- MODULE Extents -------------------------------
(***************************************************************************)
(* A block device as the records that were written to it, by offset, each  *)
(* with its length: a write drops the records it overlaps, and a read at   *)
(* an offset where no record starts returns garbage.                       *)
(***************************************************************************)
EXTENDS Integers, Sequences, TLC

NoFn == <<>>                      \* the function with an empty domain
Garbage == [t |-> "garbage"]
ceilTo(n, a) == ((n + a - 1) \div a) * a

Request(off, len, what) == [off |-> off, len |-> len, what |-> what]

\* The records that a write leaves alone.
Clear(d, r) == {o \in DOMAIN d : o + d[o].len <= r.off \/ r.off + r.len <= o}

\* WriteAt, when the device takes it.
overwrite(d, r) ==
    [o \in Clear(d, r) \cup {r.off} |-> IF o = r.off THEN [len |-> r.len, what |-> r.what] ELSE d[o]]
=============================================================================
