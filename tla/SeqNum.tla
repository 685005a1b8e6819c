------------------------------- MODULE SeqNum -------------------------------
(***************************************************************************)
(* Serial-number arithmetic on RTP sequence numbers.  The code keeps them  *)
(* in uint16_t, so SeqMod is 65536 in the program; the models instantiate  *)
(* a smaller even modulus, which keeps every wrap-around reachable.        *)
(*                                                                         *)
(* The operators are written with one conditional correction instead of    *)
(* `%': both arguments are always in Seqs, so one correction is enough,    *)
(* and the provers decide the result by linear arithmetic.                 *)
(***************************************************************************)
EXTENDS Integers

CONSTANT SeqMod      \* 2^16 in the program

Half == SeqMod \div 2       \* 0x8000

ASSUME SeqModAssumption == SeqMod \in Nat /\ Half \in Nat \ {0} /\ SeqMod = 2 * Half

Seqs == 0 .. SeqMod - 1

\* (uint16_t)(a + k) for a \in Seqs and k \in 0 .. SeqMod
SeqPlus(a, k) == IF a + k >= SeqMod THEN a + k - SeqMod ELSE a + k

\* (uint16_t)(a - b)
SeqDiff(a, b) == IF a >= b THEN a - b ELSE a - b + SeqMod

\* is_newer_seq / seq_gt: a is after b in serial order.  Neither of two
\* numbers exactly Half apart is newer than the other.
IsNewer(a, b) == a # b /\ SeqDiff(a, b) < Half

Newest(a, b) == IF IsNewer(a, b) THEN a ELSE b

\* The sequence numbers strictly between a and b, walking up from a
\* (the loop `for (i = a + 1; i != b; i++)' over uint16_t).
Between(a, b) == {s \in Seqs : 0 < SeqDiff(s, a) /\ SeqDiff(s, a) < SeqDiff(b, a)}

=============================================================================
