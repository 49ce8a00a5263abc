------------------------------- MODULE SeqNum -------------------------------
(***************************************************************************)
(* The wrapping sequence ids of the Pia Reliable stream                    *)
(* (pokeldn/ldn/reliable.py): every id is kept in 16 bits and compared     *)
(* inside half of the id space.  SeqSpace is 2^16 in the program.          *)
(***************************************************************************)
EXTENDS Integers

CONSTANTS
    SeqSpace,   \* number of sequence ids (65536)
    Start       \* the id both streams open with (0xFFF0)

ASSUME SeqSpaceAssumption == SeqSpace \in Nat \ {0}
ASSUME StartAssumption    == Start \in 0 .. SeqSpace - 1

Half  == SeqSpace \div 2

SeqId == 0 .. SeqSpace - 1

\* The id n places after s, as in (x + 1) & 0xFFFF.
Plus(s, n) == (s + n) % SeqSpace

\* The wrapping distance from b up to a, as in (a - b) & 0xFFFF.
Minus(a, b) == (a - b) % SeqSpace

\* Mutant: whatever is not the same id lies ahead.
SeqLtAny(a, b) == Minus(b, a) # 0

\* _seq_lt: a lies strictly before b, within half of the id space.
SeqLt(a, b) == Minus(b, a) # 0 /\ Minus(b, a) < Half

\* The id that the i-th frame of a stream carries (frames count from 0).
IdOf(i) == Plus(Start, i)

\* n is the length of the contiguous run of ids of H that begins at s: what a
\* "while s in H: s += 1" loop walks over.
IsRun(s, H, n) ==
    /\ \A k \in 0 .. n - 1 : Plus(s, k) \in H
    /\ Plus(s, n) \notin H
=============================================================================
