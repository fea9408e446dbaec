------------------------------- MODULE Sieve -------------------------------
(* Loops over a sequence that append to their result as they go.           *)
EXTENDS Integers, Sequences, FiniteSetsExt

\* Every element of s replaced by the sequence f gives for it.
Spread(s, f) ==
  LET out[k \in 0..Len(s)] == IF k = 0 THEN <<>> ELSE out[k - 1] \o f[s[k]]
  IN out[Len(s)]

\* The elements of s that are in A, in their order.
Sift(s, A) == Spread(s, [x \in Range(s) |-> IF x \in A THEN <<x>> ELSE <<>>])

\* Every c in s replaced by a sequence.
Substitute(s, c, new) == Spread(s, [x \in Range(s) |-> IF x = c THEN new ELSE <<x>>])
=============================================================================
