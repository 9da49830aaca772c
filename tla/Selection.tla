----------------------------- MODULE Selection -----------------------------
(* The filter of an iterator over a listing, as a recursive function.      *)
EXTENDS Integers, Sequences

\* The elements of s that lie in T, in the order of s.
Selected(s, T) ==
    LET upto[n \in 0 .. Len(s)] ==
          IF n = 0 THEN <<>>
          ELSE IF s[n] \in T THEN Append(upto[n - 1], s[n]) ELSE upto[n - 1]
    IN  upto[Len(s)]
=============================================================================
