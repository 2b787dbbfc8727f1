--------------------------- MODULE KeptSequences ---------------------------
(***************************************************************************)
(* Array.prototype.filter by membership in a set.  SelectSeq says the same *)
(* of an operator, of which nothing can be proved.                         *)
(***************************************************************************)
EXTENDS Naturals, Sequences

Kept(s, good) ==
    LET r[n \in 0..Len(s)] ==
            IF n = 0 THEN <<>>
            ELSE IF s[n] \in good THEN Append(r[n - 1], s[n]) ELSE r[n - 1]
    IN  r[Len(s)]
=============================================================================
