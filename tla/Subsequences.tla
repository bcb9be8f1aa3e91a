---------------------------- MODULE Subsequences ----------------------------
(***************************************************************************)
(* What a sequence keeps of its elements.  Kept(s, S) is SelectSeq with    *)
(* membership in S as its test; as a recursive function of its own it can  *)
(* be reasoned about (Subsequences_proofs).                                *)
(***************************************************************************)
EXTENDS Naturals, Sequences

Kept(s, S) ==
    LET k[i \in 0..Len(s)] ==
            IF i = 0 THEN <<>>
            ELSE IF s[i] \in S THEN Append(k[i - 1], s[i]) ELSE k[i - 1]
    IN  k[Len(s)]

=============================================================================
