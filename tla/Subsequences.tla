----------------------------- MODULE Subsequences -----------------------------
(***************************************************************************)
(* Vec::retain and Iterator::filter, as the loop uses them.  SelectSeq is  *)
(* unknown to the prover; this definition can be unfolded, and its test    *)
(* is membership in a set.                                                 *)
(***************************************************************************)
EXTENDS Naturals, Sequences

\* The elements of s that are in S, in their order.
Only(s, S) ==
    LET kept[n \in 0..Len(s)] ==
            IF n = 0 THEN <<>>
            ELSE IF s[n] \in S THEN Append(kept[n - 1], s[n]) ELSE kept[n - 1]
    IN  kept[Len(s)]

\* The elements of s that are not in S.
Without(s, S) == Only(s, {s[i] : i \in DOMAIN s} \ S)
=============================================================================
