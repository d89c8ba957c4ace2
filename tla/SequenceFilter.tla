----------------------------- MODULE SequenceFilter -----------------------------
(* What SelectSeq computes, as a recursive function that proofs can unfold.  *)
EXTENDS Naturals, Sequences

\* The elements of seq that are in set, in their order.
Keeping(seq, set) ==
  LET kept[n \in 0 .. Len(seq)] ==
        IF n = 0 THEN <<>>
        ELSE IF seq[n] \in set THEN Append(kept[n - 1], seq[n]) ELSE kept[n - 1]
  IN  kept[Len(seq)]
===============================================================================
