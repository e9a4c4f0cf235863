--------------------------- MODULE MCBootstrapRound ---------------------------
EXTENDS BootstrapRound

Signs == {1, -1}

Masks == {[j \in Coefficients |-> (m * (j + 1)) % Q] : m \in {0, 405, 1016}}

(* Half a turn apart. *)
Messages == {[j \in Coefficients |-> IF j = 0 THEN 256 ELSE 768]}

(* With and without rounding, at the word's full width and below it. *)
Decompositions ==
  {[qbit |-> 10, bits |-> 2, len |-> 3], [qbit |-> 10, bits |-> 2, len |-> 5],
   [qbit |-> 8, bits |-> 2, len |-> 2], [qbit |-> 8, bits |-> 2, len |-> 3],
   [qbit |-> 8, bits |-> 2, len |-> 4], [qbit |-> 8, bits |-> 3, len |-> 2],
   [qbit |-> 9, bits |-> 1, len |-> 7], [qbit |-> 7, bits |-> 2, len |-> 3],
   [qbit |-> 5, bits |-> 1, len |-> 5], [qbit |-> 5, bits |-> 4, len |-> 1]}
=============================================================================
