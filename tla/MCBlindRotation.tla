--------------------------- MODULE MCBlindRotation ---------------------------
EXTENDS BlindRotation

(* Every coefficient off by Err, alternately up and down. *)
AlternatingErrors ==
  {[j \in Coefficients |-> IF (j + s) % 2 = 0 THEN Err ELSE -Err] : s \in {0, 1}}
=============================================================================
