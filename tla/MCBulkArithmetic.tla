--------------------------- MODULE MCBulkArithmetic ---------------------------
EXTENDS BulkArithmetic

Elements ==
  {[type |-> "UInt", mod |-> 0], [type |-> "ModTorus", mod |-> 4],
   [type |-> "ModTorus", mod |-> 8]}
  \cup {[type |-> "ModInt", mod |-> P] : P \in {0, 3, 4}}
=============================================================================
