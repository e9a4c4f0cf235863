-------------------------------- MODULE MCDial --------------------------------
EXTENDS Dial

(* Both sides of the 32-bit line, and both ends of either word. *)
Widths ==
  {[digits |-> 4, qbit |-> 3], [digits |-> 4, qbit |-> 4],
   [digits |-> 8, qbit |-> 4], [digits |-> 8, qbit |-> 5],
   [digits |-> 8, qbit |-> 7], [digits |-> 8, qbit |-> 8]}
=============================================================================
