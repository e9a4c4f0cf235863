--------------------------- MODULE BootstrapPromise ---------------------------
(***************************************************************************)
(* What a gate needs of a bootstrap, as one step: Gates' GateBootstrap on  *)
(* the phase of the ciphertext it is given.                                *)
(***************************************************************************)
EXTENDS Gates

VARIABLES
  input,    (* the phase of the ciphertext, and the mu it is to decide for *)
  done,
  output    (* the phase of the result; 0 before                           *)

vars == <<input, done, output>>

Init ==
  /\ input \in [mu : 0..(Turn - 1), phase : 0..(Turn - 1)]
  /\ done = FALSE
  /\ output = 0

Bootstrap ==
  /\ done = FALSE
  /\ done' = TRUE
  /\ \E p \in GateBootstrap(input.mu, input.phase) : output' = p % Turn
  /\ UNCHANGED input

Spec == Init /\ [][Bootstrap]_vars
=============================================================================
