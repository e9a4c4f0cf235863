---------------------------- MODULE MCEvaluation ----------------------------
EXTENDS Evaluation, TLC
WireSymmetry == Permutations(Wire)
=============================================================================
