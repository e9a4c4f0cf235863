--------------------------- MODULE MCNoiseTracking ---------------------------
EXTENDS NoiseTracking, TLC, FiniteSets

Interchangeable == Permutations(Place) \cup Permutations(Addr)

SmallWorst == [fresh |-> 1, gain |-> 1, eps |-> 0, cmuxEps |-> 0, ksGain |-> 1, ksEps |-> 0]
SmallAverage == [fresh |-> 0, gain |-> 1, eps |-> 0, cmuxEps |-> 0, ksGain |-> 1, ksEps |-> 0]

Taken == {p \in Place : kind[p] # None}

Known_(role) == {x \in Addr : db_[role][x] # None}

(* Bound: every place and every address is used with trlwes and trgsws     *)
(* only; once a key or an lwe has been there, two places and three         *)
(* addresses.                                                              *)
Bounded ==
  \/ Known_("key_noise") = {} /\ \A p \in Taken : kind[p] \in {"trlwe", "trgsw"}
  \/ /\ Cardinality(Taken) <= 2
     /\ Cardinality(Known_("noise") \cup Known_("key_noise") \cup {buf[p] : p \in Taken}) <= 3
=============================================================================
