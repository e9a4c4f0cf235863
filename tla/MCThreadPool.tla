---------------------------- MODULE MCThreadPool ----------------------------
(* Small instances of ThreadPool for TLC: who submits what. *)
EXTENDS ThreadPool, TLC

CONSTANTS w1, w2, c1, c2, t1, t2, t3, t4

(* c1 submits t1, which submits t2; c2 submits t3, which submits t4. *)
PairsSubmitter == (t1 :> c1) @@ (t2 :> t1) @@ (t3 :> c2) @@ (t4 :> t3)

(* c1 submits t1, which submits t2, which submits t3; c2 submits t4. *)
ChainSubmitter == (t1 :> c1) @@ (t2 :> t1) @@ (t3 :> t2) @@ (t4 :> c2)
=============================================================================
