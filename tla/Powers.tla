------------------------------- MODULE Powers -------------------------------
(***************************************************************************)
(* Powers of two: what Word{1} << j is before it wraps, and what a shift   *)
(* by j multiplies or divides by; and sums, what a loop adds up.  They are *)
(* recursive functions, as facts about those can be proved by induction.   *)
(***************************************************************************)
EXTENDS Integers

pow2[j \in Nat] == IF j = 0 THEN 1 ELSE 2 * pow2[j - 1]

(* f[0] + ... + f[m - 1] *)
Sum(f, m) ==
  LET sum[j \in 0..m] == IF j = 0 THEN 0 ELSE sum[j - 1] + f[j - 1] IN sum[m]
=============================================================================
