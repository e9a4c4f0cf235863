--------------------------- MODULE MCSerialization ---------------------------
EXTENDS Serialization

(* Words of both widths: all their bits used, some of them, and a modulus  *)
(* that is no power of two.                                                *)
Torus32 == Scalar(Narrow, pow2[Octet * Narrow])
Torus64 == Scalar(Wide, pow2[Octet * Wide])
ModTorus == Scalar(Wide, pow2[Octet * Wide - 1])
ModInt == Scalar(Narrow, 3)

(* Every Serde, alone and packed. *)
Scripts ==
  {<<Torus32>>, <<Torus64, Torus32>>, <<ModInt, ModTorus>>,
   <<TLWE(Torus32, 2), TRLWE(Torus32, 2)>>,
   <<TLWE(Torus64, 1), TLWE(ModInt, 2), Torus64>>,
   <<TRGSW(Torus32, 2, 1), TLWE(Torus32, 1)>>,
   <<BootstrapKey(Torus32, 1, 2, 2)>>,
   <<KeySwitchKey(ModTorus, 1, 2, 2), TRLWE(Torus64, 1)>>,
   <<PublicKey(TLWE(Torus32, 2), 3), PublicKey(TRGSW(Torus32, 1, 1), 2)>>}

(* Contents in which no two scalars next to each other are the same, and   *)
(* some have their highest bit set.                                        *)
Filled(script, seed) ==
  [j \in DOMAIN script |->
    [i \in DOMAIN script[j] |-> (seed + 11 * j + 5 * i) % script[j][i].mod]]

HandedOver ==
  {[types |-> script, values |-> Filled(script, seed)] : script \in Scripts, seed \in {0, 7, 12}}
=============================================================================
