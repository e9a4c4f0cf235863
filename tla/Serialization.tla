---------------------------- MODULE Serialization ----------------------------
(***************************************************************************)
(* SerializedTransport: serialize::Writer, Reader and the Serde of every   *)
(* type that crosses a wire (src/include/tfhe/serialize).  Several values  *)
(* may be packed into one buffer; no type and no length is written, so the *)
(* reader finds every field by the order of the writes alone.  The buffer  *)
(* may lose its end on the way.  (Init, Next, Spec and vars carry the      *)
(* module's name, as its proofs stand beside Evaluation's.)                *)
(***************************************************************************)
EXTENDS Integers, Sequences, Powers

CONSTANTS
  Octet,      (* bits of a byte                                            *)
  Narrow,     (* bytes of a uint32_t                                       *)
  Wide,       (* bytes of a uint64_t or a double                           *)
  Handed      (* bound: what is handed over in one buffer, as              *)
              (* [types |-> ..., values |-> ...], one value of each type   *)

(* A type is the scalars its Serde goes through, in that order: each the   *)
(* bytes of its raw value and what its constructor reduces that by (2^qbit *)
(* of a ModTorus, P of a ModInt, 2 to all its bits where it keeps them all *)
(* or, a double below 1, loses none).                                      *)
ScalarType == [bytes : {Narrow, Wide}, mod : Nat \ {0}]

Fits(t) == t.mod <= pow2[Octet * t.bytes]

IsValue(T, v) == Len(v) = Len(T) /\ \A j \in DOMAIN T : v[j] < T[j].mod

ASSUME SerializationAssumption ==
  /\ Octet \in Nat \ {0}
  /\ Narrow \in Nat \ {0} /\ Wide \in Nat \ {0}
  /\ \A h \in Handed :
       /\ h.types \in Seq(Seq(ScalarType))
       /\ h.values \in Seq(Seq(Nat))
       /\ Len(h.values) = Len(h.types)
       /\ \A j \in DOMAIN h.types :
            /\ \A i \in DOMAIN h.types[j] : Fits(h.types[j][i])
            /\ IsValue(h.types[j], h.values[j])

Scalar(bytes, mod) == <<[bytes |-> bytes, mod |-> mod]>>

(* count copies of T back to back *)
Times(count, T) == [j \in 1..(count * Len(T)) |-> T[((j - 1) % Len(T)) + 1]]

Vector(T, n) == Times(n, T)
Poly(T, N) == Times(N, T)
TLWE(T, n) == Vector(T, n) \o T
TRLWE(T, N) == Poly(T, N) \o Poly(T, N)
TRGSW(T, N, l) == Times(2 * l, TRLWE(T, N))
BootstrapKey(T, N, l, n) == Times(n, TRGSW(T, N, l))
KeySwitchKey(T, n, t, m) == Times(m, Times(t, TLWE(T, n)))
PublicKey(C, PkSamples) == Times(PkSamples, C)

VARIABLES
  types,      (* the types handed over                                     *)
  values,     (* and the values                                            *)
  buf,        (* the Writer's buffer                                       *)
  written,    (* how many values are in it                                 *)
  wire,       (* what arrives                                              *)
  pos,        (* the Reader's position                                     *)
  received,   (* the values read                                           *)
  pc          (* "writing" | "reading" | "done" | "threw"                  *)

serializationVars == <<types, values, buf, written, wire, pos, received, pc>>

-----------------------------------------------------------------------------

(* Mutant: the host's own order on a big-endian host. *)
BytesOfReversed(v, bytes) ==
  [j \in 1..bytes |-> (v \div pow2[Octet * (bytes - j)]) % pow2[Octet]]

(* write_u32, write_u64: little-endian. *)
BytesOf(v, bytes) == [j \in 1..bytes |-> (v \div pow2[Octet * (j - 1)]) % pow2[Octet]]

(* Serde<T>::write: its scalars, one behind the other. *)
Written(T, v) ==
  LET after[j \in 0..Len(T)] ==
        IF j = 0 THEN <<>> ELSE after[j - 1] \o BytesOf(v[j], T[j].bytes)
  IN  after[Len(T)]

(* Mutant: one byte past the end is let through. *)
UnderrunLate(p, bytes) == p + bytes > Len(wire) + 1

(* Reader::require *)
Underrun(p, bytes) == p + bytes > Len(wire)

(* bytes_[p]: past the end it would be anything, 0 here. *)
ByteAt(p) == IF p < Len(wire) THEN wire[p + 1] ELSE 0

(* read_u32, read_u64, and the constructor, which reduces. *)
WordAt(p, t) ==
  Sum([j \in 0..(t.bytes - 1) |-> ByteAt(p + j) * pow2[Octet * j]], t.bytes) % t.mod

(* Serde<T>::read of one scalar, if none before it threw. *)
ReadScalar(s, t) ==
  IF s.threw THEN s
  ELSE IF Underrun(s.pos, t.bytes) THEN [s EXCEPT !.threw = TRUE]
  ELSE [threw |-> FALSE, pos |-> s.pos + t.bytes, value |-> Append(s.value, WordAt(s.pos, t))]

(* Serde<T>::read at a position: what it returns, where it stops, and      *)
(* whether it threw on the way.                                            *)
ReadOf(T, p) ==
  LET after[j \in 0..Len(T)] ==
        IF j = 0 THEN [threw |-> FALSE, pos |-> p, value |-> <<>>]
        ELSE ReadScalar(after[j - 1], T[j])
  IN  after[Len(T)]

-----------------------------------------------------------------------------

SerializationInit ==
  /\ \E h \in Handed : types = h.types /\ values = h.values
  /\ buf = <<>>
  /\ written = 0
  /\ wire = <<>>
  /\ pos = 0
  /\ received = <<>>
  /\ pc = "writing"

(* write(Writer&, value) of the next value. *)
Write ==
  /\ pc = "writing"
  /\ written < Len(types)
  /\ buf' = buf \o Written(types[written + 1], values[written + 1])
  /\ written' = written + 1
  /\ UNCHANGED <<types, values, wire, pos, received, pc>>

(* release(), and whatever of the bytes arrives. *)
Release ==
  /\ pc = "writing"
  /\ written = Len(types)
  /\ \E kept \in 0..Len(buf) : wire' = SubSeq(buf, 1, kept)
  /\ buf' = <<>>
  /\ pc' = "reading"
  /\ UNCHANGED <<types, values, written, pos, received>>

(* read<T>(Reader&) of the type that comes next. *)
Read ==
  /\ pc = "reading"
  /\ Len(received) < Len(types)
  /\ LET r == ReadOf(types[Len(received) + 1], pos)
     IN  /\ pos' = r.pos
         /\ IF r.threw
            THEN pc' = "threw" /\ UNCHANGED received
            ELSE received' = Append(received, r.value) /\ UNCHANGED pc
  /\ UNCHANGED <<types, values, buf, written, wire>>

Finish ==
  /\ pc = "reading"
  /\ Len(received) = Len(types)
  /\ pc' = "done"
  /\ UNCHANGED <<types, values, buf, written, wire, pos, received>>

Stop == pc \in {"done", "threw"} /\ UNCHANGED serializationVars

SerializationNext == Write \/ Release \/ Read \/ Finish \/ Stop

SerializationSpec == SerializationInit /\ [][SerializationNext]_serializationVars

-----------------------------------------------------------------------------

SizeOf(T) == Sum([j \in 0..(Len(T) - 1) |-> T[j + 1].bytes], Len(T))

(* The bytes the first m values take. *)
BytesUpTo(m) == Sum([j \in 0..(m - 1) |-> SizeOf(types[j + 1])], m)

(* The reader never runs past the end, and stands exactly behind the       *)
(* values it has read: the lengths both sides derive from the types agree. *)
ReaderInStep ==
  /\ pos <= Len(wire)
  /\ pc \in {"reading", "done"} => pos = BytesUpTo(Len(received))

(* How many values arrive whole. *)
Whole ==
  IF pc = "writing" THEN 0
  ELSE CHOOSE m \in 0..Len(types) :
         /\ BytesUpTo(m) <= Len(wire)
         /\ m = Len(types) \/ BytesUpTo(m + 1) > Len(wire)

(* Packed into one buffer or not, cut short or not: a value comes out as   *)
(* it went in, or the reader throws at the first that is not all there.    *)
Transport ==
  INSTANCE HandOff
    WITH sent <- SubSeq(values, 1, written), received <- received, arriving <- Whole,
         status <- IF pc = "writing" THEN "sending"
                   ELSE IF pc = "reading" THEN "receiving" ELSE pc

HandsOffUnchanged == Transport!Spec
=============================================================================
