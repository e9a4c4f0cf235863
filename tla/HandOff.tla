------------------------------- MODULE HandOff -------------------------------
(***************************************************************************)
(* What a Transport promises (src/include/tfhe/transport.hpp): the values  *)
(* come out at the other end as they went in, in order.  DirectTransport   *)
(* is this as it stands.  Where something can be lost on the way, the      *)
(* receiver throws instead of making up the first value that is missing.   *)
(***************************************************************************)
EXTENDS Naturals, Sequences

VARIABLES
  sent,       (* the values handed over, in order                          *)
  received,   (* the values that have come out                             *)
  arriving,   (* how many of them arrive whole                             *)
  status      (* "sending" | "receiving" | "done" | "threw"                *)

vars == <<sent, received, arriving, status>>

Init ==
  /\ sent = <<>>
  /\ received = <<>>
  /\ arriving = 0
  /\ status = "sending"

Send ==
  /\ status = "sending"
  /\ Len(sent') = Len(sent) + 1
  /\ \A j \in DOMAIN sent : sent'[j] = sent[j]
  /\ UNCHANGED <<received, arriving, status>>

Arrive ==
  /\ status = "sending"
  /\ arriving' \in 0..Len(sent)
  /\ status' = "receiving"
  /\ UNCHANGED <<sent, received>>

Receive ==
  /\ status = "receiving"
  /\ Len(received) < arriving
  /\ received' = Append(received, sent[Len(received) + 1])
  /\ UNCHANGED <<sent, arriving, status>>

Finish ==
  /\ status = "receiving"
  /\ \/ Len(received) = Len(sent) /\ status' = "done"
     \/ Len(received) = arriving /\ arriving < Len(sent) /\ status' = "threw"
  /\ UNCHANGED <<sent, received, arriving>>

Next == Send \/ Arrive \/ Receive \/ Finish

Spec == Init /\ [][Next]_vars
=============================================================================
