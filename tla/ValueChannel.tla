---------------------------- MODULE ValueChannel ----------------------------
(***************************************************************************)
(* What the Packer framework promises a caller that packs values into one  *)
(* Encoder and reads the bytes back with one Decoder in the same order:    *)
(* a FIFO channel of typed values.  The reader gets back exactly the       *)
(* values that were sent, in order, or stops (an abort); it never gets a   *)
(* value that was not sent.  A new call starts an empty channel.           *)
(***************************************************************************)
EXTENDS Naturals, Sequences

CONSTANT Items       \* the typed values [t, v] that can be sent

VARIABLES sent, received

vars == <<sent, received>>

Init == sent = <<>> /\ received = <<>>

Send(m) ==
    /\ sent' = Append(sent, m)
    /\ UNCHANGED received

Receive ==
    /\ Len(received) < Len(sent)
    /\ received' = Append(received, sent[Len(received) + 1])
    /\ UNCHANGED sent

Restart == sent' = <<>> /\ received' = <<>>

Next == (\E m \in Items : Send(m)) \/ Receive \/ Restart

Spec == Init /\ [][Next]_vars

=============================================================================
