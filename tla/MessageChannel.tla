--------------------------- MODULE MessageChannel ---------------------------
(***************************************************************************)
(* What one direction of a connection promises the applications at its two *)
(* ends.  Messages are handed over one at a time, in the order in which    *)
(* they were accepted for sending, none twice and none that was not sent;  *)
(* any of them may arrive garbled, and the channel may stop at any point.  *)
(* That holds until a message on its way loses its length: from then on    *)
(* the channel is broken and hands over anything any number of times.      *)
(***************************************************************************)
EXTENDS Integers, Sequences

CONSTANTS
  Msgs,
  Garbled  (* a message of whose bytes nothing is promised *)

VARIABLES
  sent,      (* messages accepted for sending, in order                    *)
  delivered, (* messages handed to the receiver                            *)
  broken     (* the receiver no longer knows where a message begins        *)

Init == sent = <<>> /\ delivered = <<>> /\ broken = FALSE

Accept == \E m \in Msgs : sent' = Append(sent, m) /\ UNCHANGED <<delivered, broken>>

Deliver ==
  /\ ~broken
  /\ Len(delivered) < Len(sent)
  /\ \E m \in {sent[Len(delivered) + 1], Garbled} : delivered' = Append(delivered, m)
  /\ UNCHANGED <<sent, broken>>

\* Only a message on its way can break the channel.
Break ==
  /\ ~broken
  /\ Len(delivered) < Len(sent)
  /\ broken' = TRUE
  /\ UNCHANGED <<sent, delivered>>

DeliverAnything ==
  /\ broken
  /\ delivered' = Append(delivered, Garbled)
  /\ UNCHANGED <<sent, broken>>

Next == Accept \/ Deliver \/ Break \/ DeliverAnything

Spec == Init /\ [][Next]_<<sent, delivered, broken>>
=============================================================================
