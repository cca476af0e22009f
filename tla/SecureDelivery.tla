--------------------------- MODULE SecureDelivery ---------------------------
(***************************************************************************)
(* What session encryption promises, with nothing about counters, keys or  *)
(* the transport: every channel is a sequence of sealed messages, no two   *)
(* of them under one nonce, and the receiver gets them one by one in the   *)
(* order in which they were sealed, possibly not all of them.              *)
(***************************************************************************)
EXTENDS Integers, Sequences

CONSTANT Channels
VARIABLES sent, got

ChannelInit == /\ sent = [k \in Channels |-> <<>>]
               /\ got = [k \in Channels |-> <<>>]

Seal(k) ==
    /\ Len(sent'[k]) = Len(sent[k]) + 1
    /\ LET m == sent'[k][Len(sent[k]) + 1]
       IN  /\ \A i \in 1..Len(sent[k]) : sent[k][i].iv # m.iv
           /\ sent' = [sent EXCEPT ![k] = Append(@, m)]
    /\ got' = got

Open(k) ==
    /\ Len(got[k]) < Len(sent[k])
    /\ got' = [got EXCEPT ![k] = Append(@, sent[k][Len(got[k]) + 1])]
    /\ sent' = sent

ChannelNext == \E k \in Channels : Seal(k) \/ Open(k)

ChannelSpec == ChannelInit /\ [][ChannelNext]_<<sent, got>>
=============================================================================
