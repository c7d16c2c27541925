------------------------- MODULE MCChannelDelivery -------------------------
(* Instances of ChannelDelivery for TLC.                                   *)
EXTENDS ChannelDelivery

CONSTANTS d1, d2, w1, w2
=============================================================================
