--------------------------- MODULE MCChannelWiring ---------------------------
(* ChannelWiring for TLC: the bounds let in loads that are too heavy.         *)
EXTENDS ChannelWiring

\* One more than orderStatusChan and than hallCallChan hold.
OneStatusMore == StatusCapacity + 1
OneCallMore == CallCapacity + 1
==============================================================================
