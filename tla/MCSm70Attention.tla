--------------------------- MODULE MCSm70Attention ---------------------------
(* Sm70Attention for TLC: nothing is shifted or divided.                   *)
EXTENDS Sm70Attention

MCNone == {}
==============================================================================
