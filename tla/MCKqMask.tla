------------------------------ MODULE MCKqMask ------------------------------
(* KqMask, and KvCache with it, for TLC: nothing is shifted or divided.    *)
EXTENDS KqMask

MCNone == {}
=============================================================================
