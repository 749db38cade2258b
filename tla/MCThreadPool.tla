---------------------------- MODULE MCThreadPool ----------------------------
(* ThreadPool for TLC: two mul_mats around an empty op, and a fused pair.  *)
EXTENDS ThreadPool

MCGraphs == {<<"mul_mat", "nop", "mul_mat">>, <<"fuse", "op", "op">>}
=============================================================================
