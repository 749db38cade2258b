-------------------------- MODULE MCStreamSession --------------------------
(* Instances of StreamSession for TLC. *)
EXTENDS StreamSession

MCOneConv == [r \in Requests |-> CHOOSE c \in Convs : TRUE]
MCSizes == {0, 2, 4}
MCBytes == [r \in Requests |-> IF r = CHOOSE q \in Requests : TRUE THEN 4 ELSE 0]
MCOffsets == {0}
=============================================================================
