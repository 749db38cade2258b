--------------------------- MODULE MCServerQueue ---------------------------
(* ServerQueue for TLC.  The HTTP threads are interchangeable, and so are  *)
(* the tasks of one kind: the run without temporal properties uses this.   *)
(* In the other one the Visitors only pass the gate: they post nothing.    *)
EXTENDS ServerQueue, TLC

CONSTANT Visitors

Symmetry == Permutations(Clients) \cup Permutations(Tasks \ Light)

MCNext ==
    \/ \E c \in Clients \ Visitors : ClientStep(c)
    \/ \E c \in Visitors : Gate(c) \/ GateRecheck(c) \/ Return(c)
    \/ MainStep
    \/ WorkerStep
    \/ Terminate
    \/ Tick
MCSpec == Init /\ [][MCNext]_vars /\ Fairness
=============================================================================
