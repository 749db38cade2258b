---------------------------- MODULE RequestLife ----------------------------
(***************************************************************************)
(* What the server promises of a request, without its queues: the tasks of *)
(* a request start together, in slots of their own, each gets one verdict, *)
(* and the client that waits learns it.  A client that got an error or     *)
(* went away leaves tasks behind, which may still start and end.           *)
(* ServerTasks implements it.                                              *)
(***************************************************************************)
EXTENDS Naturals, FiniteSets

CONSTANTS
    Requests,
    Children,       \* [Requests -> Nat]
    NumSlots

VARIABLES
    phase,          \* [Requests -> {"new", "reading", "done", "failed", "stopped"}]
    running,        \* the tasks that are in slots
    verdict         \* [tasks -> <<>>, <<"final">> or <<"error">>]

vars == <<phase, running, verdict>>

TasksOf(r) == {r} \X (0 .. Children[r])
Posted     == UNION {TasksOf(r) : r \in {r \in Requests : phase[r] # "new"}}
Open       == {t \in Posted : verdict[t] = <<>>}

Init ==
    /\ phase = [r \in Requests |-> "new"]
    /\ running = {}
    /\ verdict = [t \in UNION {TasksOf(r) : r \in Requests} |-> <<>>]

Post(r) ==
    /\ phase[r] = "new"
    /\ phase' = [phase EXCEPT ![r] = "reading"]
    /\ UNCHANGED <<running, verdict>>

Start(r) ==
    /\ TasksOf(r) \subseteq Open \ running
    /\ Cardinality(running) + Cardinality(TasksOf(r)) <= NumSlots
    /\ running' = running \cup TasksOf(r)
    /\ UNCHANGED <<phase, verdict>>

\* a task ends, is refused or does what it is for without a slot; an error may end all
\* that run
Answer(T, kind) ==
    /\ T # {} /\ T \subseteq Open
    /\ Cardinality(T) = 1 \/ (kind = "error" /\ T = running)
    /\ verdict' = [t \in DOMAIN verdict |-> IF t \in T THEN <<kind>> ELSE verdict[t]]
    /\ running' = running \ T
    /\ UNCHANGED phase

\* a task is cancelled: nobody waits for it
Drop(t) ==
    /\ t \in running /\ phase[t[1]] \in {"failed", "stopped"}
    /\ running' = running \ {t}
    /\ UNCHANGED <<phase, verdict>>

Close(r, why) ==
    /\ phase[r] = "reading"
    /\ why = "done"   => \A t \in TasksOf(r) : verdict[t] = <<"final">>
    /\ why = "failed" => \E t \in TasksOf(r) : verdict[t] = <<"error">>
    /\ phase' = [phase EXCEPT ![r] = why]
    /\ UNCHANGED <<running, verdict>>

Next ==
    \/ \E r \in Requests : Post(r) \/ Start(r) \/ \E why \in {"done", "failed", "stopped"} : Close(r, why)
    \/ \E kind \in {"final", "error"} : Answer(running, kind) \/ \E t \in Open : Answer({t}, kind)
    \/ \E t \in running : Drop(t)

Spec == Init /\ [][Next]_vars
=============================================================================
