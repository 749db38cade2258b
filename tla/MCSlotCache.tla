---------------------------- MODULE MCSlotCache ----------------------------
(* SlotCache for TLC: the tasks.                                           *)
EXTENDS SlotCache

CONSTANTS a, b

single(prompt, reuse) == [prompt |-> prompt, cache |-> TRUE, reuse |-> reuse, family |-> "single"]

\* two tokens; one that the other ends with, found by chunk reuse; two completions of
\* one; a prompt that is too long
MCTasks == {single(<<a, b>>, 0), single(<<b>>, 1), single(<<b, a, a, a>>, 0),
            [prompt |-> <<a, b>>, cache |-> TRUE, reuse |-> 0, family |-> "parent"]}
============================================================================
