--------------------------- MODULE MCServerTasks ---------------------------
(* ServerTasks for TLC.  The requests, by name:                            *)
(*   single      a completion                                              *)
(*   family      a completion with one child (n_cmpl = 2)                  *)
(*   pinned      a completion that asks for slot 0                         *)
(*   hollow      the same with an empty prompt                             *)
(*   save        a SLOT_SAVE (or RESTORE, ERASE) of slot 0                 *)
EXTENDS ServerTasks

CONSTANTS single, family, pinned, hollow, save, none, long

MCKind     == [r \in Requests |-> IF r = save THEN "action" ELSE "completion"]
MCWant     == [r \in Requests |-> IF r \in {pinned, hollow, save} THEN 0 ELSE none]
MCChildren == [r \in Requests |-> IF r = family THEN 1 ELSE 0]
MCTokens   == [r \in Requests |-> IF r = long THEN 2 ELSE 1]
MCEmpty    == Requests \cap {hollow}
=============================================================================
