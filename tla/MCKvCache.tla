----------------------------- MODULE MCKvCache -----------------------------
(* KvCache for TLC, in both layouts: one stream of three cells that two    *)
(* sequences share - of two cells when positions are divided - or a stream *)
(* of two cells for each.                                                  *)
EXTENDS Integers, Sequences

VARIABLES stream, rope, copies, pc, ubatches, sinfos,
          layout        \* "shared", "divided" or "separate", chosen at the start

vars == <<stream, rope, copies, pc, ubatches, sinfos, layout>>

\* removals anywhere and shifts; one-token ubatches
Shared == INSTANCE KvCache WITH
    NumSeqs <- 2, NumCells <- 3, Unified <- TRUE, Window <- 0, NumUbatch <- 1, MaxTokens <- 2, MaxPos <- 2,
    MaxCopies <- 2, Middle <- TRUE, Deltas <- {-1}, Divisors <- {}, Coupled <- FALSE

\* the same with divisions
Divided == INSTANCE KvCache WITH
    NumSeqs <- 2, NumCells <- 2, Unified <- TRUE, Window <- 0, NumUbatch <- 1, MaxTokens <- 2, MaxPos <- 2,
    MaxCopies <- 2, Middle <- TRUE, Deltas <- {-1}, Divisors <- {2}, Coupled <- FALSE

\* copies between streams, with shifts
Separate == INSTANCE KvCache WITH
    NumSeqs <- 2, NumCells <- 2, Unified <- FALSE, Window <- 0, NumUbatch <- 2, MaxTokens <- 2, MaxPos <- 2,
    MaxCopies <- 2, Middle <- FALSE, Deltas <- {-1}, Divisors <- {}, Coupled <- FALSE

Of(shared, divided, separate) ==
    CASE layout = "shared" -> shared [] layout = "divided" -> divided [] OTHER -> separate

Init == layout \in {"shared", "divided", "separate"} /\ Of(Shared!Init, Divided!Init, Separate!Init)
Next == UNCHANGED layout /\ Of(Shared!Next, Divided!Next, Separate!Next)
Spec == Init /\ [][Next]_vars

-----------------------------------------------------------------------------
(* KvCache's properties, of the layout there is.                           *)

Typed == Of(Shared!TypeOK, Divided!TypeOK, Separate!TypeOK)

Indexed == Of(Shared!IndexMatches, Divided!IndexMatches, Separate!IndexMatches)

Usable == Of(Shared!SlotsStayUsable, Divided!SlotsStayUsable, Separate!SlotsStayUsable)

\* not so after a division
Keyed == Of(Shared!KeysMatchPositions, TRUE, Separate!KeysMatchPositions)

Restored == Of(Shared!Restores, Divided!Restores, Separate!Restores)

Removed == Of(Shared!FailureRemoves, Divided!FailureRemoves, Separate!FailureRemoves)

\* In each layout: what is kept beside the cells agrees with them (llama-kv-cells.h:461-499),
\* the cells found for a ubatch can be used when it is placed (apply_ubatch), and the keys are
\* rotated for their positions after the pending copies and shifts (llama-kv-cells.h:469).
CacheAgrees == Typed /\ Indexed /\ Usable /\ Keyed

\* In each layout: prepare() leaves the cells as they were, with or without success
\* (llama-kv-cache.cpp:795), and a ubatch that failed is not in them (llama-context.cpp:1819).
DecodeCleansUp == [][Restored /\ Removed]_vars
============================================================================
