------------------------------ MODULE KvCache ------------------------------
(***************************************************************************)
(* src/llama-kv-cells.h and src/llama-kv-cache.cpp: the cells of the KV    *)
(* cache, shared by sequences, and llama_context::decode, which places a   *)
(* batch in them.                                                          *)
(*                                                                         *)
(* A cell knows its position, the shift that its keys still need and the   *)
(* sequences it belongs to; the set of used cells and the count of each    *)
(* position of each sequence are kept beside the cells, step by step.  A   *)
(* batch is cut into ubatches; prepare() finds cells for all of them by    *)
(* placing them and taking them back; then they are placed for good, one   *)
(* by one, each with a graph that writes the keys and may fail.            *)
(*                                                                         *)
(* A unified cache is one stream of cells; otherwise each sequence has its *)
(* own.  What the keys hold is abstracted to the position they are rotated *)
(* for ("rope").  2D positions, state files and the layers that share      *)
(* another cache's cells are left out.                                     *)
(***************************************************************************)
EXTENDS Integers, Sequences, SequencesExt, FiniteSets, FiniteSetsExt

CONSTANTS
    NumSeqs, NumCells,
    Unified,        \* n_stream = 1
    Window,         \* n_swa, type STANDARD; 0: no sliding window
    NumUbatch,      \* n_ubatch
    MaxTokens,      \* bound: tokens of a sequence in a batch
    MaxPos,         \* bound: positions and shifts
    MaxCopies,      \* bound: buffer copies that are pending
    Middle,         \* whether callers remove positions from the middle of a sequence
    Deltas,         \* the shifts callers of seq_add use
    Divisors,       \* the divisors callers of seq_div use
    Coupled         \* whether callers decode tokens of several sequences

Seqs      == 0 .. NumSeqs - 1
Cells     == 0 .. NumCells - 1
Streams   == IF Unified THEN {0} ELSE Seqs
StreamOf(s) == IF Unified THEN 0 ELSE s     \* seq_to_stream
Positions == 0 .. MaxPos

ASSUME SizesAssumption ==
    /\ {NumSeqs, NumCells, NumUbatch, MaxTokens} \subseteq Nat \ {0}
    /\ {Window, MaxPos, MaxCopies} \subseteq Nat
    /\ {Unified, Middle, Coupled} \subseteq BOOLEAN
    /\ Deltas \subseteq Int \ {0} /\ Divisors \subseteq Nat \ {0, 1}

VARIABLES
    stream,     \* [Streams -> llama_kv_cells with v_heads]
    rope,       \* [Streams -> [Cells -> Int]]: the position the keys are rotated for
    copies,     \* sc_info: the buffer copies to do at the next update
    pc,         \* "idle", or where decode is: "prepare", "retry", "apply"
    ubatches,   \* the ubatches to place
    sinfos      \* the cells found for them by prepare

vars == <<stream, rope, copies, pc, ubatches, sinfos>>

EmptyCell   == [pos |-> -1, shift |-> 0, seqs |-> {}]
EmptyStream == [cell |-> [i \in Cells |-> EmptyCell], used |-> {}, has_shift |-> FALSE,
                seq_pos |-> [s \in Seqs |-> [p \in Positions |-> 0]], head |-> 0]

Init ==
    /\ stream = [k \in Streams |-> EmptyStream]
    /\ rope = [k \in Streams |-> [i \in Cells |-> 0]]
    /\ copies = <<>> /\ pc = "idle" /\ ubatches = <<>> /\ sinfos = <<>>

-----------------------------------------------------------------------------
(* llama_kv_cells: operations on one cell i of the stream st.              *)

IsEmpty(st, i) == st.cell[i].pos = -1

\* seq_pos_rm, seq_pos_add: one less or one more of the position for all the sequences
SeqPos(st, i, n) ==
    LET c == st.cell[i]
        counts(s) == IF s \in c.seqs THEN [st.seq_pos[s] EXCEPT ![c.pos] = @ + n] ELSE st.seq_pos[s]
    IN  [st EXCEPT !.seq_pos = [s \in Seqs |-> counts(s)]]
SeqPosRm(st, i)  == SeqPos(st, i, -1)
SeqPosAdd(st, i) == SeqPos(st, i, 1)

Free(st, i) == [st EXCEPT !.cell[i] = EmptyCell, !.used = @ \ {i}]

Rm(st, i) == Free(SeqPosRm(st, i), i)

CellSeqRm(st, i, s) ==
    LET t == [st EXCEPT !.cell[i].seqs = @ \ {s}, !.seq_pos[s][st.cell[i].pos] = @ - 1]
    IN  IF t.cell[i].seqs = {} THEN Free(t, i) ELSE t

\* Mutant: the position is no longer counted for the sequence that is kept.
CellSeqKeepUncounted(st, i, s) ==
    IF s \in st.cell[i].seqs THEN [SeqPosRm(st, i) EXCEPT !.cell[i].seqs = {s}]
    ELSE IF st.cell[i].seqs # {} THEN Rm(st, i) ELSE st

CellSeqKeep(st, i, s) ==
    IF s \in st.cell[i].seqs THEN SeqPosAdd([SeqPosRm(st, i) EXCEPT !.cell[i].seqs = {s}], i)
    ELSE IF st.cell[i].seqs # {} THEN Rm(st, i) ELSE st

CellSeqAdd(st, i, s) ==
    [st EXCEPT !.cell[i].seqs = @ \cup {s}, !.seq_pos[s][st.cell[i].pos] = @ + 1]

PosSet(st, i, p) == [st EXCEPT !.cell[i].pos = p, !.used = @ \cup {i}]

PosAdd(st, i, d) ==
    LET c    == st.cell[i]
        cell == [pos |-> c.pos + d, shift |-> c.shift + d, seqs |-> c.seqs]
        t    == [SeqPosRm(st, i) EXCEPT !.cell[i] = cell, !.has_shift = TRUE]
    IN  IF cell.pos < 0 THEN Free(t, i) ELSE SeqPosAdd(t, i)

PosDiv(st, i, d) ==
    LET c    == st.cell[i]
        cell == [pos |-> c.pos \div d, shift |-> c.shift + c.pos - (c.pos \div d), seqs |-> c.seqs]
    IN  SeqPosAdd([SeqPosRm(st, i) EXCEPT !.cell[i] = cell, !.has_shift = TRUE], i)

\* set() of one cell, to what cp() kept of it: the shift is not among it
SetCell(st, i, cell) ==
    LET t == IF IsEmpty(st, i) THEN st ELSE SeqPosRm(st, i)
        c == [pos |-> cell.pos, shift |-> st.cell[i].shift, seqs |-> cell.seqs]
        u == [t EXCEPT !.cell[i] = c, !.used = IF c.pos = -1 THEN @ \ {i} ELSE @ \cup {i}]
    IN  IF c.pos = -1 THEN u ELSE SeqPosAdd(u, i)

PosOf(st, s)     == {p \in Positions : st.seq_pos[s][p] # 0}
SeqPosMin(st, s) == IF PosOf(st, s) = {} THEN -1 ELSE Min(PosOf(st, s))
SeqPosMax(st, s) == IF PosOf(st, s) = {} THEN -1 ELSE Max(PosOf(st, s))

\* the cells with a position in [p0, p1); p1 = -1: no end
InRange(st, p0, p1) == {i \in Cells : st.cell[i].pos >= p0 /\ ~IsEmpty(st, i) /\ (p1 # -1 => st.cell[i].pos < p1)}
WithSeq(st, s, p0, p1) == {i \in InRange(st, p0, p1) : s \in st.cell[i].seqs}

-----------------------------------------------------------------------------
(* llama_kv_cache: the operations on one stream.                           *)

Freed(before, after) == {i \in Cells : ~IsEmpty(before, i) /\ IsEmpty(after, i)}

\* the head goes back to the first cell that was freed
HeadBack(before, after) ==
    LET freed == Freed(before, after)
    IN  IF freed # {} /\ Min(freed) < after.head THEN [after EXCEPT !.head = Min(freed)] ELSE after

SeqRm(st, s, p0, p1) ==
    HeadBack(st, FoldSet(LAMBDA i, t : CellSeqRm(t, i, s), st, WithSeq(st, s, p0, p1)))

RmAny(st, p0, p1) == HeadBack(st, FoldSet(LAMBDA i, t : Rm(t, i), st, InRange(st, p0, p1)))

SeqKeep(st, s) == HeadBack(st, FoldSet(LAMBDA i, t : CellSeqKeep(t, i, s), st, Cells))

SeqCp(st, s, d, p0, p1) == FoldSet(LAMBDA i, t : CellSeqAdd(t, i, d), st, WithSeq(st, s, p0, p1))

SeqAdd(st, s, p0, p1, delta) ==
    LET t == FoldSet(LAMBDA i, t : PosAdd(t, i, delta), st, WithSeq(st, s, p0, p1))
    IN  [t EXCEPT !.head = IF Freed(st, t) = {} THEN 0 ELSE Min(Freed(st, t))]

SeqDiv(st, s, p0, p1, d) == FoldSet(LAMBDA i, t : PosDiv(t, i, d), st, WithSeq(st, s, p0, p1))

\* Mutant: the copied cells do not know of the pending shift.
CopyStreamUnshifted(from, s, d) ==
    LET copy(t, i) == CellSeqAdd(PosSet(t, i, from.cell[i].pos), i, d)
    IN  [FoldSet(LAMBDA i, t : copy(t, i), EmptyStream, WithSeq(from, s, 0, -1)) EXCEPT !.head = from.head]

\* one cell of seq_cp to another stream: the pending shift is to be applied there too
CopyCell(st, i, cell, d) ==
    LET t == CellSeqAdd(PosSet(st, i, cell.pos - cell.shift), i, d)
    IN  IF cell.shift = 0 THEN t ELSE PosAdd(t, i, cell.shift)

CopyStream(from, s, d) ==
    [FoldSet(LAMBDA i, t : CopyCell(t, i, from.cell[i], d), EmptyStream, WithSeq(from, s, 0, -1))
        EXCEPT !.head = from.head]

-----------------------------------------------------------------------------
(* find_slot, apply_ubatch and prepare.                                    *)

IsMasked(p0, p1) == Window > 0 /\ p1 - p0 >= Window

\* Mutant: off by one.
CanUseInWindow(st, i) ==
    \/ IsEmpty(st, i)
    \/ \E s \in Seqs : st.cell[i].seqs = {s} /\ IsMasked(st.cell[i].pos - 1, SeqPosMax(st, s) + 1)

\* empty, or of one sequence whose next token does not see it
CanUse(st, i) ==
    \/ IsEmpty(st, i)
    \/ \E s \in Seqs : st.cell[i].seqs = {s} /\ IsMasked(st.cell[i].pos, SeqPosMax(st, s) + 1)

\* n cells for n tokens: the first usable ones, going round from the head
FindSlot(st, n) ==
    LET start  == IF st.head > Cardinality(st.used) + 2 * n THEN 0 ELSE st.head
        round  == [j \in 1 .. NumCells |-> (start + j - 1) % NumCells]
        usable == FoldLeft(LAMBDA found, i : IF CanUse(st, i) THEN Append(found, i) ELSE found, <<>>, round)
    IN  IF Len(usable) < n THEN <<>> ELSE SubSeq(usable, 1, n)

\* Mutant: smaller positions than those overwritten are kept.
PurgeNone(before, st, idxs) == st

\* the positions of sequence s that the cells idxs had
Lost(before, idxs, s) == {before.cell[i].pos : i \in {i \in Range(idxs) : before.cell[i].seqs = {s}}}

\* the positions of a sequence up to the largest one that was overwritten go as well
Purge(before, st, idxs) ==
    LET upto(s) == Max(Lost(before, idxs, s))
    IN  FoldSet(LAMBDA s, t : IF SeqPosMin(t, s) <= upto(s) THEN SeqRm(t, s, 0, upto(s) + 1) ELSE t,
                st, {s \in Seqs : Lost(before, idxs, s) # {}})

\* a token in cell i
PlaceToken(st, i, token) ==
    LET t == IF IsEmpty(st, i) THEN st ELSE Rm(st, i)
    IN  FoldSet(LAMBDA s, u : CellSeqAdd(u, i, s), PosSet(t, i, token.pos), token.seqs)

\* the head moves to the end of the slot
HeadAfter(idxs) == Last(idxs) + 1

\* apply_ubatch in one stream: tokens[j] in cell idxs[j]
Place(st, idxs, tokens) ==
    LET placed == FoldLeft(LAMBDA t, j : PlaceToken(t, idxs[j], tokens[j]), st, [j \in DOMAIN idxs |-> j])
    IN  [Purge(st, placed, idxs) EXCEPT !.head = HeadAfter(idxs)]

\* a ubatch is [set of streams -> Seq([pos, seqs])], its slot_info [the same set -> Seq(Cells)]
Find(all, ubatch) == [k \in DOMAIN ubatch |-> FindSlot(all[k], Len(ubatch[k]))]
Apply(all, sinfo, ubatch) ==
    [k \in Streams |-> IF k \in DOMAIN ubatch THEN Place(all[k], sinfo[k], ubatch[k]) ELSE all[k]]

\* Mutant: cells are found for each ubatch as if the others were not there.
PlacedSeparately(all) ==
    LET step(acc, ubatch) ==
            LET sinfo == Find(all, ubatch)
                found == \A k \in DOMAIN sinfo : sinfo[k] # <<>>
            IN  IF ~acc.ok \/ ~found THEN [acc EXCEPT !.ok = FALSE]
                ELSE [acc EXCEPT !.states = Append(@, [sinfo |-> sinfo, old |-> all])]
    IN  FoldLeft(step, [ok |-> TRUE, now |-> all, states |-> <<>>], ubatches)

\* one more ubatch is placed, if there are cells for it
PlaceNext(acc, ubatch) ==
    LET sinfo == Find(acc.now, ubatch)
        found == \A k \in DOMAIN sinfo : sinfo[k] # <<>>
    IN  IF ~acc.ok \/ ~found THEN [acc EXCEPT !.ok = FALSE]
        ELSE [ok |-> TRUE, now |-> Apply(acc.now, sinfo, ubatch),
              states |-> Append(acc.states, [sinfo |-> sinfo, old |-> acc.now])]

\* the ubatches are placed one after the other, until one finds no cells
Placed(all) == FoldLeft(PlaceNext, [ok |-> TRUE, now |-> all, states |-> <<>>], ubatches)

\* the place of a stream in the strm of a slot_info, counted from 0
StrmIndex(sinfo, k) == Cardinality({j \in DOMAIN sinfo : j < k})

\* the cells of the slot as they were before, and a head: v_heads_old has one for each
\* stream, and is looked at with the place of the stream in the slot
Restore(all, state) ==
    [k \in Streams |-> IF k \notin DOMAIN state.sinfo THEN all[k]
        ELSE [FoldSet(LAMBDA i, t : SetCell(t, i, state.old[k].cell[i]), all[k], Range(state.sinfo[k]))
              EXCEPT !.head = state.old[StrmIndex(state.sinfo, k)].head]]

-----------------------------------------------------------------------------
(* The operations of the cache, for a caller that is not in decode().      *)

Set(k, st) == pc = "idle" /\ stream' = [stream EXCEPT ![k] = st]
Only       == UNCHANGED <<rope, copies, pc, ubatches, sinfos>>

Clear == pc = "idle" /\ stream' = [k \in Streams |-> EmptyStream] /\ Only

\* the ranges callers give: to the end, or anywhere
Ranges == {r \in Positions \X (1 .. MaxPos \cup {-1}) : r[2] # -1 => Middle /\ r[1] < r[2]}

RemoveSeq(s, r) == Set(StreamOf(s), SeqRm(stream[StreamOf(s)], s, r[1], r[2])) /\ Only

RemoveAny(r) == pc = "idle" /\ stream' = [k \in Streams |-> RmAny(stream[k], r[1], r[2])] /\ Only

Keep(s) == Set(StreamOf(s), SeqKeep(stream[StreamOf(s)], s)) /\ Only

\* callers copy to a sequence that has nothing; to another stream, everything
Copy(s, d, r) ==
    /\ s # d
    /\ IF Unified
       THEN SeqPosMax(stream[0], d) = -1 /\ Set(0, SeqCp(stream[0], s, d, r[1], r[2])) /\ Only
       ELSE /\ r = <<0, -1>> /\ Len(copies) < MaxCopies
            /\ Set(StreamOf(d), CopyStream(stream[StreamOf(s)], s, d))
            /\ copies' = Append(copies, <<StreamOf(s), StreamOf(d)>>)
            /\ UNCHANGED <<rope, pc, ubatches, sinfos>>

\* the shifts that are pending stay within the bound, and the keys when they are done
Bounded(k, st) == \A i \in Cells : {st.cell[i].shift, rope[k][i] + st.cell[i].shift} \subseteq -MaxPos .. MaxPos

Add(s, r, delta) ==
    LET before == stream[StreamOf(s)]
        after  == SeqAdd(before, s, r[1], r[2], delta)
    IN  /\ \A i \in WithSeq(before, s, r[1], r[2]) : before.cell[i].pos + delta <= MaxPos
        /\ Bounded(StreamOf(s), after)
        /\ Set(StreamOf(s), after) /\ Only

Div(s, r, d) ==
    LET after == SeqDiv(stream[StreamOf(s)], s, r[1], r[2], d)
    IN  Bounded(StreamOf(s), after) /\ Set(StreamOf(s), after) /\ Only

-----------------------------------------------------------------------------
(* llama_context::decode.                                                  *)

HasShift(all) == \E k \in Streams : all[k].has_shift

\* Mutant: the source gets what the destination has.
CopiedBack(data) == FoldLeft(LAMBDA d, c : [d EXCEPT ![c[1]] = d[c[2]]], data, copies)

\* the buffer copies, in the order they were asked for
Copied(data) == FoldLeft(LAMBDA d, c : [d EXCEPT ![c[2]] = d[c[1]]], data, copies)

\* reset_shift: the cells keep their positions
Unshifted(st) ==
    [st EXCEPT !.has_shift = FALSE, !.cell = [i \in Cells |-> [st.cell[i] EXCEPT !.shift = 0]]]

\* the pending shifts are applied to the keys in one go, if the graph for it can be run
Shift(data, all, shifted) ==
    IF shifted /\ HasShift(all)
    THEN /\ rope' = [k \in Streams |-> [i \in Cells |-> data[k][i] + all[k].cell[i].shift]]
         /\ stream' = [k \in Streams |-> Unshifted(all[k])]
    ELSE rope' = data /\ stream' = all

\* n tokens that belong to the sequences Q, after what the cache has of s
Run(s, n, Q) == LET p == SeqPosMax(stream[StreamOf(s)], s) IN [j \in 1 .. n |-> [pos |-> p + j, seqs |-> Q]]

\* the batch as split_simple (one stream) or split_equal (a run per stream) cut it
Split(runs, size) ==
    LET len == Max({Len(runs[k]) : k \in DOMAIN runs})
    IN  [j \in 1 .. (len + size - 1) \div size |->
            [k \in DOMAIN runs |-> SubSeq(runs[k], (j - 1) * size + 1, Min({j * size, len}))]]

\* a batch of n tokens for each sequence of Q, or of n tokens that belong to all of Q,
\* which then have the same positions in the cache; the pending updates come first.
\* (With a stream for each, sequences that are not neighbours are split apart: left out.)
Decode(Q, n, shared, shifted) ==
    /\ pc = "idle" /\ pc' = "prepare"
    /\ \A s \in Q : SeqPosMax(stream[StreamOf(s)], s) + n <= MaxPos
    /\ Unified \/ \A s, t \in Q : s .. t \subseteq Q
    /\ shared => /\ Unified /\ Coupled
                 /\ \A s, t \in Q : /\ SeqPosMin(stream[0], s) = SeqPosMin(stream[0], t)
                                    /\ SeqPosMax(stream[0], s) = SeqPosMax(stream[0], t)
    /\ LET apart == FoldLeft(LAMBDA runs, s : IF s \in Q THEN runs \o Run(s, n, {s}) ELSE runs,
                             <<>>, [j \in 1 .. NumSeqs |-> j - 1])
           all   == IF shared THEN Run(Min(Q), n, Q) ELSE apart
       IN  ubatches' = IF Unified THEN Split([k \in {0} |-> all], NumUbatch)
                       ELSE Split([s \in Q |-> Run(s, n, {s})], Max({1, NumUbatch \div Cardinality(Q)}))
    /\ Shift(Copied(rope), stream, shifted)
    /\ copies' = <<>>
    /\ UNCHANGED sinfos

\* Mutant: when no cells are found for an ubatch, those before it stay where they are.
RestoredIfFound(placed) ==
    IF placed.ok THEN FoldRight(LAMBDA state, all : Restore(all, state), placed.states, placed.now)
    ELSE placed.now

\* what prepare() leaves of the cells, after it has placed the ubatches and taken them back
Restored(placed) == FoldRight(LAMBDA state, all : Restore(all, state), placed.states, placed.now)

Prepare ==
    /\ pc \in {"prepare", "retry"}
    /\ LET placed == Placed(stream)
       IN  /\ placed.ok
           /\ stream' = Restored(placed)
           /\ sinfos' = [j \in DOMAIN ubatches |-> placed.states[j].sinfo]
    /\ pc' = "apply"
    /\ UNCHANGED <<rope, copies, ubatches>>

\* no cells: one more try after the shift, if there is one that is still to be done
PrepareFails(shifted) ==
    /\ pc \in {"prepare", "retry"}
    /\ LET placed == Placed(stream)
           restored == Restored(placed)
       IN  /\ ~placed.ok
           /\ Shift(rope, restored, shifted /\ pc = "prepare")
           /\ IF pc = "prepare" /\ HasShift(restored) THEN pc' = "retry" /\ UNCHANGED ubatches
                                                      ELSE pc' = "idle" /\ ubatches' = <<>>
    /\ UNCHANGED <<copies, sinfos>>

Ubatch == Head(ubatches)
Sinfo  == Head(sinfos)

\* the keys of the ubatch are written, rotated for its positions
Written == [k \in Streams |-> IF k \notin DOMAIN Ubatch THEN rope[k] ELSE
               [i \in Cells |-> LET j == SelectInSeq(Sinfo[k], LAMBDA c : c = i)
                                IN  IF j = 0 THEN rope[k][i] ELSE Ubatch[k][j].pos]]

\* process_ubatch of the next ubatch
Process ==
    /\ pc = "apply"
    /\ stream' = Apply(stream, Sinfo, Ubatch) /\ rope' = Written
    /\ ubatches' = Tail(ubatches) /\ sinfos' = Tail(sinfos)
    /\ pc' = IF Len(ubatches) = 1 THEN "idle" ELSE "apply"
    /\ UNCHANGED copies

\* Mutant: the ubatch stays in the cache.
RemoveNone(st, tokens) == st

\* the sequences of the ubatch, each token's first, lose what they have from its tokens on
RemoveFrom(st, tokens) ==
    LET first(j) == Min(tokens[j].seqs)
        from(s)  == Min({tokens[j].pos : j \in {j \in DOMAIN tokens : first(j) = s}})
    IN  FoldSet(LAMBDA s, t : SeqRm(t, s, from(s), -1), st, {first(j) : j \in DOMAIN tokens})

\* the graph of the ubatch cannot be computed, or is aborted
ProcessFails ==
    /\ pc = "apply"
    /\ LET all == Apply(stream, Sinfo, Ubatch)
       IN  stream' = [k \in Streams |-> IF k \in DOMAIN Ubatch THEN RemoveFrom(all[k], Ubatch[k]) ELSE all[k]]
    /\ rope' \in {rope, Written}
    /\ ubatches' = <<>> /\ sinfos' = <<>> /\ pc' = "idle"
    /\ UNCHANGED copies

-----------------------------------------------------------------------------
Next ==
    \/ Clear
    \/ \E r \in Ranges : RemoveAny(r) \/ \E s \in Seqs :
         RemoveSeq(s, r) \/ (\E d \in Seqs : Copy(s, d, r))
         \/ (\E delta \in Deltas : Add(s, r, delta)) \/ (\E d \in Divisors : Div(s, r, d))
    \/ \E s \in Seqs : Keep(s)
    \/ \E Q \in (SUBSET Seqs) \ {{}}, n \in 1 .. MaxTokens, shared, shifted \in BOOLEAN : Decode(Q, n, shared, shifted)
    \/ Prepare \/ (\E shifted \in BOOLEAN : PrepareFails(shifted))
    \/ Process \/ ProcessFails

Spec == Init /\ [][Next]_vars

-----------------------------------------------------------------------------
(* Properties.                                                             *)

Cell == [pos : Positions \cup {-1}, shift : Int, seqs : SUBSET Seqs]
Token == [pos : Positions, seqs : (SUBSET Seqs) \ {{}}]

\* Every variable has its type (llama_kv_cells, v_heads, stream_copy_info).
TypeOK ==
    /\ stream \in [Streams -> [cell : [Cells -> Cell], used : SUBSET Cells, has_shift : BOOLEAN,
                               seq_pos : [Seqs -> [Positions -> Nat]], head : 0 .. NumCells]]
    /\ rope \in [Streams -> [Cells -> Int]]
    /\ copies \in Seq(Streams \X Streams)
    /\ pc \in {"idle", "prepare", "retry", "apply"}
    /\ \A j \in DOMAIN ubatches : \A k \in DOMAIN ubatches[j] : k \in Streams /\ ubatches[j][k] \in Seq(Token)
    /\ \A j \in DOMAIN sinfos : \A k \in DOMAIN sinfos[j] : k \in Streams /\ sinfos[j][k] \in Seq(Cells)

\* What is kept beside the cells agrees with them, whatever was removed, shifted,
\* placed and taken back: "used" is the set of non-empty cells, seq_pos[s][p] is the
\* number of cells of sequence s at p (llama-kv-cells.h:461-499), an empty cell is in
\* no sequence and has no shift, and a shift is pending only if has_shift says so.
IndexMatches ==
    \A k \in Streams : LET st == stream[k] IN
        /\ st.used = {i \in Cells : ~IsEmpty(st, i)}
        /\ \A s \in Seqs, p \in Positions :
              st.seq_pos[s][p] = Cardinality({i \in Cells : s \in st.cell[i].seqs /\ st.cell[i].pos = p})
        /\ \A i \in Cells : /\ IsEmpty(st, i) <=> st.cell[i].seqs = {}
                            /\ IsEmpty(st, i) \/ ~st.has_shift => st.cell[i].shift = 0

\* The keys of every cell are rotated for its position, once the buffer copies and
\* the shifts that are pending have been applied: "this array accumulates any applied
\* shifts to the pos array since the last reset_shift() call" (llama-kv-cells.h:469).
KeysMatchPositions ==
    \A k \in Streams, i \in Cells : ~IsEmpty(stream[k], i) =>
        Copied(rope)[k][i] + stream[k].cell[i].shift = stream[k].cell[i].pos

\* The cells that prepare() found can still be used when their ubatch is placed: they
\* are different, each is empty or of one sequence that no longer sees it - and so
\* none holds a token of the batch that was placed before.
SlotsStayUsable ==
    pc = "apply" => \A k \in DOMAIN Sinfo :
        /\ IsInjective(Sinfo[k]) /\ Len(Sinfo[k]) = Len(Ubatch[k])
        /\ \A i \in Range(Sinfo[k]) : CanUse(stream[k], i)

\* "all positions between [pos_min, pos_max] for each sequence will be present in the
\* cache" (llama-kv-cache.cpp:1145) outside decode(), as long as callers remove only the
\* end of a sequence and shift nothing, and a batch is one ubatch.
PositionsContiguous ==
    \A s \in Seqs : LET st == stream[StreamOf(s)] IN
        pc = "idle" /\ PosOf(st, s) # {} => PosOf(st, s) = SeqPosMin(st, s) .. SeqPosMax(st, s)

\* A ubatch takes no key from the cache that the next token of its sequence, the one
\* after those that were there before, would attend to (find_slot's SWA reuse and the
\* purge in apply_ubatch).
Attended(st, s) == {p \in PosOf(st, s) : ~IsMasked(p, SeqPosMax(st, s) + 1)}
AttendedStay ==
    [][Process => \A s \in Seqs :
          Attended(stream[StreamOf(s)], s) \subseteq PosOf(stream'[StreamOf(s)], s)]_vars

\* llama-kv-cache.cpp:795: "iterate backwards and restore the cells to their original
\* state": without a window, prepare() changes nothing in the cache but the heads, whether
\* it finds cells for all ubatches or gives up after some. Before the second try the
\* pending shift may have been applied: in all the streams and to all the keys, at once.
Restores == pc \in {"prepare", "retry"} =>
    \/ \A k \in Streams : /\ stream'[k] = [stream[k] EXCEPT !.head = stream'[k].head]
                          /\ rope'[k] = rope[k]
    \/ /\ pc = "prepare" /\ pc' = "retry"
       /\ \A k \in Streams :
            /\ stream'[k] = [Unshifted(stream[k]) EXCEPT !.head = stream'[k].head]
            /\ rope'[k] = [i \in Cells |-> rope[k][i] + stream[k].cell[i].shift]

\* llama-context.cpp:1819: "the last ubatch failed or was aborted -> remove all positions
\* of that ubatch from the memory module": its cells are in none of the sequences that
\* come first in its tokens - and in no other, but for tokens of several sequences.
FailureRemoves == pc = "apply" /\ pc' = "idle" /\ ProcessFails =>
    \A k \in DOMAIN Sinfo : \A j \in DOMAIN Sinfo[k] : LET seqs == Ubatch[k][j].seqs IN
        stream'[k].cell[Sinfo[k][j]].seqs \subseteq seqs \ {Min(seqs)}

\* Both: nothing that decode tried is left in the cache.
LeavesNoTrace == [][Restores /\ FailureRemoves]_vars
=============================================================================
