------------------------------- MODULE KqMask -------------------------------
(***************************************************************************)
(* src/llama-kv-cache.cpp: what the graph of a ubatch is given of the      *)
(* cache: n_kv, the number of cells it looks at, and the KQ mask, a row    *)
(* of n_kv columns for each token.                                         *)
(*                                                                         *)
(* Rows of tokens of one sequence differ little: the first is computed     *)
(* cell by cell, the others are copies of it in which the cells near the   *)
(* batch's positions are looked at again.                                  *)
(*                                                                         *)
(* The sliding window is of type STANDARD.  ALiBi and 2D positions are     *)
(* left out.                                                               *)
(***************************************************************************)
EXTENDS KvCache

CONSTANTS
    NPad,       \* max(n_pad, 256): n_kv is a multiple of it
    MaskSlack   \* 32: cells this much older than the window are looked at again

ASSUME MaskAssumption == NPad \in Nat \ {0} /\ MaskSlack \in Nat

VARIABLE causal     \* cparams.causal_attn

maskvars == <<vars, causal>>

UsedMaxP1(st) == IF st.used = {} THEN 0 ELSE Max(st.used) + 1

\* get_n_kv: padded "so that the graph remains constant across batches and can be reused"
NKv(all, sinfo) ==
    LET padded(n) == ((n + NPad - 1) \div NPad) * NPad
    IN  Max({Min({NumCells, Max({NPad, padded(UsedMaxP1(all[k]))})}) : k \in DOMAIN sinfo})

Columns(n_kv) == 0 .. n_kv - 1

\* seq_id[i][0]
FirstSeq(token) == Min(token.seqs)

\* mask_keep: the token attends to the cell
Keeps(st, token, c) ==
    /\ ~IsEmpty(st, c) /\ FirstSeq(token) \in st.cell[c].seqs
    /\ causal => st.cell[c].pos <= token.pos
    /\ ~IsMasked(st.cell[c].pos, token.pos)

Kept(st, token, n_kv) == {c \in Columns(n_kv) : Keeps(st, token, c)}

\* seq_pos_min[s]: of the tokens of the ubatch, whatever their stream
BatchPosMin(ubatch, s) ==
    Min({t.pos : t \in {t \in UNION {Range(ubatch[k]) : k \in DOMAIN ubatch} : FirstSeq(t) = s}})

\* Mutant: the window is not considered.
RecordedInBatch(st, ubatch, s, n_kv) ==
    {c \in Columns(n_kv) : ~IsEmpty(st, c) /\ s \in st.cell[c].seqs /\ st.cell[c].pos >= BatchPosMin(ubatch, s)}

\* seq_idxs[s]: the cells that are looked at again
Recorded(st, ubatch, s, n_kv) ==
    {c \in Columns(n_kv) : /\ ~IsEmpty(st, c) /\ s \in st.cell[c].seqs
                           /\ st.cell[c].pos + Window + MaskSlack >= BatchPosMin(ubatch, s)}

\* set_input_kq_mask_impl: the columns that the j-th token of stream k attends to
MaskRow(all, ubatch, n_kv, k, j) ==
    LET st     == all[k]
        token  == ubatch[k][j]
        source == SelectInSeq(ubatch[k], LAMBDA t : FirstSeq(t) = FirstSeq(token))
        again  == Recorded(st, ubatch, FirstSeq(token), n_kv)
    IN  IF source = j THEN Kept(st, token, n_kv)
        ELSE (Kept(st, ubatch[k][source], n_kv) \ again) \cup (Kept(st, token, n_kv) \cap again)

-----------------------------------------------------------------------------
MaskInit == Init /\ causal \in BOOLEAN

\* llama_set_causal_attn, between two calls of decode
SetCausal == pc = "idle" /\ causal' = ~causal /\ UNCHANGED vars

\* llama-context.cpp:1713: "non-causal attention requires n_ubatch >= n_tokens"
MaskNext ==
    \/ /\ Next /\ UNCHANGED causal
       /\ pc = "idle" /\ pc' = "prepare" => causal \/ Len(ubatches') = 1
    \/ SetCausal

MaskSpec == MaskInit /\ [][MaskNext]_maskvars

-----------------------------------------------------------------------------
(* Properties.                                                             *)

\* What a token attends to does not depend on how its row was made: the rows that
\* are copied from an earlier token of the sequence, and looked at again in part,
\* are those of a computation from scratch over all the cells of the stream - "the
\* only cells that could change are the ones that are with similar positions as the
\* ones in the batch" (llama-kv-cache.cpp:1589) - and n_kv leaves none of them out.
MaskIsExact ==
    [][Process => \A k \in DOMAIN Ubatch : \A j \in DOMAIN Ubatch[k] :
          MaskRow(stream', Ubatch, NKv(stream', Sinfo), k, j)
             = {c \in Cells : Keeps(stream'[k], Ubatch[k][j], c)}]_maskvars
=============================================================================
