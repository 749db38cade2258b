---------------------------- MODULE Sm70Attention ----------------------------
(***************************************************************************)
(* ggml-cuda/fattn-sm70-d256*.cu*: the attention of prefill ubatches on    *)
(* SM70 (head dimension 256, F16 or Q4_0 keys and values, no ALiBi, no     *)
(* soft cap: the rest of the gate's conditions is taken for granted).      *)
(*                                                                         *)
(* The kernel is given no mask.  From the sizes q_len and kv_len alone,    *)
(* the latter the width of the mask, it derives which columns a row reads: *)
(* row r those below r + 1 + kv_len - q_len, in tiles of kBlockM rows and  *)
(* kBlockN columns.  With a long prefix the tiles of a row block are       *)
(* shared by three thread blocks and merged afterwards (SplitKV3).         *)
(***************************************************************************)
EXTENDS KqMask

CONSTANTS
    MinBatch,       \* 256: the smallest q_len (and mask width) taken
    BlockM,         \* kBlockM, SM70_D256_BLOCK_M: rows of a tile
    BlockN,         \* kBlockN: columns of a tile
    SplitMinKv      \* LLAMA_SM70_SPLITKV3_MIN_KV; 0: never

ASSUME Sm70Assumption ==
    /\ {MinBatch, BlockM, BlockN} \subseteq Nat \ {0} /\ SplitMinKv \in Nat
    /\ NPad % BlockN = 0 /\ NumCells % BlockN = 0   \* 256 and n_ctx_seq are multiples of 32

\* ggml_cuda_sm70_d256_supported: the mask's size is looked at, what it says is not
Routed(q_len, n_kv) == n_kv >= MinBatch /\ q_len >= MinBatch /\ q_len <= n_kv

\* use_splitkv3, for nb batches (streams)
UsesSplit(q_len, n_kv, nb) == nb = 1 /\ SplitMinKv > 0 /\ n_kv >= SplitMinKv /\ n_kv > q_len

CeilDiv(a, b) == (a + b - 1) \div b

\* the row blocks of the grid: q_pad / kBlockM
RowBlocks(q_len) == 0 .. CeilDiv(q_len, BlockM) - 1

\* visible_n_blocks: the column blocks that some row of row block m sees
VisibleBlocks(m, q_len, n_kv) == CeilDiv(Min({m * BlockM + BlockM + n_kv - q_len, n_kv}), BlockN)

\* Mutant: rounded separately.
SegmentByLength(visible, split) == split * (visible \div 3) .. (split + 1) * (visible \div 3) - 1

\* the column blocks [n_block_min, n_block_max] of one of the three
Segment(visible, split) == (visible * split) \div 3 .. (visible * (split + 1)) \div 3 - 1

\* the column blocks each thread block of row block m goes through
Sweeps(m, q_len, n_kv, nb) ==
    LET visible == VisibleBlocks(m, q_len, n_kv)
    IN  IF UsesSplit(q_len, n_kv, nb) THEN [split \in 0 .. 2 |-> Segment(visible, split)]
                                      ELSE [split \in {0} |-> 0 .. visible - 1]

\* n_block_first of a split: n_block_max, but n_block_min when the segment is empty
FirstBlock(visible, split) ==
    IF Segment(visible, split) # {} THEN Max(Segment(visible, split)) ELSE (visible * split) \div 3

Tile(b) == b * BlockN .. b * BlockN + BlockN - 1

\* Mutant: off by one.
SeesOneMore(r, q_len, n_kv, c) == c < Min({r + 2 + n_kv - q_len, n_kv})

\* Mask::apply_mask with max_seqlen_q = kv_len - kv_offset
Sees(r, q_len, n_kv, c) == c < Min({r + 1 + n_kv - q_len, n_kv})

\* the columns row r gets, from all the thread blocks of its row block
KernelRow(r, q_len, n_kv, nb) ==
    LET sweeps == Sweeps(r \div BlockM, q_len, n_kv, nb)
    IN  {c \in UNION {Tile(b) : b \in UNION Range(sweeps)} : Sees(r, q_len, n_kv, c)}

-----------------------------------------------------------------------------
(* The attention of a ubatch (a stream's tokens are its rows, in order).   *)

RowsOf(ubatch) == Len(ubatch[Min(DOMAIN ubatch)])

\* k_outer_stride and v_outer_stride are 0: every batch reads the view's first stream
KernelKeys(ubatch, n_kv, k, j) ==
    {Min(DOMAIN ubatch)} \X KernelRow(j - 1, RowsOf(ubatch), n_kv, Cardinality(DOMAIN ubatch))

MaskKeys(all, ubatch, n_kv, k, j) == {k} \X MaskRow(all, ubatch, n_kv, k, j)

Exact(all, ubatch, n_kv) ==
    \A k \in DOMAIN ubatch : \A j \in DOMAIN ubatch[k] :
        KernelKeys(ubatch, n_kv, k, j) = MaskKeys(all, ubatch, n_kv, k, j)

-----------------------------------------------------------------------------
(* Properties.                                                             *)

\* The ubatch as the kernel takes it to be: causal, without a window, of one
\* sequence alone in its stream, whose cells are in the order of their positions,
\* the ubatch's at the end, and as many as the padded n_kv.
AsAssumed(all, ubatch, sinfo, n_kv) ==
    LET k == Min(DOMAIN ubatch) IN
    /\ causal /\ Window = 0 /\ DOMAIN ubatch = {k}
    /\ all[k].used = Columns(n_kv)
    /\ \A c \in Columns(n_kv) : all[k].cell[c].seqs = {FirstSeq(ubatch[k][1])}
    /\ \A c, d \in Columns(n_kv) : c < d => all[k].cell[c].pos < all[k].cell[d].pos
    /\ Range(sinfo[k]) = n_kv - Len(ubatch[k]) .. n_kv - 1

\* When the ubatch is as assumed the kernel, split or not, reads for each token the
\* cells that its mask row allows; and if it does so for all of them then each of the
\* n_kv cells holds a key of the sequence, and the ubatch is of one stream: with one
\* cell less than a multiple of NPad, or with a token in each of two streams, some token
\* reads what it must not.  (A stream per sequence: no cell is another sequence's.)
ExactWhenAligned ==
    [][Process =>
         LET n_kv == NKv(stream', Sinfo) IN
         Routed(RowsOf(Ubatch), n_kv) =>
            /\ AsAssumed(stream', Ubatch, Sinfo, n_kv) => Exact(stream', Ubatch, n_kv)
            /\ Exact(stream', Ubatch, n_kv) =>
                  /\ Cardinality(DOMAIN Ubatch) = 1
                  /\ \A k \in DOMAIN Ubatch : \A c \in Columns(n_kv) :
                        FirstSeq(Ubatch[k][1]) \in stream'[k].cell[c].seqs]_maskvars

\* "an empty split segment [...] must still load a valid first tile"
\* (fattn-sm70-d256-kernel.cuh:655): the thread blocks load no tile beyond kv_len, and
\* the three segments of a row block go through each of its column blocks once.
SplitCovers ==
    [][Process =>
         LET n_kv  == NKv(stream', Sinfo)
             q_len == RowsOf(Ubatch)
             nb    == Cardinality(DOMAIN Ubatch)
         IN  Routed(q_len, n_kv) => \A m \in RowBlocks(q_len) :
               LET visible == VisibleBlocks(m, q_len, n_kv)
                   sweeps  == Sweeps(m, q_len, n_kv, nb)
               IN  /\ \A b \in 0 .. visible - 1 : Cardinality({s \in DOMAIN sweeps : b \in sweeps[s]}) = 1
                   /\ \A s \in DOMAIN sweeps : \A b \in sweeps[s] \cup {FirstBlock(visible, s)} :
                         Tile(b) \subseteq Columns(n_kv)]_maskvars

==============================================================================
