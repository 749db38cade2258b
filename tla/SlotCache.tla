----------------------------- MODULE SlotCache -----------------------------
(***************************************************************************)
(* tools/server/server-context.cpp: what the slots keep in the KV cache.   *)
(*                                                                         *)
(* A slot remembers the tokens (prompt.tokens) whose keys the cache has    *)
(* for its sequence, so that the next task reuses those its prompt starts  *)
(* with.  The two are changed apart: tokens are added when the batch is    *)
(* built, their cells when a view of the batch is decoded; they are kept   *)
(* when a task ends, shifted when the context is full, moved for chunks    *)
(* that a new prompt has elsewhere, copied to child slots, saved and       *)
(* loaded, and cleared when the cache runs out of cells.                   *)
(*                                                                         *)
(* The cache is unified and has no window; the model is text-only, all     *)
(* slots can be batched together.  The queue of tasks and the results are  *)
(* ServerTasks's: a task here comes when a slot can take it.  Checkpoints, *)
(* adapters, the save files of slots and launches that fail are left out,  *)
(* and tasks that ask for a slot (id_slot) while it is busy: they are      *)
(* deferred, but get_available_slot has updated the prompt cache by then,  *)
(* and may have loaded another prompt into the slot that is at work.       *)
(***************************************************************************)
EXTENDS Integers, Sequences, SequencesExt, FiniteSets, FiniteSetsExt

CONSTANTS
    NumSlots,       \* n_parallel
    Tasks,          \* set of [prompt, cache, reuse, family]: the tasks clients send
    Sampled,        \* the tokens that are sampled and drafted
    NCtx,           \* n_ctx of a slot
    NKeep,          \* n_keep
    Margin,         \* 4: n_keep <= n_ctx - 4
    NBatch,         \* n_batch
    NumCells,       \* cells of the cache
    MaxDraft,       \* tokens of a draft; 0: no speculation
    MaxSaved,       \* bound: prompts the prompt cache has room for; 0: no prompt cache
    ClearIdle,      \* cache_idle_slots
    MaxOut          \* bound: tokens a task generates

ASSUME SizesAssumption ==
    /\ {NumSlots, NCtx, NBatch, NumCells, MaxOut, Margin} \subseteq Nat \ {0}
    /\ {NKeep, MaxDraft, MaxSaved} \subseteq Nat /\ 3 <= Margin /\ Margin <= NCtx
    /\ ClearIdle \in BOOLEAN

Slots == 0 .. NumSlots - 1
Token == Sampled \cup UNION {Range(t.prompt) : t \in Tasks}

ASSUME TasksAssumption ==
    Tasks \subseteq [prompt : Seq(Token), cache : BOOLEAN, reuse : Nat, family : {"single", "parent"}]

VARIABLES
    slot,       \* [Slots -> server_slot]
    cells,      \* the cells in use: [tok, pos, seqs]
    saved,      \* server_prompt_cache.states: Seq([tokens, cells, bad])
    pc,         \* "tasks", or where update_slots is: "gen", "prompt", "decode", "post"; "aborted"
    turn,       \* the slot iterate() is at
    batch,      \* the batch: Seq([slot, tok, pos])
    off, view,  \* its tokens up to off are done, the next "view" were just decoded
    n_batch,    \* the effective batch size
    spoiled     \* history: slots whose tokens are known not to be in the cache (see below)

vars == <<slot, cells, saved, pc, turn, batch, off, view, n_batch, spoiled>>

NoTask == [prompt |-> <<>>, cache |-> FALSE, reuse |-> 0, family |-> "none"]
Fresh  == [state |-> "IDLE", task |-> NoTask, tokens |-> <<>>, out |-> <<>>, draft |-> <<>>,
           i_batch |-> 0, truncated |-> FALSE]

Init ==
    /\ slot = [s \in Slots |-> Fresh]
    /\ cells = {} /\ saved = <<>> /\ spoiled = {}
    /\ pc = "tasks" /\ turn = 0 /\ batch = <<>> /\ off = 0 /\ view = 0 /\ n_batch = NBatch

Processing(s) == slot[s].state # "IDLE"

-----------------------------------------------------------------------------
(* The memory: a cell is in one place, whatever sequences share it.        *)

Within(all, s, p0, p1) == {c \in all : s \in c.seqs /\ c.pos >= p0 /\ (p1 # -1 => c.pos < p1)}

SeqRm(all, s, p0, p1) ==
    LET gone == Within(all, s, p0, p1)
    IN  (all \ gone) \cup {c \in {[c EXCEPT !.seqs = @ \ {s}] : c \in gone} : c.seqs # {}}

SeqCp(all, s, d) ==
    (all \ Within(all, s, 0, -1)) \cup {[c EXCEPT !.seqs = @ \cup {d}] : c \in Within(all, s, 0, -1)}

SeqAdd(all, s, p0, p1, delta) ==
    LET moved == Within(all, s, p0, p1)
    IN  (all \ moved) \cup {c \in {[c EXCEPT !.pos = @ + delta] : c \in moved} : c.pos >= 0}

\* the other sequences whose cells a SeqAdd moves
Sharers(all, s, p0, p1) == (UNION {c.seqs : c \in Within(all, s, p0, p1)}) \ {s}

SeqPosMin(all, s) == Min({c.pos : c \in Within(all, s, 0, -1)} \cup {NCtx}) \* NCtx: none
SeqPosMax(all, s) == Max({c.pos : c \in Within(all, s, 0, -1)} \cup {-1})

\* what the cache has of a sequence, as llama_state_seq_get_data has it
Data(all, s) == {[tok |-> c.tok, pos |-> c.pos] : c \in Within(all, s, 0, -1)}

-----------------------------------------------------------------------------
(* Operations of a slot, on a record of what they change.                  *)

Now == [slot |-> slot, cells |-> cells, saved |-> saved, spoiled |-> spoiled]
Becomes(w) == slot' = w.slot /\ cells' = w.cells /\ saved' = w.saved /\ spoiled' = w.spoiled

\* prompt_clear
Clear(w, s) ==
    [w EXCEPT !.slot[s].tokens = <<>>, !.cells = SeqRm(@, s, 0, -1), !.spoiled = @ \ {s}]

\* release, and reset: the tokens stay, but not those of a child
Release(w, s) ==
    LET kept == [w EXCEPT !.slot[s] = [Fresh EXCEPT !.tokens = w.slot[s].tokens]]
    IN  IF w.slot[s].task.family = "child" THEN Clear(kept, s) ELSE kept

ReleaseAll(w, S) == FoldSet(LAMBDA s, v : Release(v, s), w, S)
ClearAll(w, S)   == FoldSet(LAMBDA s, v : Clear(v, s), w, S)

Common(a, b) == Max({n \in 0 .. Min({Len(a), Len(b)}) : SubSeq(a, 1, n) = SubSeq(b, 1, n)})

\* what is left of the saved prompts without those that the tokens contain
Remaining(all, tokens) ==
    FoldLeft(LAMBDA kept, e : IF Common(e.tokens, tokens) = Len(e.tokens) THEN kept ELSE Append(kept, e), <<>>, all)

\* server_prompt_cache::alloc: not if it is there already; what it contains goes,
\* then the oldest
Save(w, s) ==
    LET tokens == w.slot[s].tokens
        entry  == [tokens |-> tokens, cells |-> Data(w.cells, s), bad |-> s \in w.spoiled]
        all    == Append(Remaining(w.saved, tokens), entry)
    IN  IF tokens = <<>> \/ \E e \in Range(w.saved) : Common(e.tokens, tokens) = Len(tokens) THEN w
        ELSE [w EXCEPT !.saved = SubSeq(all, Max({1, Len(all) - MaxSaved + 1}), Len(all))]

\* what server_prompt_cache::load takes: an entry that shares more with the prompt
\* and loses less of itself than the slot does (f_sim, f_keep), a quarter at least
Better(w, s, prompt) ==
    LET own == Common(w.slot[s].tokens, prompt)
    IN  {i \in DOMAIN w.saved : LET e == w.saved[i]
                                    n == Common(e.tokens, prompt)
                                IN  /\ n > own /\ 4 * n >= Len(e.tokens)
                                    /\ \/ w.slot[s].tokens = <<>>
                                       \/ own * Len(e.tokens) < n * Len(w.slot[s].tokens)}

\* Mutant: that the state was not restored is not looked at.
LoadUnchecked(w, s, i) ==
    LET e    == w.saved[i]
        rest == IF e.cells = {} THEN w.cells ELSE SeqRm(w.cells, s, 0, -1)
        new  == {[tok |-> c.tok, pos |-> c.pos, seqs |-> {s}] : c \in e.cells}
    IN  [w EXCEPT !.slot[s].tokens = e.tokens,
                  !.cells = IF Cardinality(rest) + Cardinality(new) > NumCells THEN rest ELSE rest \cup new,
                  !.saved = RemoveAt(@, i),
                  !.spoiled = IF e.bad THEN @ \cup {s} ELSE @ \ {s}]

\* state_read: the sequence is replaced, if there is room for it; else prompt_clear
Load(w, s, i) ==
    LET e    == w.saved[i]
        rest == IF e.cells = {} THEN w.cells ELSE SeqRm(w.cells, s, 0, -1)
    IN  IF Cardinality(rest) + Cardinality(e.cells) > NumCells THEN Clear(w, s)
        ELSE [w EXCEPT !.slot[s].tokens = e.tokens,
                       !.cells = rest \cup {[tok |-> c.tok, pos |-> c.pos, seqs |-> {s}] : c \in e.cells},
                       !.saved = RemoveAt(@, i),
                       !.spoiled = IF e.bad THEN @ \cup {s} ELSE @ \ {s}]

\* the update of the prompt cache in get_available_slot
Updated(w, s, prompt) ==
    LET kept == Save(w, s)
    IN  IF Better(kept, s, prompt) = {} THEN {kept} ELSE {Load(kept, s, i) : i \in Better(kept, s, prompt)}

-----------------------------------------------------------------------------
(* process_single_task, between two calls of update_slots.                 *)

Stay == UNCHANGED <<pc, turn, batch, off, view, n_batch>>
Idle == {s \in Slots : ~Processing(s)}

Started(w, s, t, family, state) ==
    [w EXCEPT !.slot[s] = [Fresh EXCEPT !.state = state, !.tokens = w.slot[s].tokens,
                                        !.task = [t EXCEPT !.family = family]]]

\* the idle slots go to the prompt cache, and out of a unified cache
IdleCleared(w) ==
    IF ~ClearIdle THEN w
    ELSE FoldLeft(LAMBDA v, s : IF v.slot[s].state = "IDLE" THEN Clear(Save(v, s), s) ELSE v,
                  w, [j \in 1 .. NumSlots |-> j - 1])

\* get_available_slot gives an idle slot, by similarity or the one least recently
\* used; the task is launched there, its child in the next idle slot
Launch(t, s) ==
    /\ pc = "tasks" /\ s \in Idle
    /\ t.family = "parent" => Idle \ {s} # {}
    /\ \E w \in {Now} \cup (IF MaxSaved > 0 THEN Updated(Now, s, t.prompt) ELSE {}) :
          LET alone  == Started(w, s, t, t.family, "STARTED")
              family == Started(alone, Min(Idle \ {s}), t, "child", "WAIT_OTHER")
          IN  Becomes(IdleCleared(IF t.family = "parent" THEN family ELSE alone))
    /\ Stay

\* the task is refused, or a family is deferred for want of a second slot, after
\* get_available_slot has updated the prompt cache
Decline(t, s) ==
    /\ pc = "tasks" /\ s \in Idle /\ MaxSaved > 0
    /\ \E w \in Updated(Now, s, t.prompt) : Becomes(w)
    /\ Stay

\* CANCEL
Cancel(s) == pc = "tasks" /\ Processing(s) /\ Becomes(Release(Now, s)) /\ Stay

\* SLOT_ERASE
Erase(s) == pc = "tasks" /\ ~Processing(s) /\ slot[s].tokens # <<>> /\ Becomes(Clear(Now, s)) /\ Stay

Update ==
    /\ pc = "tasks" /\ \E s \in Slots : Processing(s)
    /\ pc' = "gen" /\ turn' = 0 /\ batch' = <<>> /\ off' = 0 /\ view' = 0 /\ n_batch' = NBatch
    /\ UNCHANGED <<slot, cells, saved, spoiled>>

-----------------------------------------------------------------------------
(* pre_decode.  Shifting a slot and adding its sampled token are two       *)
(* passes over the slots in the code; neither sees what the other does to  *)
(* another slot.                                                           *)

Advance(phase) ==
    IF turn < NumSlots - 1 THEN turn' = turn + 1 /\ pc' = pc ELSE turn' = 0 /\ pc' = phase

AfterPrompts(b) == Advance(IF pc = "gen" THEN "prompt" ELSE IF b = <<>> THEN "tasks" ELSE "decode")

\* nothing to do for this slot, or the batch is full
Skip ==
    /\ \/ pc = "gen" /\ slot[turn].state # "GENERATING"
       \/ pc = "prompt" /\ (slot[turn].state \notin {"STARTED", "PROCESSING_PROMPT"} \/ Len(batch) >= NBatch)
    /\ AfterPrompts(batch)
    /\ UNCHANGED <<slot, cells, saved, spoiled, batch, off, view, n_batch>>

Full(s) == Len(slot[s].tokens) + 1 >= NCtx

\* the context shift; with the cells it moves those of the sequences that share them
Shifted(w, s) ==
    LET tokens == w.slot[s].tokens
        keep   == Min({NCtx - Margin, NKeep})
        drop   == Max({0, Min({(Len(tokens) - keep) \div 2, Len(tokens) - keep - 1})})
    IN  [w EXCEPT !.slot[s].tokens = SubSeq(tokens, 1, keep) \o SubSeq(tokens, keep + drop + 1, Len(tokens)),
                  !.slot[s].truncated = TRUE,
                  !.cells = SeqAdd(SeqRm(@, s, keep, keep + drop), s, keep + drop, Len(tokens), -drop),
                  !.spoiled = @ \cup Sharers(w.cells, s, keep + drop, Len(tokens))]

Drafts(n) == UNION {[1 .. k -> Sampled] : k \in 0 .. Max({0, Min({MaxDraft, n})})}

\* the context is full and a family shares the prompt: an error
ShiftRefused(s) ==
    /\ pc = "gen" /\ turn = s /\ slot[s].state = "GENERATING"
    /\ Full(s) /\ slot[s].task.family # "single"
    /\ Becomes(Release(Now, s))
    /\ AfterPrompts(batch)
    /\ UNCHANGED <<batch, off, view, n_batch>>

\* handle_last_sampled_token: the sampled token and the draft
Generate(s) ==
    /\ pc = "gen" /\ turn = s /\ slot[s].state = "GENERATING"
    /\ Full(s) => slot[s].task.family = "single"
    /\ LET w == IF Full(s) THEN Shifted(Now, s) ELSE Now
           n == Len(w.slot[s].tokens)
       IN  \E draft \in Drafts(Min({NCtx - n - 2, MaxOut - Len(slot[s].out) - 1})) :
              LET new == <<Last(slot[s].out)>> \o draft
              IN  /\ batch' = batch \o [j \in DOMAIN new |-> [slot |-> s, tok |-> new[j], pos |-> n + j - 1]]
                  /\ Becomes([w EXCEPT !.slot[s].tokens = @ \o new, !.slot[s].draft = draft,
                                       !.slot[s].i_batch = Len(batch) + 1])
    /\ AfterPrompts(batch')
    /\ UNCHANGED <<off, view, n_batch>>

\* a chunk of at least t.reuse tokens of the slot, from head_c = c on, that the prompt has
\* after those that are in place; acc: what was done so far, "past" (head_p) the tokens of
\* the prompt that are in place
ReuseChunk(s, t, acc, c) ==
    LET tokens == acc.w.slot[s].tokens
        n      == Common(SubSeq(tokens, c + 1, Len(tokens)), SubSeq(t.prompt, acc.past + 1, Len(t.prompt)))
        moved  == SeqRm(acc.w.cells, s, acc.past, c)
    IN  IF c < acc.next \/ acc.past >= Len(t.prompt) \/ n < t.reuse THEN acc
        ELSE [w |-> [acc.w EXCEPT
                !.slot[s].tokens = [j \in DOMAIN tokens |->
                    IF j \in acc.past + 1 .. acc.past + n THEN tokens[c + j - acc.past] ELSE tokens[j]],
                !.cells = SeqAdd(moved, s, c, c + n, acc.past - c),
                !.spoiled = @ \cup (IF c = acc.past THEN {} ELSE Sharers(moved, s, c, c + n))],
              past |-> acc.past + n, next |-> c + n]

\* the chunks that the prompt has closer to its start
Reused(w, s, t) ==
    LET from == Common(w.slot[s].tokens, t.prompt)
    IN  FoldLeft(LAMBDA acc, c : ReuseChunk(s, t, acc, c), [w |-> w, past |-> from, next |-> from],
                 [j \in 1 .. Max({0, Len(w.slot[s].tokens) - from}) |-> from + j - 1])

\* what the slot has that its task can use; "past" is n_past
Matched(w, s) ==
    LET t == w.slot[s].task
    IN  IF ~t.cache THEN [w |-> w, past |-> 0]
        ELSE IF t.reuse > 0 THEN Reused(w, s, t)
        ELSE [w |-> w, past |-> Common(w.slot[s].tokens, t.prompt)]

\* n_past > 0 and pos_min == -1
Missing(s) ==
    LET acc == Matched(Now, s) IN acc.past > 0 /\ Within(acc.w.cells, s, 0, -1) = {}

\* what is kept of the slot when its task starts; at least one token is evaluated
Kept(w, s) ==
    LET acc   == Matched(w, s)
        whole == acc.past = Len(w.slot[s].task.prompt)
        reset == SeqPosMin(acc.w.cells, s) >= acc.past - (IF whole THEN 1 ELSE 0)
        past  == IF reset THEN 0 ELSE IF whole THEN acc.past - 1 ELSE acc.past
    IN  [acc.w EXCEPT !.slot[s].tokens = SubSeq(@, 1, past), !.slot[s].state = "PROCESSING_PROMPT"]

TooLong(s) == Len(slot[s].task.prompt) >= NCtx

Wanted(s, states) == pc = "prompt" /\ turn = s /\ slot[s].state \in states /\ Len(batch) < NBatch

\* the prompt does not fit in the context: an error
PromptRefused(s) ==
    /\ Wanted(s, {"STARTED"}) /\ TooLong(s)
    /\ Becomes(Release(Now, s))
    /\ AfterPrompts(batch)
    /\ UNCHANGED <<batch, off, view, n_batch>>

\* the tokens say that something can be reused, and the cache has nothing: GGML_ABORT
Abort(s) ==
    /\ Wanted(s, {"STARTED"}) /\ ~TooLong(s) /\ Missing(s)
    /\ pc' = "aborted"
    /\ UNCHANGED <<slot, cells, saved, spoiled, turn, batch, off, view, n_batch>>

\* Mutant: what the cache has beyond the tokens stays.
TruncatedNot(w, s) == w

\* seq_rm of everything beyond the tokens; nothing known to be wrong is left with none
Truncated(w, s) ==
    [w EXCEPT !.cells = SeqRm(@, s, Len(w.slot[s].tokens), -1),
              !.spoiled = IF w.slot[s].tokens = <<>> THEN @ \ {s} ELSE @]

\* as many tokens of the prompt as the batch has room for
Prompt(s) ==
    /\ Wanted(s, {"STARTED", "PROCESSING_PROMPT"})
    /\ slot[s].state = "STARTED" => ~TooLong(s) /\ ~Missing(s)
    /\ LET w    == Truncated(IF slot[s].state = "STARTED" THEN Kept(Now, s) ELSE Now, s)
           n    == Len(w.slot[s].tokens)
           all  == slot[s].task.prompt
           last == Min({Len(all), n + NBatch - Len(batch)})
           done == last = Len(all)
       IN  /\ batch' = batch \o [j \in 1 .. last - n |-> [slot |-> s, tok |-> all[n + j], pos |-> n + j - 1]]
           /\ Becomes([w EXCEPT !.slot[s].tokens = @ \o SubSeq(all, n + 1, last),
                                !.slot[s].state = IF done THEN "DONE_PROMPT" ELSE "PROCESSING_PROMPT",
                                !.slot[s].i_batch = IF done THEN Len(batch) + last - n ELSE 0])
    /\ AfterPrompts(batch')
    /\ UNCHANGED <<off, view, n_batch>>

-----------------------------------------------------------------------------
(* decode of the next view of the batch.                                   *)

View    == SubSeq(batch, off + 1, Min({off + n_batch, Len(batch)}))
Rest(n) == {batch[j].slot : j \in n + 1 .. Len(batch)}     \* slots with tokens beyond n

\* llama_batch_allocr::init: the positions follow those in the cache
Consistent ==
    \A s \in {t.slot : t \in Range(View)} :
        SeqPosMax(cells, s) = -1
        \/ Min({t.pos : t \in {t \in Range(View) : t.slot = s}}) = SeqPosMax(cells, s) + 1

Fits == Cardinality(cells) + Len(View) <= NumCells

\* the batch is given up, n of its tokens decoded: a slot that keeps tokens that were
\* not is spoiled
GivenUp(w, n) ==
    /\ Becomes([w EXCEPT !.spoiled = @ \cup {s \in Rest(n) : w.slot[s].tokens # <<>>}])
    /\ pc' = "tasks" /\ batch' = <<>> /\ off' = 0 /\ view' = 0
    /\ UNCHANGED <<turn, n_batch>>

\* an inconsistent batch, no cells for a single token, or a compute error: every slot
\* that is processing is released and cleared
DecodeFatal ==
    /\ pc = "decode"
    /\ LET S == {s \in Slots : Processing(s)}
       IN  GivenUp(ClearAll(ReleaseAll(Now, S), S), off)

Cleared == {s \in Slots : ~Processing(s) /\ slot[s].tokens # <<>>}

\* no cells: an idle slot is cleared, or else the view is halved
DecodeNoSpace ==
    /\ pc = "decode" /\ Consistent /\ ~Fits /\ ~(n_batch = 1)
    /\ IF Cleared # {} THEN Becomes(Clear(Now, Min(Cleared))) /\ UNCHANGED n_batch
                       ELSE n_batch' = n_batch \div 2 /\ UNCHANGED <<slot, cells, saved, spoiled>>
    /\ UNCHANGED <<pc, turn, batch, off, view>>

\* copy_state_to, when the cache has the tokens of p but for those beyond the view
CopyState(w, p, c) ==
    [w EXCEPT !.slot[c].tokens = w.slot[p].tokens, !.slot[c].i_batch = w.slot[p].i_batch,
              !.slot[c].state = "DONE_PROMPT",
              !.cells = SeqCp(SeqRm(@, c, 0, -1), p, c),
              !.spoiled = IF p \in @ \cup Rest(off + Len(View)) THEN @ \cup {c} ELSE @ \ {c}]

\* the parents whose prompts are done, with their children that wait
Families(w) ==
    {f \in Slots \X Slots :
        /\ w.slot[f[1]].state = "DONE_PROMPT" /\ w.slot[f[1]].task.family = "parent"
        /\ w.slot[f[2]].state = "WAIT_OTHER" /\ w.slot[f[2]].task.prompt = w.slot[f[1]].task.prompt}

Decoded == [Now EXCEPT !.cells = @ \cup {[tok |-> t.tok, pos |-> t.pos, seqs |-> {t.slot}] : t \in Range(View)}]

DecodeOk ==
    /\ pc = "decode" /\ Consistent /\ Fits
    /\ Becomes(FoldSet(LAMBDA f, w : CopyState(w, f[1], f[2]), Decoded, Families(Decoded)))
    /\ pc' = "post" /\ turn' = 0 /\ view' = Len(View) /\ n_batch' = NBatch
    /\ UNCHANGED <<batch, off>>

\* common_speculative_process fails: every slot is aborted, none is cleared
DecodeAborted ==
    /\ pc = "decode" /\ Consistent /\ Fits /\ MaxDraft > 0
    /\ GivenUp(ReleaseAll(Decoded, {s \in Slots : Processing(s)}), off + Len(View))

-----------------------------------------------------------------------------
(* post_decode of the view.                                                *)

InView(i) == i \in off + 1 .. off + view

\* the next slot; after the last one the next view, if there is one
Next_View ==
    IF turn < NumSlots - 1 THEN turn' = turn + 1 /\ UNCHANGED <<pc, batch, off, view>>
    ELSE /\ turn' = 0
         /\ IF off + view < Len(batch) THEN pc' = "decode" /\ off' = off + view /\ view' = 0 /\ UNCHANGED batch
            ELSE pc' = "tasks" /\ batch' = <<>> /\ off' = 0 /\ view' = 0

Drafting(s) == slot[s].draft # <<>>
DraftInView(s) == \A j \in 0 .. Len(slot[s].draft) : InView(slot[s].i_batch + j)
Samples(s) == ~Drafting(s) /\ InView(slot[s].i_batch) /\ slot[s].state \in {"DONE_PROMPT", "GENERATING"}

PostSkip ==
    /\ pc = "post" /\ ~Drafting(turn) /\ ~Samples(turn)
    /\ Next_View
    /\ UNCHANGED <<slot, cells, saved, spoiled, n_batch>>

\* a draft that is not in the view, and any other exception: an error, the tokens stay
PostThrows ==
    /\ pc = "post" /\ ((Drafting(turn) /\ ~DraftInView(turn)) \/ Samples(turn))
    /\ Becomes(Release(Now, turn))
    /\ Next_View /\ UNCHANGED n_batch

\* n_predict, and the context when it may not be shifted, end a task; stop words may
Continues(w, s) == Len(w.slot[s].out) < MaxOut

\* the tokens of "new" are generated; the slot goes on or is done
Generated(w, s, new) ==
    LET more == [w EXCEPT !.slot[s].out = @ \o new, !.slot[s].state = "GENERATING",
                          !.slot[s].draft = <<>>, !.slot[s].i_batch = 0]
    IN  {Release(more, s)} \cup (IF Continues(more, s) THEN {more} ELSE {})

Sample ==
    /\ pc = "post" /\ Samples(turn)
    /\ \E t \in Sampled : \E w \in Generated(Now, turn, <<t>>) : Becomes(w)
    /\ Next_View /\ UNCHANGED n_batch

\* Mutant: the slot goes on remembering the rejected tokens.
AcceptedCellsOnly(w, s, k) ==
    LET n == Len(w.slot[s].tokens) - Len(w.slot[s].draft)
    IN  [w EXCEPT !.cells = SeqRm(@, s, n + k, -1)]

\* the first k tokens of the draft are accepted, the others are taken back
Accepted(w, s, k) ==
    LET n == Len(w.slot[s].tokens) - Len(w.slot[s].draft)
    IN  [w EXCEPT !.slot[s].tokens = SubSeq(@, 1, n) \o SubSeq(w.slot[s].draft, 1, k),
                  !.cells = SeqRm(@, s, n + k, -1)]

Verify ==
    /\ pc = "post" /\ Drafting(turn) /\ DraftInView(turn)
    /\ \E k \in 0 .. Len(slot[turn].draft), t \in Sampled :
          \E w \in Generated(Accepted(Now, turn, k), turn, SubSeq(slot[turn].draft, 1, k) \o <<t>>) : Becomes(w)
    /\ Next_View /\ UNCHANGED n_batch

-----------------------------------------------------------------------------
Loop ==
    \/ Update \/ Skip \/ (\E s \in Slots : ShiftRefused(s) \/ Generate(s) \/ PromptRefused(s) \/ Abort(s) \/ Prompt(s))
    \/ DecodeFatal \/ DecodeNoSpace \/ DecodeOk \/ DecodeAborted
    \/ PostSkip \/ PostThrows \/ Sample \/ Verify

Next ==
    \/ Loop
    \/ \E s \in Slots : Cancel(s) \/ Erase(s) \/ \E t \in Tasks : Launch(t, s) \/ Decline(t, s)

Spec == Init /\ [][Next]_vars

-----------------------------------------------------------------------------
(* Properties.                                                             *)

States == {"IDLE", "WAIT_OTHER", "STARTED", "PROCESSING_PROMPT", "DONE_PROMPT", "GENERATING"}

\* Every variable has its type (server_slot, llama_kv_cells, server_prompt_cache, server_batch).
TypeOK ==
    /\ \A s \in Slots : LET x == slot[s] IN
          /\ x.state \in States /\ x.tokens \in Seq(Token) /\ Len(x.tokens) < NCtx
          /\ x.out \in Seq(Sampled) /\ x.draft \in Seq(Sampled) /\ x.i_batch \in Nat
          /\ x.truncated \in BOOLEAN /\ x.task.family \in {"none", "single", "parent", "child"}
    /\ cells \subseteq [tok : Token, pos : 0 .. NCtx - 1, seqs : (SUBSET Slots) \ {{}}]
    /\ Cardinality(cells) <= NumCells
    /\ \A e \in Range(saved) : e.tokens \in Seq(Token) /\ e.cells \subseteq [tok : Token, pos : 0 .. NCtx - 1]
    /\ pc \in {"tasks", "gen", "prompt", "decode", "post", "aborted"} /\ turn \in Slots
    /\ batch \in Seq([slot : Slots, tok : Token, pos : 0 .. NCtx - 1])
    /\ off \in 0 .. Len(batch) /\ off + view <= Len(batch) /\ n_batch \in 1 .. NBatch
    /\ spoiled \subseteq Slots

\* the n first positions, with nothing else there
Holds(data, tokens, n) == {d \in data : d.pos < n} = {[tok |-> tokens[j], pos |-> j - 1] : j \in 1 .. n}

\* Between two batches the cache has the tokens that a slot remembers, each at its
\* place and nothing in addition there, whatever was shifted, copied, saved, loaded,
\* rolled back and cleared - what n_past relies on - and so does a saved prompt.
\* The exceptions are the slots in "spoiled": cells shared with a slot that moves
\* them, a batch that was given up after a slot was released, a child copied too early.
\* And the variables have their types.
PromptIsCached ==
    /\ TypeOK
    /\ pc = "tasks" => \A s \in Slots \ spoiled : Holds(Data(cells, s), slot[s].tokens, Len(slot[s].tokens))
    /\ \A e \in Range(saved) : ~e.bad => Holds(e.cells, e.tokens, Len(e.tokens))

\* When a view is decoded the cache has, of every slot that is in it and is not spoiled,
\* the tokens before those of the view and no others: none that the new tokens would
\* attend to by mistake, and positions that follow each other.
DecodeSeesPrompt ==
    pc = "decode" => \A s \in Rest(off) \ spoiled : Processing(s) =>
        LET n == Min({batch[j].pos : j \in {j \in off + 1 .. Len(batch) : batch[j].slot = s}})
        IN  Data(cells, s) = {[tok |-> slot[s].tokens[j], pos |-> j - 1] : j \in 1 .. n}

\* What a slot goes on from is its own prompt and what it has generated, without the
\* last token, as long as the context was not shifted: whatever drafts were taken back
\* and whatever is launched, saved, loaded, copied or cleared around it.
GoesOnFromItsPrompt ==
    pc = "tasks" => \A s \in Slots : LET x == slot[s] IN
        /\ x.state = "PROCESSING_PROMPT" => IsPrefix(x.tokens, x.task.prompt)
        /\ x.state = "GENERATING" /\ ~x.truncated => x.tokens = x.task.prompt \o Front(x.out)
=============================================================================
