-------------------------- MODULE SlotCacheProofs --------------------------
(***************************************************************************)
(* What a slot goes on from is its own prompt and what it has generated,   *)
(* for any tasks, slots and sizes.                                         *)
(*                                                                         *)
(* What a slot remembers is right in one of two ways: it is rested (its    *)
(* tokens lack the one sampled last), or what it has for the batch is      *)
(* pending, and then its place in the batch is beyond what is done.  The   *)
(* invariant says which it is at each point of update_slots; an operation  *)
(* between two batches may change the tokens of slots that are idle, and   *)
(* of no other (Calm).                                                     *)
(***************************************************************************)
EXTENDS SlotCache, FoldProofs

\* The types of the variables; server_task, server_slot, the cells, and what was saved.
TaskType  == [prompt : Seq(Token), cache : BOOLEAN, reuse : Nat, family : {"none", "single", "parent", "child"}]
SlotType  == [state : States, task : TaskType, tokens : Seq(Token), out : Seq(Sampled), draft : Seq(Sampled),
              i_batch : Nat, truncated : BOOLEAN]
CellType  == [tok : Token, pos : Nat, seqs : SUBSET Slots]
DataType  == [tok : Token, pos : Nat]
SavedType == [tokens : Seq(Token), cells : SUBSET DataType, bad : BOOLEAN]
TokType   == [slot : Slots, tok : Token, pos : Nat]

\* what the operations of a slot work on
Work == [slot : [Slots -> SlotType], cells : SUBSET CellType, saved : Seq(SavedType), spoiled : SUBSET Slots]

\* Every variable has its type.
Typed ==
    /\ Now \in Work
    /\ pc \in {"tasks", "gen", "prompt", "decode", "post", "aborted"} /\ turn \in Slots
    /\ batch \in Seq(TokType) /\ off \in Nat /\ view \in Nat /\ n_batch \in Nat

\* What a slot remembers before it generates is of its prompt, and it has generated nothing.
Coherent(x) ==
    /\ x.state # "GENERATING" => x.out = <<>> /\ x.draft = <<>>
    /\ x.state = "PROCESSING_PROMPT" => IsPrefix(x.tokens, x.task.prompt)
    /\ x.state = "DONE_PROMPT" => x.tokens = x.task.prompt

\* Nothing of a slot is in the batch: what it remembers lacks the token sampled last.
Rested(x) ==
    /\ x.out # <<>> /\ x.draft = <<>> /\ x.i_batch = 0
    /\ ~x.truncated => x.tokens = x.task.prompt \o Front(x.out)

\* The sampled token and the draft are in the batch, which has n tokens and is decoded up to o.
PendingAt(x, o, n) ==
    /\ x.out # <<>> /\ o < x.i_batch /\ x.i_batch <= n
    /\ ~x.truncated => x.tokens = (x.task.prompt \o x.out) \o x.draft

\* The same, of the batch as it is.
Pending(x) == PendingAt(x, off, Len(batch))

\* Where each generating slot is, as iterate() goes from slot to slot.
Flow ==
    /\ \A s \in Slots : LET x == slot[s] IN x.state = "GENERATING" =>
          /\ pc = "tasks" => Rested(x)
          /\ pc = "gen" => IF s < turn THEN Pending(x) ELSE Rested(x)
          /\ pc = "prompt" => Pending(x)
          /\ pc = "decode" => Rested(x) \/ Pending(x)
          /\ pc = "post" => \/ Rested(x)
                            \/ Pending(x) /\ (s < turn => x.draft = <<>> /\ off + view < x.i_batch)
    /\ pc \in {"gen", "prompt"} => off = 0

\* What holds at every point of update_slots.
IInv == Typed /\ (\A s \in Slots : Coherent(slot[s])) /\ Flow

-----------------------------------------------------------------------------
(* Operations of a slot.                                                   *)

\* server_tokens::get_common_prefix.
LEMMA CommonIs ==
    ASSUME NEW T, NEW a \in Seq(T), NEW b \in Seq(T)
    PROVE  /\ Common(a, b) \in Nat /\ Common(a, b) <= Len(a) /\ Common(a, b) <= Len(b)
           /\ SubSeq(a, 1, Common(a, b)) = SubSeq(b, 1, Common(a, b))
<1> DEFINE m == Min({Len(a), Len(b)})
           N == {n \in 0 .. m : SubSeq(a, 1, n) = SubSeq(b, 1, n)}
<1>1. m \in Nat /\ m <= Len(a) /\ m <= Len(b)
  BY MinOfTwo
<1>2. 0 \in N
  <2>1. SubSeq(a, 1, 0) = <<>> /\ SubSeq(b, 1, 0) = <<>>
    OBVIOUS
  <2> QED BY <1>1, <2>1
<1>3. Common(a, b) = Max(N)
  BY DEF Common
<1> HIDE DEF m
<1>4. Max(N) \in N
  <2>1. N \in SUBSET (0 .. m) /\ N # {}
    BY <1>2
  <2> HIDE DEF N
  <2> QED BY <1>1, <2>1, MaxIs
<1> DEFINE c == Max(N)
<1>5. c \in 0 .. m /\ SubSeq(a, 1, c) = SubSeq(b, 1, c) /\ Common(a, b) = c
  BY <1>3, <1>4
<1> HIDE DEF c, N
<1>6. c \in Nat /\ c <= Len(a) /\ c <= Len(b)
  BY <1>1, <1>5
<1> QED BY <1>5, <1>6

\* What the memory does to the cells.
LEMMA CellsType ==
    ASSUME NEW all \in SUBSET CellType, NEW s \in Slots
    PROVE  /\ \A p0, p1 : Within(all, s, p0, p1) \in SUBSET all
           /\ \A p0, p1 : SeqRm(all, s, p0, p1) \in SUBSET CellType
           /\ \A d \in Slots : SeqCp(all, s, d) \in SUBSET CellType
           /\ \A p0, p1 : \A delta \in Int : SeqAdd(all, s, p0, p1, delta) \in SUBSET CellType
           /\ \A p0, p1 : Sharers(all, s, p0, p1) \in SUBSET Slots
           /\ Data(all, s) \in SUBSET DataType
<1>1. \A p0, p1 : Within(all, s, p0, p1) \in SUBSET all
  BY DEF Within
<1>2. ASSUME NEW gone \in SUBSET all
      PROVE  (all \ gone) \cup {c \in {[c EXCEPT !.seqs = @ \ {s}] : c \in gone} : c.seqs # {}} \in SUBSET CellType
  BY DEF CellType
<1>3. ASSUME NEW gone \in SUBSET all, NEW d \in Slots
      PROVE  (all \ gone) \cup {[c EXCEPT !.seqs = @ \cup {d}] : c \in gone} \in SUBSET CellType
  BY DEF CellType
<1>4. ASSUME NEW gone \in SUBSET all, NEW delta \in Int
      PROVE  (all \ gone) \cup {c \in {[c EXCEPT !.pos = @ + delta] : c \in gone} : c.pos >= 0} \in SUBSET CellType
  BY DEF CellType
<1>5. ASSUME NEW gone \in SUBSET all
      PROVE  (UNION {c.seqs : c \in gone}) \ {s} \in SUBSET Slots
  BY DEF CellType
<1>6. ASSUME NEW gone \in SUBSET all
      PROVE  {[tok |-> c.tok, pos |-> c.pos] : c \in gone} \in SUBSET DataType
  BY DEF CellType, DataType
<1>7. \A p0, p1 : SeqRm(all, s, p0, p1) \in SUBSET CellType
  BY <1>1, <1>2 DEF SeqRm
<1>8. \A d \in Slots : SeqCp(all, s, d) \in SUBSET CellType
  BY <1>1, <1>3 DEF SeqCp
<1>9. \A p0, p1 : \A delta \in Int : SeqAdd(all, s, p0, p1, delta) \in SUBSET CellType
  BY <1>1, <1>4 DEF SeqAdd
<1>10. \A p0, p1 : Sharers(all, s, p0, p1) \in SUBSET Slots
  BY <1>1, <1>5 DEF Sharers
<1>11. Data(all, s) \in SUBSET DataType
  BY <1>1, <1>6 DEF Data
<1> QED BY <1>1, <1>7, <1>8, <1>9, <1>10, <1>11

\* The parts of what the operations work on.
LEMMA WorkParts ==
    ASSUME NEW w \in Work
    PROVE  /\ w.slot \in [Slots -> SlotType] /\ w.cells \in SUBSET CellType /\ w.saved \in Seq(SavedType)
           /\ w.spoiled \in SUBSET Slots
BY DEF Work

\* v has the same tasks as w, at the same point, if not the same tokens of the slots S.
SameBut(w, v, S) ==
    /\ v \in Work
    /\ \A s \in Slots \ S : v.slot[s] = w.slot[s]
    /\ \A s \in S : \E tokens \in Seq(Token) : v.slot[s] = [w.slot[s] EXCEPT !.tokens = tokens]

\* The fields of a slot.
LEMMA SlotParts ==
    ASSUME NEW x \in SlotType
    PROVE  /\ x.state \in States /\ x.task \in TaskType /\ x.tokens \in Seq(Token) /\ x.out \in Seq(Sampled)
           /\ x.draft \in Seq(Sampled) /\ x.i_batch \in Nat /\ x.truncated \in BOOLEAN
           /\ \A tokens \in Seq(Token) : [x EXCEPT !.tokens = tokens] \in SlotType
           /\ x = [x EXCEPT !.tokens = x.tokens]
BY DEF SlotType

\* prompt_clear.
LEMMA ClearIs ==
    ASSUME NEW w \in Work, NEW s \in Slots
    PROVE  /\ SameBut(w, Clear(w, s), {s})
           /\ Clear(w, s).slot = [w.slot EXCEPT ![s].tokens = <<>>]
<1>1. w.slot[s] \in SlotType /\ <<>> \in Seq(Token)
  BY WorkParts
<1>2. [w.slot EXCEPT ![s].tokens = <<>>] \in [Slots -> SlotType]
  BY <1>1, WorkParts, SlotParts
<1>3. SeqRm(w.cells, s, 0, -1) \in SUBSET CellType /\ w.spoiled \ {s} \in SUBSET Slots
  BY WorkParts, CellsType
<1> DEFINE sl == [w.slot EXCEPT ![s].tokens = <<>>]
           c  == SeqRm(w.cells, s, 0, -1)
           sp == w.spoiled \ {s}
<1>4. Clear(w, s) = [w EXCEPT !.slot = sl, !.cells = c, !.saved = w.saved, !.spoiled = sp]
  BY DEF Work, Clear
<1>5. Clear(w, s) \in Work /\ Clear(w, s).slot = sl
  <2>1. sl \in [Slots -> SlotType] /\ c \in SUBSET CellType /\ sp \in SUBSET Slots
    BY <1>2, <1>3
  <2> HIDE DEF sl, c, sp
  <2> QED BY <2>1, <1>4 DEF Work
<1>6. \A x \in Slots \ {s} : Clear(w, s).slot[x] = w.slot[x]
  BY <1>5, WorkParts
<1>7. Clear(w, s).slot[s] = [w.slot[s] EXCEPT !.tokens = <<>>]
  BY <1>5, WorkParts
<1> QED BY <1>1, <1>5, <1>6, <1>7 DEF SameBut

\* A slot without a task.
LEMMA FreshType ==
    ASSUME NEW tokens \in Seq(Token)
    PROVE  [Fresh EXCEPT !.tokens = tokens] \in SlotType
<1>1. NoTask \in TaskType /\ "IDLE" \in States /\ <<>> \in Seq(Sampled)
  BY DEF NoTask, TaskType, States
<1>2. Fresh \in SlotType
  BY <1>1 DEF Fresh, SlotType
<1> QED BY <1>2 DEF SlotType

\* release, and reset.
LEMMA ReleaseIs ==
    ASSUME NEW w \in Work, NEW s \in Slots
    PROVE  /\ Release(w, s) \in Work
           /\ \A x \in Slots \ {s} : Release(w, s).slot[x] = w.slot[x]
           /\ \E tokens \in Seq(Token) : Release(w, s).slot[s] = [Fresh EXCEPT !.tokens = tokens]
<1> DEFINE f    == [Fresh EXCEPT !.tokens = w.slot[s].tokens]
           kept == [w EXCEPT !.slot[s] = f]
<1>1. w.slot[s] \in SlotType /\ w.slot[s].tokens \in Seq(Token) /\ f \in SlotType
  BY WorkParts, SlotParts, FreshType
<1>2. kept \in Work /\ kept.slot[s] = f /\ \A x \in Slots \ {s} : kept.slot[x] = w.slot[x]
  <2> HIDE DEF f
  <2> QED BY <1>1 DEF Work
<1>3. Release(w, s) = IF w.slot[s].task.family = "child" THEN Clear(kept, s) ELSE kept
  BY DEF Release
<1>4. CASE w.slot[s].task.family = "child"
  <2>1. SameBut(kept, Clear(kept, s), {s})
    <3> HIDE DEF kept
    <3> QED BY <1>2, ClearIs
  <2>2. PICK tokens \in Seq(Token) : Clear(kept, s).slot[s] = [kept.slot[s] EXCEPT !.tokens = tokens]
    BY <2>1 DEF SameBut
  <2>3. [f EXCEPT !.tokens = tokens] = [Fresh EXCEPT !.tokens = tokens]
    BY DEF Fresh
  <2> HIDE DEF kept, f
  <2> QED BY <1>2, <1>3, <1>4, <2>1, <2>2, <2>3 DEF SameBut
<1>5. CASE w.slot[s].task.family # "child"
  <2> HIDE DEF kept
  <2> QED BY <1>1, <1>2, <1>3, <1>5
<1> QED BY <1>4, <1>5

\* A choice function is one for FoldSet.
LEMMA AnyChoice ==
    ASSUME NEW S
    PROVE  Chooses([T \in (SUBSET S) \ {{}} |-> CHOOSE x \in T : TRUE], S)
<1> DEFINE ch == [T \in (SUBSET S) \ {{}} |-> CHOOSE x \in T : TRUE]
<1>1. \A T \in (SUBSET S) \ {{}} : (CHOOSE x \in T : TRUE) \in T
  OBVIOUS
<1> QED BY <1>1 DEF Chooses

\* There are finitely many slots.
LEMMA SlotsFinite ==
    ASSUME NEW S \in SUBSET Slots
    PROVE  IsFiniteSet(S)
<1>1. NumSlots - 1 \in Int /\ 0 \in Int
  BY SizesAssumption
<1>2. IsFiniteSet(0 .. NumSlots - 1)
  BY <1>1, FS_Interval
<1> QED BY <1>2, FS_Subset DEF Slots

\* release() of all the slots of S.
Released(w, v, S) ==
    /\ v \in Work
    /\ \A x \in Slots \ S : v.slot[x] = w.slot[x]
    /\ \A x \in S : \E tokens \in Seq(Token) : v.slot[x] = [Fresh EXCEPT !.tokens = tokens]

\* One slot after the others.
LEMMA ReleasedOneMore ==
    ASSUME NEW w \in Work, NEW T \in SUBSET Slots, NEW x \in T, NEW v, Released(w, v, T \ {x})
    PROVE  Released(w, Release(v, x), T)
<1>1. /\ v \in Work /\ x \in Slots /\ Release(v, x) \in Work
      /\ \A y \in Slots \ {x} : Release(v, x).slot[y] = v.slot[y]
  BY ReleaseIs DEF Released
<1>2. \E tokens \in Seq(Token) : Release(v, x).slot[x] = [Fresh EXCEPT !.tokens = tokens]
  BY <1>1, ReleaseIs
<1>3. ASSUME NEW y \in Slots \ T
      PROVE  Release(v, x).slot[y] = w.slot[y]
  BY <1>1 DEF Released
<1>4. ASSUME NEW y \in T
      PROVE  \E tokens \in Seq(Token) : Release(v, x).slot[y] = [Fresh EXCEPT !.tokens = tokens]
  <2>1. CASE y = x
    BY <1>2, <2>1
  <2>2. CASE y # x
    <3>1. y \in T \ {x} /\ Release(v, x).slot[y] = v.slot[y]
      BY <1>1, <2>2
    <3>2. \E tokens \in Seq(Token) : v.slot[y] = [Fresh EXCEPT !.tokens = tokens]
      BY <3>1 DEF Released
    <3> QED BY <3>1, <3>2
  <2> QED BY <2>1, <2>2
<1> QED BY <1>1, <1>3, <1>4 DEF Released

\* release() of all the slots of S: what one more keeps true holds in the end.
LEMMA ReleaseAllRule ==
    ASSUME NEW w \in Work, NEW S \in SUBSET Slots, NEW K, <<{}, w>> \in K,
           \A T \in SUBSET S : \A x \in T : \A v \in Work : <<T \ {x}, v>> \in K => <<T, Release(v, x)>> \in K
    PROVE  <<S, ReleaseAll(w, S)>> \in K
<1> DEFINE F    == [p \in S \X Work |-> Release(p[2], p[1])]
           ch   == [T \in (SUBSET S) \ {{}} |-> CHOOSE x \in T : TRUE]
           D(h) == [T \in SUBSET S |-> IF T = {} THEN w
                        ELSE Release(h[T \ {CHOOSE x \in T : TRUE}], CHOOSE x \in T : TRUE)]
           g    == CHOOSE h : h = D(h)
<1>1. F \in [S \X Work -> Work] /\ \A x \in S, v \in Work : F[<<x, v>>] = Release(v, x)
  BY ReleaseIs
<1>2. ASSUME NEW T \in SUBSET S, NEW x \in T, NEW v \in Work, <<T \ {x}, v>> \in K
      PROVE  <<T, F[<<x, v>>]>> \in K
  <2>1. F[<<x, v>>] = Release(v, x)
    BY <1>1
  <2>2. <<T, Release(v, x)>> \in K
    BY <1>2
  <2> QED BY <2>1, <2>2
<1>3. Chooses(ch, S) /\ IsFiniteSet(S) /\ \A T \in (SUBSET S) \ {{}} : ch[T] = CHOOSE x \in T : TRUE
  BY AnyChoice, SlotsFinite
<1> HIDE DEF F, ch
<1>4. /\ \E h : FoldsTo(h, ch, S, Work, w, F)
      /\ \A h : GoesOn(h, ch, S, Work, w, F) => h[S] \in Work /\ <<S, h[S]>> \in K
  BY <1>1, <1>2, <1>3, FoldIs
<1>5. PICK h : FoldsTo(h, ch, S, Work, w, F)
  BY <1>4
<1>6. h = D(h)
  <2>1. \A T \in (SUBSET S) \ {{}} : h[T] = Release(h[T \ {ch[T]}], ch[T])
    BY <1>1, <1>3, <1>5 DEF FoldsTo, Chooses
  <2> QED BY <1>3, <1>5, <2>1 DEF FoldsTo
<1>7. g = D(g)
  BY <1>6
<1> HIDE DEF g
<1>8. GoesOn(g, ch, S, Work, w, F)
  <2>1. g[{}] = w
    BY <1>7
  <2>2. ASSUME NEW T \in (SUBSET S) \ {{}}, g[T \ {ch[T]}] \in Work
        PROVE  g[T] = F[<<ch[T], g[T \ {ch[T]}]>>]
    <3>1. g[T] = Release(g[T \ {ch[T]}], ch[T])
      BY <1>3, <1>7
    <3> QED BY <1>1, <1>3, <2>2, <3>1 DEF Chooses
  <2> QED BY <2>1, <2>2 DEF GoesOn
<1>9. ReleaseAll(w, S) = g[S]
  BY DEF ReleaseAll, FoldSet, MapThenFoldSet, g
<1> QED BY <1>4, <1>8, <1>9

\* release() of all the slots of S, in any order.
LEMMA ReleaseAllIs ==
    ASSUME NEW w \in Work, NEW S \in SUBSET Slots
    PROVE  Released(w, ReleaseAll(w, S), S)
<1> DEFINE K == {p \in (SUBSET S) \X Work : Released(w, p[2], p[1])}
<1>1. <<{}, w>> \in K
  BY DEF Released
<1>2. ASSUME NEW T \in SUBSET S, NEW x \in T, NEW v \in Work, <<T \ {x}, v>> \in K
      PROVE  <<T, Release(v, x)>> \in K
  <2>1. Released(w, v, T \ {x}) /\ x \in Slots
    BY <1>2
  <2>2. Released(w, Release(v, x), T)
    BY <2>1, ReleasedOneMore
  <2>3. Release(v, x) \in Work
    BY <2>2 DEF Released
  <2> QED BY <2>2, <2>3
<1> HIDE DEF K
<1>3. <<S, ReleaseAll(w, S)>> \in K
  BY <1>1, <1>2, ReleaseAllRule
<1> QED BY <1>3 DEF K

\* Cleared slots lose their tokens and nothing else.
LEMMA SameButMore ==
    ASSUME NEW w \in Work, NEW v, NEW u, NEW S \in SUBSET Slots, NEW R \in SUBSET Slots,
           SameBut(w, v, S), SameBut(v, u, R)
    PROVE  SameBut(w, u, S \cup R)
<1>1. u \in Work /\ v \in Work
  BY DEF SameBut
<1>2. ASSUME NEW s \in Slots \ (S \cup R)
      PROVE  u.slot[s] = w.slot[s]
  BY DEF SameBut
<1>3. ASSUME NEW s \in S \cup R
      PROVE  \E tokens \in Seq(Token) : u.slot[s] = [w.slot[s] EXCEPT !.tokens = tokens]
  <2>0. s \in Slots /\ w.slot[s] \in SlotType /\ v.slot[s] \in SlotType
    BY <1>1, WorkParts
  <2>1. PICK a \in Seq(Token) : v.slot[s] = [w.slot[s] EXCEPT !.tokens = a]
    <3>1. CASE s \in S
      BY <3>1 DEF SameBut
    <3>2. CASE s \notin S
      <4>1. v.slot[s] = w.slot[s]
        BY <2>0, <3>2 DEF SameBut
      <4> QED BY <2>0, <4>1, SlotParts
    <3> QED BY <3>1, <3>2
  <2>2. PICK b \in Seq(Token) : u.slot[s] = [v.slot[s] EXCEPT !.tokens = b]
    <3>1. CASE s \in R
      BY <3>1 DEF SameBut
    <3>2. CASE s \notin R
      <4>1. u.slot[s] = v.slot[s]
        BY <2>0, <3>2 DEF SameBut
      <4> QED BY <2>0, <4>1, SlotParts
    <3> QED BY <3>1, <3>2
  <2>3. u.slot[s] = [w.slot[s] EXCEPT !.tokens = b]
    BY <2>0, <2>1, <2>2 DEF SlotType
  <2> QED BY <2>3
<1> QED BY <1>1, <1>2, <1>3 DEF SameBut

\* What is the same but for S is the same but for more.
LEMMA SameButWhat ==
    ASSUME NEW w \in Work, NEW v, NEW S \in SUBSET Slots, NEW R \in SUBSET Slots, SameBut(w, v, S), S \subseteq R
    PROVE  SameBut(w, v, R)
<1>1. ASSUME NEW s \in R \ S
      PROVE  \E tokens \in Seq(Token) : v.slot[s] = [w.slot[s] EXCEPT !.tokens = tokens]
  <2>1. s \in Slots /\ w.slot[s] \in SlotType /\ v.slot[s] = w.slot[s]
    BY WorkParts DEF SameBut
  <2> QED BY <2>1, SlotParts
<1> QED BY <1>1 DEF SameBut

\* prompt_clear() of all the slots of S: what one more keeps true holds in the end.
LEMMA ClearAllRule ==
    ASSUME NEW w \in Work, NEW S \in SUBSET Slots, NEW K, <<{}, w>> \in K,
           \A T \in SUBSET S : \A x \in T : \A v \in Work : <<T \ {x}, v>> \in K => <<T, Clear(v, x)>> \in K
    PROVE  <<S, ClearAll(w, S)>> \in K
<1> DEFINE F    == [p \in S \X Work |-> Clear(p[2], p[1])]
           ch   == [T \in (SUBSET S) \ {{}} |-> CHOOSE x \in T : TRUE]
           D(h) == [T \in SUBSET S |-> IF T = {} THEN w
                        ELSE Clear(h[T \ {CHOOSE x \in T : TRUE}], CHOOSE x \in T : TRUE)]
           g    == CHOOSE h : h = D(h)
<1>1. F \in [S \X Work -> Work] /\ \A x \in S, v \in Work : F[<<x, v>>] = Clear(v, x)
  BY ClearIs DEF SameBut
<1>2. ASSUME NEW T \in SUBSET S, NEW x \in T, NEW v \in Work, <<T \ {x}, v>> \in K
      PROVE  <<T, F[<<x, v>>]>> \in K
  <2>1. F[<<x, v>>] = Clear(v, x)
    BY <1>1
  <2>2. <<T, Clear(v, x)>> \in K
    BY <1>2
  <2> QED BY <2>1, <2>2
<1>3. Chooses(ch, S) /\ IsFiniteSet(S) /\ \A T \in (SUBSET S) \ {{}} : ch[T] = CHOOSE x \in T : TRUE
  BY AnyChoice, SlotsFinite
<1> HIDE DEF F, ch
<1>4. /\ \E h : FoldsTo(h, ch, S, Work, w, F)
      /\ \A h : GoesOn(h, ch, S, Work, w, F) => h[S] \in Work /\ <<S, h[S]>> \in K
  BY <1>1, <1>2, <1>3, FoldIs
<1>5. PICK h : FoldsTo(h, ch, S, Work, w, F)
  BY <1>4
<1>6. h = D(h)
  <2>1. \A T \in (SUBSET S) \ {{}} : h[T] = Clear(h[T \ {ch[T]}], ch[T])
    BY <1>1, <1>3, <1>5 DEF FoldsTo, Chooses
  <2> QED BY <1>3, <1>5, <2>1 DEF FoldsTo
<1>7. g = D(g)
  BY <1>6
<1> HIDE DEF g
<1>8. GoesOn(g, ch, S, Work, w, F)
  <2>1. g[{}] = w
    BY <1>7
  <2>2. ASSUME NEW T \in (SUBSET S) \ {{}}, g[T \ {ch[T]}] \in Work
        PROVE  g[T] = F[<<ch[T], g[T \ {ch[T]}]>>]
    <3>1. g[T] = Clear(g[T \ {ch[T]}], ch[T])
      BY <1>3, <1>7
    <3> QED BY <1>1, <1>3, <2>2, <3>1 DEF Chooses
  <2> QED BY <2>1, <2>2 DEF GoesOn
<1>9. ClearAll(w, S) = g[S]
  BY DEF ClearAll, FoldSet, MapThenFoldSet, g
<1> QED BY <1>4, <1>8, <1>9

\* prompt_clear() of all the slots of S.
LEMMA ClearAllIs ==
    ASSUME NEW w \in Work, NEW S \in SUBSET Slots
    PROVE  SameBut(w, ClearAll(w, S), S)
<1> DEFINE K == {p \in (SUBSET S) \X Work : SameBut(w, p[2], p[1])}
<1>1. <<{}, w>> \in K
  BY DEF SameBut
<1>2. ASSUME NEW T \in SUBSET S, NEW x \in T, NEW v \in Work, <<T \ {x}, v>> \in K
      PROVE  <<T, Clear(v, x)>> \in K
  <2>1. SameBut(w, v, T \ {x}) /\ x \in Slots
    BY <1>2
  <2>2. SameBut(v, Clear(v, x), {x})
    BY <2>1, ClearIs DEF SameBut
  <2>3. (T \ {x}) \cup {x} = T /\ T \ {x} \in SUBSET Slots /\ {x} \in SUBSET Slots
    BY <2>1
  <2>4. SameBut(w, Clear(v, x), (T \ {x}) \cup {x})
    BY <2>1, <2>2, <2>3, SameButMore
  <2>5. Clear(v, x) \in Work
    BY <2>2 DEF SameBut
  <2> QED BY <2>3, <2>4, <2>5
<1> HIDE DEF K
<1>3. <<S, ClearAll(w, S)>> \in K
  BY <1>1, <1>2, ClearAllRule
<1> QED BY <1>3 DEF K

-----------------------------------------------------------------------------
(* The prompt cache.                                                       *)

\* FoldLeft goes through a sequence from its first element to the last.
LEMMA LastChoice ==
    ASSUME NEW n \in Nat
    PROVE  /\ Chooses([T \in (SUBSET (1 .. n)) \ {{}} |-> Max(T)], 1 .. n) /\ IsFiniteSet(1 .. n)
           /\ \A T \in (SUBSET (1 .. n)) \ {{}} : [U \in (SUBSET (1 .. n)) \ {{}} |-> Max(U)][T] = Max(T)
<1>1. ASSUME NEW T \in (SUBSET (1 .. n)) \ {{}}
      PROVE  Max(T) \in T
  <2>1. T \in SUBSET (0 .. n) /\ T # {}
    OBVIOUS
  <2> QED BY <2>1, MaxIs
<1>2. IsFiniteSet(1 .. n)
  BY FS_Interval
<1> QED BY <1>1, <1>2 DEF Chooses

\* What the prompt cache keeps is a part of what it had.
LEMMA RemainingType ==
    ASSUME NEW R, NEW all \in Seq(R), NEW tokens
    PROVE  Remaining(all, tokens) \in Seq(R)
<1> DEFINE n == Len(all)
           V == Seq(R)
<1>0. n \in Nat /\ DOMAIN all = 1 .. n /\ <<>> \in V /\ \A i \in 1 .. n : all[i] \in R
  OBVIOUS
<1> HIDE DEF V, n
<1> DEFINE S    == 1 .. n
           F    == [p \in S \X V |-> (IF Common(all[p[1]].tokens, tokens) = Len(all[p[1]].tokens) THEN p[2] ELSE Append(p[2], all[p[1]]))]
           ch   == [T \in (SUBSET S) \ {{}} |-> Max(T)]
           H    == {p \in (SUBSET S) \X V : TRUE}
           D(h) == [T \in SUBSET S |-> IF T = {} THEN <<>>
                        ELSE (IF Common(all[Max(T)].tokens, tokens) = Len(all[Max(T)].tokens) THEN h[T \ {Max(T)}] ELSE Append(h[T \ {Max(T)}], all[Max(T)]))]
           g    == CHOOSE h : h = D(h)
<1>1. F \in [S \X V -> V] /\ \A i \in S, v \in V : F[<<i, v>>] = (IF Common(all[i].tokens, tokens) = Len(all[i].tokens) THEN v ELSE Append(v, all[i]))
  BY <1>0 DEF V
<1>2. <<{}, <<>>>> \in H
  BY <1>0
<1>3. ASSUME NEW T \in SUBSET S, NEW i \in T, NEW v \in V, <<T \ {i}, v>> \in H
      PROVE  <<T, F[<<i, v>>]>> \in H
  BY <1>1, <1>3
<1>4. Chooses(ch, S) /\ IsFiniteSet(S) /\ \A T \in (SUBSET S) \ {{}} : ch[T] = Max(T)
  BY <1>0, LastChoice
<1> HIDE DEF F, ch, H, S
<1>5. /\ \E h : FoldsTo(h, ch, S, V, <<>>, F)
      /\ \A h : GoesOn(h, ch, S, V, <<>>, F) => h[S] \in V /\ <<S, h[S]>> \in H
  BY <1>1, <1>2, <1>3, <1>0, <1>4, FoldIs
<1>6. PICK h : FoldsTo(h, ch, S, V, <<>>, F)
  BY <1>5
<1>7. h = D(h)
  <2>1. \A T \in (SUBSET S) \ {{}} : h[T] = (IF Common(all[ch[T]].tokens, tokens) = Len(all[ch[T]].tokens) THEN h[T \ {ch[T]}] ELSE Append(h[T \ {ch[T]}], all[ch[T]]))
    BY <1>1, <1>4, <1>6 DEF FoldsTo, Chooses
  <2> QED BY <1>4, <1>6, <2>1 DEF FoldsTo
<1>8. g = D(g)
  BY <1>7
<1> HIDE DEF g
<1>9. GoesOn(g, ch, S, V, <<>>, F)
  <2>1. g[{}] = <<>>
    BY <1>8
  <2>2. ASSUME NEW T \in (SUBSET S) \ {{}}, g[T \ {ch[T]}] \in V
        PROVE  g[T] = F[<<ch[T], g[T \ {ch[T]}]>>]
    <3>1. g[T] = (IF Common(all[ch[T]].tokens, tokens) = Len(all[ch[T]].tokens) THEN g[T \ {ch[T]}] ELSE Append(g[T \ {ch[T]}], all[ch[T]]))
      BY <1>4, <1>8
    <3> QED BY <1>1, <1>4, <2>2, <3>1 DEF Chooses
  <2> QED BY <2>1, <2>2 DEF GoesOn
<1>10. DOMAIN all = S
  BY <1>0 DEF S
<1>11. Remaining(all, tokens) = g[S]
  BY <1>10 DEF Remaining, FoldLeft, MapThenFoldSet, g
<1> QED BY <1>5, <1>9, <1>11 DEF V

\* server_prompt_cache::alloc.
LEMMA SaveIs ==
    ASSUME NEW w \in Work, NEW s \in Slots
    PROVE  Save(w, s) \in Work /\ Save(w, s).slot = w.slot /\ SameBut(w, Save(w, s), {})
<1> DEFINE tokens == w.slot[s].tokens
           entry  == [tokens |-> tokens, cells |-> Data(w.cells, s), bad |-> s \in w.spoiled]
           all    == Append(Remaining(w.saved, tokens), entry)
           kept   == SubSeq(all, Max({1, Len(all) - MaxSaved + 1}), Len(all))
<1>1. entry \in SavedType
  <2>0. w.slot[s] \in SlotType /\ w.cells \in SUBSET CellType
    BY WorkParts
  <2>1. tokens \in Seq(Token) /\ Data(w.cells, s) \in SUBSET DataType
    BY <2>0, SlotParts, CellsType
  <2> HIDE DEF tokens
  <2> QED BY <2>1 DEF SavedType
<1>2. all \in Seq(SavedType)
  <2>1. Remaining(w.saved, tokens) \in Seq(SavedType)
    BY WorkParts, RemainingType
  <2> HIDE DEF tokens, entry
  <2> QED BY <1>1, <2>1
<1>3. kept \in Seq(SavedType)
  <2> DEFINE m == Max({1, Len(all) - MaxSaved + 1})
  <2>1. m \in Nat /\ m >= 1 /\ Len(all) \in Int /\ Len(all) <= Len(all)
    <3>1. Len(all) \in Nat /\ MaxSaved \in Nat
      BY <1>2, SizesAssumption
    <3> HIDE DEF all
    <3> QED BY <3>1, MaxOfTwo
  <2> HIDE DEF all, m
  <2>2. SubSeq(all, m, Len(all)) \in Seq(SavedType)
    BY <1>2, <2>1, PartOf
  <2> QED BY <2>2 DEF m
<1>4. Save(w, s) = w \/ Save(w, s) = [w EXCEPT !.saved = kept]
  BY DEF Save
<1> HIDE DEF kept
<1>5. Save(w, s) \in Work /\ Save(w, s).slot = w.slot
  BY <1>3, <1>4 DEF Work
<1> QED BY <1>5 DEF SameBut

\* server_prompt_cache::load gives the slot other tokens, and touches no other slot.
LEMMA LoadIs ==
    ASSUME NEW w \in Work, NEW s \in Slots, NEW i \in DOMAIN w.saved
    PROVE  SameBut(w, Load(w, s, i), {s})
<1> DEFINE e    == w.saved[i]
           rest == IF e.cells = {} THEN w.cells ELSE SeqRm(w.cells, s, 0, -1)
           sl   == [w.slot EXCEPT ![s].tokens = e.tokens]
           c    == rest \cup {[tok |-> d.tok, pos |-> d.pos, seqs |-> {s}] : d \in e.cells}
           sv   == RemoveAt(w.saved, i)
           sp   == IF e.bad THEN w.spoiled \cup {s} ELSE w.spoiled \ {s}
           v    == [w EXCEPT !.slot = sl, !.cells = c, !.saved = sv, !.spoiled = sp]
<1>1. e \in SavedType /\ w.slot[s] \in SlotType
  BY WorkParts
<1>2. sl \in [Slots -> SlotType] /\ sp \in SUBSET Slots
  <2>1. e.tokens \in Seq(Token) /\ [w.slot[s] EXCEPT !.tokens = e.tokens] \in SlotType
    BY <1>1, SlotParts DEF SavedType
  <2> HIDE DEF e
  <2> QED BY <2>1, WorkParts
<1>3. c \in SUBSET CellType
  <2>1. rest \in SUBSET CellType
    BY WorkParts, CellsType
  <2>2. \A d \in e.cells : [tok |-> d.tok, pos |-> d.pos, seqs |-> {s}] \in CellType
    BY <1>1 DEF SavedType, DataType, CellType
  <2> HIDE DEF rest, e
  <2> QED BY <2>1, <2>2
<1>4. sv \in Seq(SavedType)
  <2>1. w.saved \in Seq(SavedType) /\ i \in 1 .. Len(w.saved)
    BY WorkParts
  <2>2. SubSeq(w.saved, 1, i - 1) \in Seq(SavedType)
    BY <2>1, StartOf
  <2>3. SubSeq(w.saved, i + 1, Len(w.saved)) \in Seq(SavedType)
    BY <2>1, PartOf
  <2> QED BY <2>2, <2>3 DEF RemoveAt
<1>5. Load(w, s, i) = Clear(w, s) \/ Load(w, s, i) = v
  BY DEF Load, Work
<1>6. ASSUME Load(w, s, i) = v
      PROVE  SameBut(w, Load(w, s, i), {s})
  <2>1. v \in Work /\ v.slot = sl
    <3> HIDE DEF sl, c, sv, sp
    <3> QED BY <1>2, <1>3, <1>4 DEF Work
  <2>2. v.slot[s] = [w.slot[s] EXCEPT !.tokens = e.tokens] /\ \A x \in Slots \ {s} : v.slot[x] = w.slot[x]
    BY <2>1, WorkParts
  <2>3. e.tokens \in Seq(Token)
    BY <1>1 DEF SavedType
  <2> HIDE DEF v, e
  <2> QED BY <1>6, <2>1, <2>2, <2>3 DEF SameBut
<1>7. CASE Load(w, s, i) = Clear(w, s)
  BY <1>7, ClearIs
<1> HIDE DEF v
<1> QED BY <1>5, <1>6, <1>7

\* The update of the prompt cache.
LEMMA UpdatedIs ==
    ASSUME NEW w \in Work, NEW s \in Slots, NEW prompt, NEW v \in Updated(w, s, prompt)
    PROVE  SameBut(w, v, {s})
<1> DEFINE kept == Save(w, s)
<1>1. kept \in Work /\ SameBut(w, kept, {})
  BY SaveIs
<1>2. v = kept \/ \E i \in Better(kept, s, prompt) : v = Load(kept, s, i)
  BY DEF Updated
<1>3. Better(kept, s, prompt) \subseteq DOMAIN kept.saved
  BY DEF Better
<1> HIDE DEF kept
<1>4. CASE v = kept
  BY <1>1, <1>4, SameButWhat
<1>5. CASE \E i \in Better(kept, s, prompt) : v = Load(kept, s, i)
  <2>1. SameBut(kept, v, {s})
    BY <1>1, <1>3, <1>5, LoadIs
  <2>2. {s} \in SUBSET Slots /\ {} \in SUBSET Slots /\ {} \cup {s} = {s}
    OBVIOUS
  <2>3. SameBut(w, v, {} \cup {s})
    BY <1>1, <2>1, <2>2, SameButMore
  <2> QED BY <2>2, <2>3
<1> QED BY <1>2, <1>4, <1>5

\* The idle slots go to the prompt cache and lose their tokens.
IdleOf(w) == {s \in Slots : w.slot[s].state = "IDLE"}

\* An idle slot is saved and cleared.
Spared(v, x) == IF v.slot[x].state = "IDLE" THEN Clear(Save(v, x), x) ELSE v

\* The idle slots, one after the other: what holds after each of them holds in the end.
LEMMA IdleClearedRule ==
    ASSUME NEW K, NEW w \in K, \A v \in K : \A x \in Slots : Spared(v, x) \in K
    PROVE  IdleCleared(w) \in K
<1> DEFINE q   == [j \in 1 .. NumSlots |-> j - 1]
           All == FoldLeft(LAMBDA v, s : IF v.slot[s].state = "IDLE" THEN Clear(Save(v, s), s) ELSE v, w, q)
<1>0. NumSlots \in Nat /\ DOMAIN q = 1 .. NumSlots /\ \A i \in 1 .. NumSlots : q[i] \in Slots
  BY SizesAssumption DEF Slots
<1>f. All = FoldLeft(LAMBDA v, x : Spared(v, x), w, q)
  BY DEF Spared
<1> HIDE DEF q
<1> DEFINE S    == 1 .. NumSlots
           F    == [p \in S \X K |-> Spared(p[2], q[p[1]])]
           ch   == [T \in (SUBSET S) \ {{}} |-> Max(T)]
           H    == {p \in (SUBSET S) \X K : TRUE}
           D(h) == [T \in SUBSET S |-> IF T = {} THEN w
                        ELSE Spared(h[T \ {Max(T)}], q[Max(T)])]
           g    == CHOOSE h : h = D(h)
<1>1. F \in [S \X K -> K] /\ \A i \in S, v \in K : F[<<i, v>>] = Spared(v, q[i])
  BY <1>0
<1>2. <<{}, w>> \in H
  OBVIOUS
<1>3. ASSUME NEW T \in SUBSET S, NEW i \in T, NEW v \in K, <<T \ {i}, v>> \in H
      PROVE  <<T, F[<<i, v>>]>> \in H
  BY <1>1, <1>3
<1>4. Chooses(ch, S) /\ IsFiniteSet(S) /\ \A T \in (SUBSET S) \ {{}} : ch[T] = Max(T)
  BY <1>0, LastChoice
<1> HIDE DEF F, ch, H, S
<1>5. /\ \E h : FoldsTo(h, ch, S, K, w, F)
      /\ \A h : GoesOn(h, ch, S, K, w, F) => h[S] \in K /\ <<S, h[S]>> \in H
  BY <1>1, <1>2, <1>3, <1>4, FoldIs
<1>6. PICK h : FoldsTo(h, ch, S, K, w, F)
  BY <1>5
<1>7. h = D(h)
  <2>1. \A T \in (SUBSET S) \ {{}} : h[T] = Spared(h[T \ {ch[T]}], q[ch[T]])
    BY <1>1, <1>4, <1>6 DEF FoldsTo, Chooses
  <2> QED BY <1>4, <1>6, <2>1 DEF FoldsTo
<1>8. g = D(g)
  BY <1>7
<1> HIDE DEF g
<1>9. GoesOn(g, ch, S, K, w, F)
  <2>1. g[{}] = w
    BY <1>8
  <2>2. ASSUME NEW T \in (SUBSET S) \ {{}}, g[T \ {ch[T]}] \in K
        PROVE  g[T] = F[<<ch[T], g[T \ {ch[T]}]>>]
    <3>1. g[T] = Spared(g[T \ {ch[T]}], q[ch[T]])
      BY <1>4, <1>8
    <3> QED BY <1>1, <1>4, <2>2, <3>1 DEF Chooses
  <2> QED BY <2>1, <2>2 DEF GoesOn
<1>10. DOMAIN q = S
  BY <1>0 DEF S
<1>11. FoldLeft(LAMBDA v, x : Spared(v, x), w, q) = g[S]
  BY <1>10 DEF FoldLeft, MapThenFoldSet, g
<1>12. All \in K
  BY <1>5, <1>9, <1>11, <1>f
<1> QED BY <1>12 DEF IdleCleared, q

\* The idle slots lose their tokens and nothing else.
LEMMA IdleClearedIs ==
    ASSUME NEW w \in Work
    PROVE  SameBut(w, IdleCleared(w), IdleOf(w))
<1> DEFINE K == {v \in Work : SameBut(w, v, IdleOf(w))}
<1>1. IdleOf(w) \in SUBSET Slots /\ SameBut(w, w, {})
  BY DEF IdleOf, SameBut
<1>2. SameBut(w, w, IdleOf(w))
  BY <1>1, SameButWhat
<1>3. ASSUME NEW v \in Work, NEW x \in Slots
      PROVE  SameBut(v, Clear(Save(v, x), x), {x})
  <2>1. Save(v, x) \in Work /\ SameBut(v, Save(v, x), {})
    BY SaveIs
  <2>2. SameBut(Save(v, x), Clear(Save(v, x), x), {x})
    BY <2>1, ClearIs
  <2>3. {} \cup {x} = {x} /\ {} \in SUBSET Slots /\ {x} \in SUBSET Slots
    OBVIOUS
  <2>4. SameBut(v, Clear(Save(v, x), x), {} \cup {x})
    BY <2>1, <2>2, <2>3, SameButMore
  <2> QED BY <2>3, <2>4
<1>4. ASSUME NEW v \in Work, NEW x \in Slots, SameBut(w, v, IdleOf(w))
      PROVE  Spared(v, x) \in Work /\ SameBut(w, Spared(v, x), IdleOf(w))
  <2>1. CASE v.slot[x].state = "IDLE"
    <3>1. x \in IdleOf(w)
      <4>1. w.slot[x] \in SlotType
        BY WorkParts
      <4>2. v.slot[x].state = w.slot[x].state
        <5>1. CASE x \in IdleOf(w)
          <6>1. PICK tokens \in Seq(Token) : v.slot[x] = [w.slot[x] EXCEPT !.tokens = tokens]
            BY <1>4, <5>1 DEF SameBut
          <6> QED BY <4>1, <6>1 DEF SlotType
        <5>2. CASE x \notin IdleOf(w)
          BY <1>4, <5>2 DEF SameBut
        <5> QED BY <5>1, <5>2
      <4> QED BY <2>1, <4>2 DEF IdleOf
    <3>2. SameBut(w, Clear(Save(v, x), x), IdleOf(w) \cup {x}) /\ IdleOf(w) \cup {x} = IdleOf(w)
      BY <1>1, <1>3, <1>4, <3>1, SameButMore
    <3>3. Clear(Save(v, x), x) \in Work
      BY <1>3 DEF SameBut
    <3> QED BY <2>1, <3>2, <3>3 DEF Spared
  <2>2. CASE v.slot[x].state # "IDLE"
    BY <1>4, <2>2 DEF Spared
  <2> QED BY <2>1, <2>2
<1>5. w \in K /\ \A v \in K : \A x \in Slots : Spared(v, x) \in K
  BY <1>2, <1>4
<1> HIDE DEF K
<1>6. IdleCleared(w) \in K
  BY <1>5, IdleClearedRule
<1> QED BY <1>6 DEF K

-----------------------------------------------------------------------------
(* The slots that do not generate.                                         *)

\* Every slot of w is as it is now, or does not generate and is coherent.
Calm(w) ==
    /\ w \in Work
    /\ \A s \in Slots : w.slot[s] = slot[s] \/ (Coherent(w.slot[s]) /\ w.slot[s].state # "GENERATING")

\* An idle slot may have any tokens.
LEMMA IdleCoherent ==
    /\ \A x \in SlotType : \A tokens \in Seq(Token) :
          Coherent(x) /\ x.state = "IDLE" =>
              /\ Coherent([x EXCEPT !.tokens = tokens]) /\ [x EXCEPT !.tokens = tokens].state = "IDLE"
    /\ \A tokens \in Seq(Token) :
          /\ Coherent([Fresh EXCEPT !.tokens = tokens])
          /\ [Fresh EXCEPT !.tokens = tokens].state = "IDLE"
<1>1. \A x \in SlotType : \A tokens \in Seq(Token) :
          Coherent(x) /\ x.state = "IDLE" =>
              /\ Coherent([x EXCEPT !.tokens = tokens]) /\ [x EXCEPT !.tokens = tokens].state = "IDLE"
  BY DEF SlotType, Coherent
<1>2. \A tokens \in Seq(Token) :
          /\ Coherent([Fresh EXCEPT !.tokens = tokens])
          /\ [Fresh EXCEPT !.tokens = tokens].state = "IDLE"
  BY DEF Fresh, Coherent
<1> QED BY <1>1, <1>2

\* Now is calm, and remains so when idle slots lose or get tokens.
LEMMA CalmNow ==
    ASSUME IInv
    PROVE  Calm(Now) /\ Now \in Work /\ Now.slot = slot /\ Now.cells = cells /\ Now.spoiled = spoiled
BY DEF IInv, Typed, Calm, Now

\* Idle slots may change their tokens.
LEMMA CalmSameBut ==
    ASSUME IInv, NEW w, Calm(w), NEW v, NEW S \in SUBSET IdleOf(w), SameBut(w, v, S)
    PROVE  Calm(v)
<1>1. w \in Work /\ v \in Work
  BY DEF Calm, SameBut
<1>2. ASSUME NEW s \in Slots
      PROVE  v.slot[s] = slot[s] \/ (Coherent(v.slot[s]) /\ v.slot[s].state # "GENERATING")
  <2>1. CASE s \notin S
    <3>1. v.slot[s] = w.slot[s]
      BY <2>1 DEF SameBut
    <3> QED BY <3>1 DEF Calm
  <2>2. CASE s \in S
    <3>1. w.slot[s] \in SlotType /\ w.slot[s].state = "IDLE"
      BY <1>1, <2>2, WorkParts DEF IdleOf
    <3>2. Coherent(w.slot[s])
      BY DEF IInv, Calm
    <3>3. PICK tokens \in Seq(Token) : v.slot[s] = [w.slot[s] EXCEPT !.tokens = tokens]
      BY <2>2 DEF SameBut
    <3>4. Coherent(v.slot[s]) /\ v.slot[s].state = "IDLE"
      BY <3>1, <3>2, <3>3, IdleCoherent
    <3> QED BY <3>4
  <2> QED BY <2>1, <2>2
<1> QED BY <1>1, <1>2 DEF Calm

\* Slots may be released.
LEMMA CalmReleased ==
    ASSUME NEW w, Calm(w), NEW S \in SUBSET Slots, NEW v, Released(w, v, S)
    PROVE  Calm(v) /\ \A s \in S : Coherent(v.slot[s]) /\ v.slot[s].state = "IDLE"
<1>1. ASSUME NEW s \in S
      PROVE  Coherent(v.slot[s]) /\ v.slot[s].state = "IDLE"
  <2>1. PICK tokens \in Seq(Token) : v.slot[s] = [Fresh EXCEPT !.tokens = tokens]
    BY DEF Released
  <2> QED BY <2>1, IdleCoherent
<1>2. ASSUME NEW s \in Slots \ S
      PROVE  v.slot[s] = slot[s] \/ (Coherent(v.slot[s]) /\ v.slot[s].state # "GENERATING")
  BY DEF Calm, Released
<1>3. v \in Work
  BY DEF Released
<1>4. \A s \in Slots : v.slot[s] = slot[s] \/ (Coherent(v.slot[s]) /\ v.slot[s].state # "GENERATING")
  BY <1>1, <1>2
<1> QED BY <1>1, <1>3, <1>4 DEF Calm

\* A slot may be released.
LEMMA CalmRelease ==
    ASSUME NEW w, Calm(w), NEW s \in Slots
    PROVE  Calm(Release(w, s)) /\ Coherent(Release(w, s).slot[s]) /\ Release(w, s).slot[s].state = "IDLE"
<1>1. Released(w, Release(w, s), {s})
  BY ReleaseIs DEF Calm, Released
<1> QED BY <1>1, CalmReleased

\* A task that is launched, or a child that waits.
LEMMA CalmStarted ==
    ASSUME NEW w, Calm(w), NEW s \in Slots, NEW t \in Tasks, NEW family \in {"single", "parent", "child"},
           NEW state \in {"STARTED", "WAIT_OTHER"}
    PROVE  Calm(Started(w, s, t, family, state))
<1> DEFINE task == [t EXCEPT !.family = family]
           x    == [Fresh EXCEPT !.state = state, !.tokens = w.slot[s].tokens, !.task = task]
           v    == Started(w, s, t, family, state)
<1>1. task \in TaskType
  BY TasksAssumption DEF TaskType
<1>2. w \in Work /\ w.slot[s] \in SlotType /\ w.slot[s].tokens \in Seq(Token)
  BY WorkParts, SlotParts DEF Calm
<1>3. x \in SlotType
  <2>1. Fresh \in SlotType
    BY DEF Fresh, SlotType, NoTask, TaskType, States
  <2>2. state \in States
    BY DEF States
  <2> HIDE DEF task
  <2> QED BY <1>1, <1>2, <2>1, <2>2 DEF SlotType
<1>4. Coherent(x) /\ x.state # "GENERATING"
  BY DEF Coherent, Fresh
<1>5. v = [w EXCEPT !.slot[s] = x]
  BY DEF Started
<1> HIDE DEF x, v
<1>6. v \in Work /\ v.slot[s] = x /\ \A y \in Slots \ {s} : v.slot[y] = w.slot[y]
  BY <1>2, <1>3, <1>5 DEF Work
<1> QED BY <1>4, <1>6 DEF Calm, v

-----------------------------------------------------------------------------
(* Between two batches.                                                    *)

\* A calm state that the loop is at the same place of.
LEMMA StillStep ==
    ASSUME IInv, NEW w, Calm(w), Becomes(w), UNCHANGED <<pc, turn, batch, off, view>>, n_batch' \in Nat
    PROVE  IInv'
<1>1. Now' = w /\ slot' = w.slot /\ w \in Work
  BY DEF Calm, Becomes, Now, Work
<1>2. Typed'
  BY <1>1 DEF IInv, Typed
<1>3. (\A s \in Slots : Coherent(slot[s]))'
  BY <1>1 DEF IInv, Calm, Coherent
<1>4. Flow'
  <2>1. ASSUME NEW s \in Slots, slot'[s].state = "GENERATING"
        PROVE  slot'[s] = slot[s]
    BY <1>1, <2>1 DEF Calm
  <2>2. ASSUME NEW s \in Slots, slot'[s] = slot[s]
        PROVE  (Rested(slot[s]) => Rested(slot[s])') /\ (Pending(slot[s]) => Pending(slot[s])')
    BY <2>2 DEF Rested, Pending, PendingAt
  <2>3. ASSUME NEW s \in Slots, slot'[s].state = "GENERATING"
        PROVE  /\ pc' = "tasks" => Rested(slot[s])'
               /\ pc' = "gen" => IF s < turn' THEN Pending(slot[s])' ELSE Rested(slot[s])'
               /\ pc' = "prompt" => Pending(slot[s])'
               /\ pc' = "decode" => Rested(slot[s])' \/ Pending(slot[s])'
               /\ pc' = "post" => \/ Rested(slot[s])'
                                  \/ Pending(slot[s])' /\ (s < turn' => slot'[s].draft = <<>> /\ off' + view' < slot'[s].i_batch)
    <3>1. slot'[s] = slot[s] /\ slot[s].state = "GENERATING"
      BY <2>1, <2>3
    <3>2. (Rested(slot[s]) => Rested(slot[s])') /\ (Pending(slot[s]) => Pending(slot[s])')
      BY <2>2, <3>1
    <3> QED BY <3>1, <3>2 DEF IInv, Flow
  <2>4. pc' \in {"gen", "prompt"} => off' = 0
    BY DEF IInv, Flow
  <2> QED BY <2>3, <2>4 DEF Flow
<1> QED BY <1>2, <1>3, <1>4 DEF IInv

\* Between two batches.
LEMMA TasksStep ==
    ASSUME IInv, NEW w, Calm(w), Becomes(w), Stay
    PROVE  IInv'
BY StillStep DEF Stay, IInv, Typed

\* What get_available_slot does to the prompt cache.
LEMMA CalmUpdated ==
    ASSUME IInv, NEW s \in Idle, NEW prompt, NEW w \in Updated(Now, s, prompt)
    PROVE  Calm(w)
<1>1. Calm(Now) /\ Now \in Work /\ s \in Slots /\ {s} \in SUBSET IdleOf(Now)
  BY CalmNow DEF Idle, IdleOf, Processing
<1>2. SameBut(Now, w, {s})
  BY <1>1, UpdatedIs
<1> QED BY <1>1, <1>2, CalmSameBut

\* A task is launched.
LEMMA LaunchStep ==
    ASSUME IInv, NEW s \in Slots, NEW t \in Tasks, Launch(t, s)
    PROVE  IInv'
<1>1. s \in Idle /\ pc = "tasks" /\ Stay /\ (t.family = "parent" => Idle \ {s} # {})
  BY DEF Launch
<1> DEFINE alone(w)  == Started(w, s, t, t.family, "STARTED")
           family(w) == Started(alone(w), Min(Idle \ {s}), t, "child", "WAIT_OTHER")
           all(w)    == IF t.family = "parent" THEN family(w) ELSE alone(w)
<1>2. PICK w \in {Now} \cup (IF MaxSaved > 0 THEN Updated(Now, s, t.prompt) ELSE {}) : Becomes(IdleCleared(all(w)))
  BY DEF Launch
<1>3. Calm(w)
  BY <1>1, <1>2, CalmNow, CalmUpdated
<1>4. Calm(alone(w))
  <2>1. t.family \in {"single", "parent", "child"}
    BY TasksAssumption
  <2> QED BY <1>3, <2>1, CalmStarted
<1>5. ASSUME t.family = "parent"
      PROVE  Calm(family(w))
  <2>1. Min(Idle \ {s}) \in Slots
    <3>1. Idle \ {s} \in SUBSET Nat /\ Idle \ {s} # {}
      BY <1>1, <1>5 DEF Idle, Slots
    <3>2. Min(Idle \ {s}) \in Idle \ {s}
      BY <3>1, MinIs
    <3> QED BY <3>2 DEF Idle
  <2> HIDE DEF alone
  <2> QED BY <1>4, <2>1, CalmStarted
<1> HIDE DEF alone, family
<1>6. Calm(all(w))
  BY <1>4, <1>5
<1> HIDE DEF all
<1>7. Calm(IdleCleared(all(w)))
  <2>1. SameBut(all(w), IdleCleared(all(w)), IdleOf(all(w)))
    BY <1>6, IdleClearedIs DEF Calm
  <2> QED BY <1>6, <2>1, CalmSameBut
<1> QED BY <1>1, <1>2, <1>7, TasksStep

\* A task is refused or deferred.
LEMMA DeclineStep ==
    ASSUME IInv, NEW s \in Slots, NEW t \in Tasks, Decline(t, s)
    PROVE  IInv'
<1>1. PICK w \in Updated(Now, s, t.prompt) : Becomes(w)
  BY DEF Decline
<1>2. s \in Idle /\ pc = "tasks" /\ Stay
  BY DEF Decline
<1>3. Calm(w)
  BY <1>1, <1>2, CalmUpdated
<1> QED BY <1>1, <1>2, <1>3, TasksStep

\* A task is cancelled.
LEMMA CancelStep ==
    ASSUME IInv, NEW s \in Slots, Cancel(s)
    PROVE  IInv'
<1>1. Calm(Release(Now, s))
  BY CalmNow, CalmRelease
<1> QED BY <1>1, TasksStep DEF Cancel

\* An idle slot may be cleared.
LEMMA CalmClear ==
    ASSUME IInv, NEW s \in Slots, ~Processing(s)
    PROVE  Calm(Clear(Now, s))
<1>1. Calm(Now) /\ Now \in Work /\ {s} \in SUBSET IdleOf(Now)
  BY CalmNow DEF IdleOf, Processing
<1>2. SameBut(Now, Clear(Now, s), {s})
  BY <1>1, ClearIs
<1> QED BY <1>1, <1>2, CalmSameBut

\* An idle slot is erased.
LEMMA EraseStep ==
    ASSUME IInv, NEW s \in Slots, Erase(s)
    PROVE  IInv'
BY CalmClear, TasksStep DEF Erase

\* update_slots starts: every slot that generates is rested.
LEMMA UpdateStep ==
    ASSUME IInv, Update
    PROVE  IInv'
<1>1. Now' = Now /\ 0 \in Slots /\ NBatch \in Nat
  BY SizesAssumption DEF Update, Now, Slots
<1>2. Typed'
  BY <1>1 DEF IInv, Typed, Update
<1>3. (\A s \in Slots : Coherent(slot[s]))'
  BY DEF IInv, Coherent, Update
<1>4. Flow'
  <2>1. pc' = "gen" /\ turn' = 0 /\ off' = 0 /\ slot' = slot /\ \A s \in Slots : ~ (s < 0)
    BY DEF Update, Slots
  <2>2. \A s \in Slots : slot'[s].state = "GENERATING" => Rested(slot'[s])
    BY <2>1 DEF IInv, Flow, Update
  <2> QED BY <2>1, <2>2 DEF Flow, Rested
<1> QED BY <1>2, <1>3, <1>4 DEF IInv

-----------------------------------------------------------------------------
(* pre_decode.                                                             *)

\* The batch may grow.
LEMMA PendingMore ==
    ASSUME NEW x, x.i_batch \in Nat, NEW m \in Nat, NEW n \in Nat, m <= n
    PROVE  PendingAt(x, 0, m) => PendingAt(x, 0, n)
<1>1. x.i_batch <= m => x.i_batch <= n
  OBVIOUS
<1> QED BY <1>1, Zenon DEF PendingAt

\* iterate() goes on from the slot at its turn, which generates only if its tokens are in
\* the batch.
LEMMA TurnStep ==
    ASSUME IInv, pc \in {"gen", "prompt"}, NEW w \in Work, Becomes(w), AfterPrompts(batch'),
           UNCHANGED <<off, view, n_batch>>, batch' \in Seq(TokType), Len(batch) <= Len(batch'),
           \A s \in Slots \ {turn} : w.slot[s] = slot[s],
           Coherent(w.slot[turn]),
           w.slot[turn].state = "GENERATING" => PendingAt(w.slot[turn], 0, Len(batch'))
    PROVE  IInv'
<1>0. turn \in Slots /\ off = 0 /\ slot' = w.slot /\ batch \in Seq(TokType)
  BY DEF IInv, Typed, Flow, Becomes
<1>1. Now' = w
  BY DEF Becomes, Now, Work
<1>2. /\ turn' \in Slots /\ turn' \in Nat /\ pc' \in {"tasks", "gen", "prompt", "decode"} /\ off' = 0
      /\ pc' = "gen" => pc = "gen" /\ turn' = turn + 1
      /\ pc' = "prompt" => pc = "prompt" \/ turn = NumSlots - 1
      /\ pc' = "tasks" => batch' = <<>>
      /\ pc' \in {"tasks", "decode"} => pc = "prompt"
  BY <1>0, SizesAssumption, SMTT(30) DEF AfterPrompts, Advance, Slots
<1>3. Typed'
  BY <1>1, <1>2 DEF IInv, Typed
<1>4. (\A s \in Slots : Coherent(slot[s]))'
  BY <1>0 DEF IInv, Coherent
<1>5. ASSUME NEW s \in Slots, slot'[s].state = "GENERATING"
      PROVE  /\ pc = "prompt" => PendingAt(slot'[s], 0, Len(batch'))
             /\ pc = "gen" => IF s <= turn THEN PendingAt(slot'[s], 0, Len(batch')) ELSE Rested(slot[s]) /\ slot'[s] = slot[s]
  <2>1. CASE s = turn
    BY <1>0, <1>5, <2>1 DEF Slots
  <2>2. CASE s # turn
    <3>1. slot'[s] = slot[s] /\ slot[s].state = "GENERATING"
      BY <1>0, <1>5, <2>2
    <3>2. /\ pc = "prompt" => PendingAt(slot[s], 0, Len(batch))
          /\ pc = "gen" => IF s < turn THEN PendingAt(slot[s], 0, Len(batch)) ELSE Rested(slot[s])
      BY <1>0, <3>1 DEF IInv, Flow, Pending
    <3>3. slot[s].i_batch \in Nat /\ Len(batch) \in Nat /\ Len(batch') \in Nat
      <4>1. slot[s] \in SlotType
        BY CalmNow, WorkParts
      <4> QED BY <1>0, <4>1, SlotParts
    <3>4. PendingAt(slot[s], 0, Len(batch)) => PendingAt(slot[s], 0, Len(batch'))
      BY <3>3, PendingMore
    <3> QED BY <1>0, <2>2, <3>1, <3>2, <3>4 DEF Slots
  <2> QED BY <2>1, <2>2
<1>6. ASSUME NEW s \in Slots, slot'[s].state = "GENERATING"
      PROVE  /\ pc' = "tasks" => Rested(slot[s])'
             /\ pc' = "gen" => IF s < turn' THEN PendingAt(slot'[s], 0, Len(batch')) ELSE Rested(slot[s])'
             /\ pc' \in {"prompt", "decode"} => PendingAt(slot'[s], 0, Len(batch'))
  <2>0. s \in Nat /\ turn \in Nat /\ s <= NumSlots - 1 /\ NumSlots \in Nat
    BY <1>0, SizesAssumption DEF Slots
  <2>1. pc' = "tasks" => Rested(slot[s])'
    <3>1. SUFFICES ASSUME pc' = "tasks"
                   PROVE  FALSE
      OBVIOUS
    <3>2. PendingAt(slot'[s], 0, Len(batch')) /\ Len(batch') = 0
      BY <1>2, <1>5, <1>6, <3>1
    <3>3. slot'[s].i_batch \in Nat
      <4>1. slot'[s] \in SlotType
        BY <1>0, WorkParts
      <4> QED BY <4>1, SlotParts
    <3> QED BY <3>2, <3>3 DEF PendingAt
  <2>2. pc' = "gen" => IF s < turn' THEN PendingAt(slot'[s], 0, Len(batch')) ELSE Rested(slot[s])'
    <3>1. SUFFICES ASSUME pc' = "gen"
                   PROVE  IF s < turn' THEN PendingAt(slot'[s], 0, Len(batch')) ELSE Rested(slot[s])'
      OBVIOUS
    <3>2. CASE s < turn'
      BY <1>2, <1>5, <1>6, <2>0, <3>1, <3>2
    <3>3. CASE ~ (s < turn')
      <4>1. Rested(slot[s]) /\ slot'[s] = slot[s]
        BY <1>2, <1>5, <1>6, <2>0, <3>1, <3>3
      <4> QED BY <3>3, <4>1 DEF Rested
    <3> QED BY <3>2, <3>3
  <2>3. pc' \in {"prompt", "decode"} => PendingAt(slot'[s], 0, Len(batch'))
    BY <1>2, <1>5, <1>6, <2>0
  <2> QED BY <2>1, <2>2, <2>3
<1>7. Flow'
  <2>1. \A s \in Slots : slot'[s].state = "GENERATING" =>
          /\ pc' = "tasks" => Rested(slot[s])'
          /\ pc' = "gen" => IF s < turn' THEN PendingAt(slot'[s], off', Len(batch')) ELSE Rested(slot[s])'
          /\ pc' \in {"prompt", "decode"} => PendingAt(slot'[s], off', Len(batch'))
    BY <1>2, <1>6
  <2> QED BY <1>2, <2>1 DEF Flow, Pending
<1> QED BY <1>3, <1>4, <1>7 DEF IInv

\* The slot at its turn has nothing for the batch.
LEMMA SkipStep ==
    ASSUME IInv, Skip
    PROVE  IInv'
<1>1. /\ pc \in {"gen", "prompt"} /\ AfterPrompts(batch') /\ batch' = batch /\ Becomes(Now)
      /\ UNCHANGED <<off, view, n_batch>>
      /\ pc = "gen" => slot[turn].state # "GENERATING"
  BY DEF Skip, Becomes, Now
<1>2. /\ Now \in Work /\ Now.slot = slot /\ turn \in Slots /\ off = 0 /\ batch \in Seq(TokType)
      /\ Coherent(slot[turn])
  BY <1>1, CalmNow DEF IInv, Typed, Flow
<1>3. slot[turn].state = "GENERATING" => PendingAt(slot[turn], 0, Len(batch))
  BY <1>1, <1>2 DEF IInv, Flow, Pending
<1>4. Len(batch) <= Len(batch')
  BY <1>1, <1>2
<1> QED BY <1>1, <1>2, <1>3, <1>4, TurnStep

\* A slot that is released at its turn.
LEMMA ReleasedTurn ==
    ASSUME IInv, pc \in {"gen", "prompt"}, Becomes(Release(Now, turn)), AfterPrompts(batch),
           UNCHANGED <<batch, off, view, n_batch>>
    PROVE  IInv'
<1>1. turn \in Slots /\ batch \in Seq(TokType) /\ Now.slot = slot /\ Calm(Now) /\ Now \in Work
  BY CalmNow DEF IInv, Typed
<1>2. /\ Coherent(Release(Now, turn).slot[turn]) /\ Release(Now, turn).slot[turn].state = "IDLE"
      /\ Release(Now, turn) \in Work
      /\ \A s \in Slots \ {turn} : Release(Now, turn).slot[s] = slot[s]
  BY <1>1, CalmRelease, ReleaseIs
<1>3. Len(batch) <= Len(batch') /\ AfterPrompts(batch') /\ batch' \in Seq(TokType)
  BY <1>1
<1> QED BY <1>1, <1>2, <1>3, TurnStep

\* The context is full, and may not be shifted.
LEMMA ShiftRefusedStep ==
    ASSUME IInv, NEW s \in Slots, ShiftRefused(s)
    PROVE  IInv'
BY ReleasedTurn DEF ShiftRefused

\* The prompt does not fit.
LEMMA PromptRefusedStep ==
    ASSUME IInv, NEW s \in Slots, PromptRefused(s)
    PROVE  IInv'
BY ReleasedTurn DEF PromptRefused, Wanted

\* The process stops.
LEMMA AbortStep ==
    ASSUME IInv, NEW s \in Slots, Abort(s)
    PROVE  IInv'
<1>1. Now' = Now /\ pc' = "aborted" /\ slot' = slot
  BY DEF Abort, Now
<1>2. Typed'
  BY <1>1 DEF IInv, Typed, Abort
<1>3. (\A x \in Slots : Coherent(slot[x]))'
  BY <1>1 DEF IInv, Coherent
<1>4. Flow'
  BY <1>1 DEF Flow
<1> QED BY <1>2, <1>3, <1>4 DEF IInv

\* A sequence is its front and its last element.
LEMMA FrontLast ==
    ASSUME NEW T, NEW q \in Seq(T), q # <<>>
    PROVE  Front(q) \in Seq(T) /\ Last(q) \in T /\ q = Front(q) \o <<Last(q)>>
<1>1. Len(q) \in Nat /\ Len(q) >= 1 /\ Last(q) \in T
  BY DEF Last
<1>2. Front(q) \in Seq(T) /\ Len(Front(q)) = Len(q) - 1 /\ \A i \in 1 .. Len(q) - 1 : Front(q)[i] = q[i]
  <2> DEFINE n == Len(q) - 1
  <2>1. n \in Nat /\ n <= Len(q)
    BY <1>1
  <2> HIDE DEF n
  <2>2. SubSeq(q, 1, n) \in Seq(T) /\ Len(SubSeq(q, 1, n)) = n /\ \A i \in 1 .. n : SubSeq(q, 1, n)[i] = q[i]
    BY <2>1, StartOf
  <2> QED BY <2>2 DEF Front, n
<1> DEFINE r == Front(q) \o <<Last(q)>>
<1>3. r \in Seq(T) /\ Len(r) = Len(q) /\ \A i \in 1 .. Len(q) : r[i] = q[i]
  <2>1. <<Last(q)>> \in Seq(T) /\ Len(<<Last(q)>>) = 1 /\ <<Last(q)>>[1] = q[Len(q)]
    BY <1>1 DEF Last
  <2> QED BY <1>1, <1>2, <2>1, ConcatProperties
<1> HIDE DEF r
<1>4. q = r
  BY <1>3, SeqEqual
<1> QED BY <1>1, <1>2, <1>4 DEF r

\* The context shift.
LEMMA ShiftedIs ==
    ASSUME NEW w \in Work, NEW s \in Slots, Len(w.slot[s].tokens) + 1 >= NCtx
    PROVE  /\ Shifted(w, s) \in Work
           /\ \A y \in Slots \ {s} : Shifted(w, s).slot[y] = w.slot[y]
           /\ \E tokens \in Seq(Token) :
                 Shifted(w, s).slot[s] = [w.slot[s] EXCEPT !.tokens = tokens, !.truncated = TRUE]
<1> DEFINE tokens == w.slot[s].tokens
           keep   == Min({NCtx - Margin, NKeep})
           drop   == Max({0, Min({(Len(tokens) - keep) \div 2, Len(tokens) - keep - 1})})
           left   == SubSeq(tokens, 1, keep) \o SubSeq(tokens, keep + drop + 1, Len(tokens))
           x      == [w.slot[s] EXCEPT !.tokens = left, !.truncated = TRUE]
           c      == SeqAdd(SeqRm(w.cells, s, keep, keep + drop), s, keep + drop, Len(tokens), -drop)
           sp     == w.spoiled \cup Sharers(w.cells, s, keep + drop, Len(tokens))
<1>1. w.slot[s] \in SlotType /\ tokens \in Seq(Token) /\ Len(tokens) \in Nat
  BY WorkParts, SlotParts
<1>2. keep \in Nat /\ keep <= Len(tokens)
  <2>1. NCtx - Margin \in Nat /\ NKeep \in Nat /\ NCtx - Margin <= NCtx - 1 /\ NCtx \in Nat
    BY SizesAssumption
  <2>2. keep = IF NCtx - Margin <= NKeep THEN NCtx - Margin ELSE NKeep
    BY <2>1, MinOfTwo
  <2> HIDE DEF keep
  <2> QED BY <1>1, <2>1, <2>2
<1>3. drop \in Nat
  <2> DEFINE m == Min({(Len(tokens) - keep) \div 2, Len(tokens) - keep - 1})
  <2>1. (Len(tokens) - keep) \div 2 \in Int /\ Len(tokens) - keep - 1 \in Int
    <3> HIDE DEF keep, tokens
    <3> QED BY <1>1, <1>2
  <2>2. m \in Int
    <3> HIDE DEF keep, tokens
    <3> QED BY <2>1, MinOfTwo
  <2>3. drop = Max({0, m})
    OBVIOUS
  <2> HIDE DEF m, drop
  <2>4. drop = IF 0 >= m THEN 0 ELSE m
    BY <2>2, <2>3, MaxOfTwo
  <2> QED BY <2>2, <2>4
<1>4. left \in Seq(Token)
  <2> HIDE DEF tokens, keep, drop
  <2>1. SubSeq(tokens, 1, keep) \in Seq(Token)
    BY <1>1, <1>2, StartOf
  <2>2. SubSeq(tokens, keep + drop + 1, Len(tokens)) \in Seq(Token)
    BY <1>1, <1>2, <1>3, PartOf
  <2> QED BY <2>1, <2>2
<1>5. x \in SlotType
  <2> HIDE DEF left
  <2> QED BY <1>1, <1>4 DEF SlotType
<1>6. c \in SUBSET CellType /\ sp \in SUBSET Slots
  <2>1. -drop \in Int /\ w.cells \in SUBSET CellType /\ w.spoiled \in SUBSET Slots
    BY <1>3, WorkParts
  <2> HIDE DEF keep, drop, tokens
  <2>2. SeqRm(w.cells, s, keep, keep + drop) \in SUBSET CellType /\ Sharers(w.cells, s, keep + drop, Len(tokens)) \in SUBSET Slots
    BY <2>1, CellsType
  <2> QED BY <2>1, <2>2, CellsType
<1>7. Shifted(w, s) = [w EXCEPT !.slot[s] = x, !.cells = c, !.spoiled = sp]
  <2>1. Shifted(w, s) = [w EXCEPT !.slot[s].tokens = left, !.slot[s].truncated = TRUE, !.cells = c, !.spoiled = sp]
    BY DEF Shifted
  <2> HIDE DEF left, c, sp
  <2> QED BY <1>1, <2>1 DEF Work, SlotType
<1> HIDE DEF x, c, sp, left
<1>8. Shifted(w, s) \in Work /\ Shifted(w, s).slot[s] = x /\ \A y \in Slots \ {s} : Shifted(w, s).slot[y] = w.slot[y]
  BY <1>5, <1>6, <1>7, ZenonT(40) DEF Work
<1> QED BY <1>4, <1>8 DEF x

\* The tokens that go to the batch.
LEMMA BatchGrows ==
    ASSUME NEW old \in Seq(TokType), NEW k \in Nat, NEW f, f \in [1 .. k -> TokType]
    PROVE  (old \o f) \in Seq(TokType) /\ Len(old \o f) = Len(old) + k /\ Len(old) \in Nat
<1>1. f \in Seq(TokType) /\ Len(f) = k
  OBVIOUS
<1>2. old \o f \in Seq(TokType) /\ Len(old \o f) = Len(old) + Len(f) /\ Len(old) \in Nat
  BY <1>1
<1> QED BY <1>1, <1>2

\* handle_last_sampled_token.
LEMMA GenerateStep ==
    ASSUME IInv, NEW s \in Slots, Generate(s)
    PROVE  IInv'
<1> DEFINE x == slot[s]
           w == IF Full(s) THEN Shifted(Now, s) ELSE Now
           n == Len(w.slot[s].tokens)
<1>1. /\ pc = "gen" /\ turn = s /\ x.state = "GENERATING" /\ x \in SlotType /\ Rested(x)
      /\ Now \in Work /\ Now.slot = slot /\ batch \in Seq(TokType) /\ UNCHANGED <<off, view, n_batch>>
      /\ AfterPrompts(batch')
  <2>1. pc = "gen" /\ turn = s /\ x.state = "GENERATING" /\ AfterPrompts(batch') /\ UNCHANGED <<off, view, n_batch>>
    BY DEF Generate
  <2>2. Now \in Work /\ Now.slot = slot
    BY CalmNow
  <2>3. x \in SlotType
    BY <2>2, WorkParts
  <2>4. ~ (s < s)
    BY DEF Slots
  <2> QED BY <2>1, <2>2, <2>3, <2>4 DEF IInv, Typed, Flow
<1>2. PICK draft \in Drafts(Min({NCtx - n - 2, MaxOut - Len(slot[s].out) - 1})) :
        LET new == <<Last(slot[s].out)>> \o draft
        IN  /\ batch' = batch \o [j \in DOMAIN new |-> [slot |-> s, tok |-> new[j], pos |-> n + j - 1]]
            /\ Becomes([w EXCEPT !.slot[s].tokens = @ \o new, !.slot[s].draft = draft,
                                 !.slot[s].i_batch = Len(batch) + 1])
  BY DEF Generate
<1> DEFINE new == <<Last(x.out)>> \o draft
           more == [j \in DOMAIN new |-> [slot |-> s, tok |-> new[j], pos |-> n + j - 1]]
           i == Len(batch) + 1
           v == [w EXCEPT !.slot[s].tokens = @ \o new, !.slot[s].draft = draft, !.slot[s].i_batch = i]
           z == [w.slot[s] EXCEPT !.tokens = w.slot[s].tokens \o new, !.draft = draft, !.i_batch = i]
<1>3. batch' = batch \o more /\ Becomes(v)
  BY <1>2
<1>4. /\ w \in Work
      /\ \A y \in Slots \ {s} : w.slot[y] = slot[y]
      /\ \E tokens \in Seq(Token) : \/ w.slot[s] = [x EXCEPT !.tokens = tokens, !.truncated = TRUE]
                                    \/ w.slot[s] = x
  <2>1. CASE Full(s)
    <3>1. Len(Now.slot[s].tokens) + 1 >= NCtx
      BY <1>1, <2>1 DEF Full
    <3>2. /\ Shifted(Now, s) \in Work
          /\ \A y \in Slots \ {s} : Shifted(Now, s).slot[y] = Now.slot[y]
          /\ \E tokens \in Seq(Token) : Shifted(Now, s).slot[s] = [Now.slot[s] EXCEPT !.tokens = tokens, !.truncated = TRUE]
      BY <1>1, <3>1, ShiftedIs
    <3>3. w = Shifted(Now, s)
      BY <2>1
    <3> HIDE DEF w
    <3> QED BY <1>1, <3>2, <3>3
  <2>2. CASE ~Full(s)
    <3>1. x.tokens \in Seq(Token)
      BY <1>1, SlotParts
    <3> QED BY <1>1, <2>2, <3>1
  <2> QED BY <2>1, <2>2
<1>5. draft \in Seq(Sampled)
  <2>1. \A k \in Nat : [1 .. k -> Sampled] \subseteq Seq(Sampled)
    OBVIOUS
  <2>2. \A m : Drafts(m) \subseteq UNION {[1 .. k -> Sampled] : k \in Nat}
    BY DEF Drafts
  <2>3. PICK m : draft \in Drafts(m)
    BY <1>2
  <2> QED BY <2>1, <2>2, <2>3
<1>6. /\ x.out \in Seq(Sampled) /\ x.out # <<>> /\ Front(x.out) \in Seq(Sampled) /\ Last(x.out) \in Sampled
      /\ x.out = Front(x.out) \o <<Last(x.out)>> /\ Sampled \subseteq Token
      /\ x.task.prompt \in Seq(Token)
  <2>1. x.out \in Seq(Sampled) /\ x.out # <<>> /\ x.task \in TaskType
    BY <1>1, SlotParts DEF Rested
  <2>2. Sampled \subseteq Token /\ x.task.prompt \in Seq(Token)
    BY <2>1 DEF Token, TaskType
  <2> QED BY <2>1, <2>2, FrontLast
<1>7. new \in Seq(Sampled) /\ Len(new) \in Nat /\ Len(new) = Len(draft) + 1 /\ Len(draft) \in Nat
      /\ new \in Seq(Token)
  BY <1>5, <1>6
<1>8. w.slot[s] \in SlotType /\ w.slot[s].tokens \in Seq(Token) /\ n \in Nat
  <2>1. w.slot[s] \in SlotType /\ w.slot[s].tokens \in Seq(Token)
    BY <1>4, WorkParts, SlotParts
  <2> QED BY <2>1, SMTT(30)
<1> HIDE DEF w
<1>9. batch' \in Seq(TokType) /\ Len(batch') = Len(batch) + Len(new) /\ Len(batch) \in Nat
  <2>1. more \in [1 .. Len(new) -> TokType]
    <3>1. DOMAIN new = 1 .. Len(new) /\ \A j \in 1 .. Len(new) : new[j] \in Token
      BY <1>7
    <3>2. \A j \in 1 .. Len(new) : n + j - 1 \in Nat
      BY <1>8
    <3> HIDE DEF n, new
    <3> QED BY <3>1, <3>2 DEF TokType
  <2> HIDE DEF more, new
  <2> QED BY <1>1, <1>3, <1>7, <2>1, BatchGrows
<1>10. z \in SlotType
  <2>1. i \in Nat /\ w.slot[s].tokens \o new \in Seq(Token)
    BY <1>7, <1>8, <1>9
  <2> HIDE DEF i, new
  <2> QED BY <1>5, <1>8, <2>1 DEF SlotType
<1>11. v = [w EXCEPT !.slot[s] = z]
  <2> HIDE DEF i, new
  <2> QED BY <1>4, <1>8 DEF Work, SlotType
<1>12. v \in Work /\ v.slot[s] = z /\ \A y \in Slots \ {s} : v.slot[y] = slot[y]
  <2> HIDE DEF v, z
  <2> QED BY <1>4, <1>10, <1>11 DEF Work
<1>13. z.out = x.out /\ z.draft = draft /\ z.i_batch = i /\ z.state = "GENERATING" /\ z.task = x.task
       /\ (z.truncated \/ (w.slot[s] = x /\ z.truncated = x.truncated /\ z.tokens = x.tokens \o new))
  <2> HIDE DEF i, new
  <2> QED BY <1>1, <1>4 DEF SlotType
<1>14. w.slot[s] = x /\ ~x.truncated => z.tokens = (x.task.prompt \o x.out) \o draft
  <2>1. SUFFICES ASSUME w.slot[s] = x, ~x.truncated
                 PROVE  z.tokens = (x.task.prompt \o x.out) \o draft
    OBVIOUS
  <2>2. x.tokens = x.task.prompt \o Front(x.out)
    BY <1>1, <2>1 DEF Rested
  <2>3. z.tokens = (x.task.prompt \o Front(x.out)) \o (<<Last(x.out)>> \o draft)
    <3> HIDE DEF i
    <3> QED BY <1>1, <2>1, <2>2 DEF SlotType
  <2> DEFINE p == x.task.prompt
             f == Front(x.out)
             l == <<Last(x.out)>>
  <2>4. p \in Seq(Token) /\ f \in Seq(Token) /\ l \in Seq(Token) /\ draft \in Seq(Token)
    BY <1>5, <1>6
  <2>5. (p \o f) \o (l \o draft) = (p \o (f \o l)) \o draft
    <3> HIDE DEF p, f, l
    <3> QED BY <2>4
  <2> QED BY <1>6, <2>3, <2>5
<1>15. PendingAt(z, 0, Len(batch'))
  <2>1. z.out # <<>> /\ 0 < z.i_batch /\ z.i_batch <= Len(batch')
    <3> HIDE DEF z, new
    <3> QED BY <1>6, <1>7, <1>9, <1>13
  <2>2. ~z.truncated => z.tokens = (z.task.prompt \o z.out) \o z.draft
    <3> HIDE DEF z, new, i
    <3> QED BY <1>13, <1>14
  <2> QED BY <2>1, <2>2 DEF PendingAt
<1>16. Coherent(z)
  <2> HIDE DEF z
  <2> QED BY <1>13 DEF Coherent
<1> HIDE DEF v, z, new, more
<1> QED BY <1>1, <1>3, <1>7, <1>9, <1>12, <1>15, <1>16, TurnStep, SMTT(30)

\* What two sequences have in common, token by token.
LEMMA CommonTokens ==
    ASSUME NEW T, NEW a \in Seq(T), NEW b \in Seq(T)
    PROVE  /\ Common(a, b) \in Nat /\ Common(a, b) <= Len(a) /\ Common(a, b) <= Len(b)
           /\ \A j \in 1 .. Common(a, b) : a[j] = b[j]
<1> DEFINE n == Common(a, b)
<1>1. n \in Nat /\ n <= Len(a) /\ n <= Len(b) /\ SubSeq(a, 1, n) = SubSeq(b, 1, n)
  BY CommonIs
<1> HIDE DEF n
<1>2. \A i \in 1 .. n : SubSeq(a, 1, n)[i] = a[i]
  BY <1>1, StartOf
<1>3. \A i \in 1 .. n : SubSeq(b, 1, n)[i] = b[i]
  BY <1>1, StartOf
<1>4. \A i \in 1 .. n : a[i] = b[i]
  BY <1>1, <1>2, <1>3
<1> QED BY <1>1, <1>4 DEF n

\* What was found so far that the slot s of w can use: only the tokens of s were changed,
\* not their number, and the first "past" of them are those of the prompt.
Found(w, s, acc) ==
    /\ acc.past \in Nat /\ acc.past <= Len(w.slot[s].task.prompt) /\ acc.past <= Len(acc.w.slot[s].tokens)
    /\ SameBut(w, acc.w, {s}) /\ acc.w.slot[s].tokens \in Seq(Token)
    /\ \A j \in 1 .. acc.past : acc.w.slot[s].tokens[j] = w.slot[s].task.prompt[j]

\* What may have been reused when a chunk is looked at.
Chunks(w, s) ==
    {acc \in [w : Work, past : Nat, next : Nat] :
        /\ Found(w, s, acc) /\ acc.past <= acc.next
        /\ Len(acc.w.slot[s].tokens) = Len(w.slot[s].tokens)}

\* How much of the prompt after its first "past" tokens is at c, and the tokens with that
\* where the prompt has it.
Chunk(tokens, prompt, past, c) ==
    Common(SubSeq(tokens, c + 1, Len(tokens)), SubSeq(prompt, past + 1, Len(prompt)))

\* The tokens when that is where the prompt has it.
InPlace(tokens, prompt, past, c) ==
    [j \in DOMAIN tokens |->
        IF j \in past + 1 .. past + Chunk(tokens, prompt, past, c) THEN tokens[c + j - past] ELSE tokens[j]]

\* A chunk that is moved continues the prompt.
LEMMA ChunkTokens ==
    ASSUME NEW tokens \in Seq(Token), NEW prompt \in Seq(Token), NEW past \in Nat, NEW c \in Nat,
           past <= c, c <= Len(tokens), past <= Len(prompt), \A j \in 1 .. past : tokens[j] = prompt[j]
    PROVE  /\ Chunk(tokens, prompt, past, c) \in Nat
           /\ c + Chunk(tokens, prompt, past, c) <= Len(tokens)
           /\ past + Chunk(tokens, prompt, past, c) <= Len(prompt)
           /\ InPlace(tokens, prompt, past, c) \in Seq(Token)
           /\ Len(InPlace(tokens, prompt, past, c)) = Len(tokens)
           /\ \A j \in 1 .. past + Chunk(tokens, prompt, past, c) : InPlace(tokens, prompt, past, c)[j] = prompt[j]
<1> DEFINE n   == Chunk(tokens, prompt, past, c)
           new == InPlace(tokens, prompt, past, c)
<1>a. new = [j \in DOMAIN tokens |-> IF j \in past + 1 .. past + n THEN tokens[c + j - past] ELSE tokens[j]]
  BY DEF InPlace
<1> DEFINE a == SubSeq(tokens, c + 1, Len(tokens))
           b == SubSeq(prompt, past + 1, Len(prompt))
           L == Len(tokens)
           P == Len(prompt)
<1>0. L \in Nat /\ P \in Nat /\ c <= L /\ past <= P
  OBVIOUS
<1>1. a \in Seq(Token) /\ Len(a) = L - c /\ \A i \in 1 .. L - c : a[i] = tokens[c + i]
  <2>1. /\ SubSeq(tokens, c + 1, L) \in Seq(Token)
        /\ Len(SubSeq(tokens, c + 1, L)) = IF c + 1 <= L THEN L - (c + 1) + 1 ELSE 0
        /\ \A i \in 1 .. L - (c + 1) + 1 : SubSeq(tokens, c + 1, L)[i] = tokens[c + 1 + i - 1]
    <3>1. c + 1 \in Nat /\ c + 1 >= 1 /\ L \in Int /\ L <= Len(tokens)
      BY <1>0
    <3> QED BY <3>1, PartOf, SMTT(30)
  <2> HIDE DEF L
  <2>2. L - (c + 1) + 1 = L - c /\ (~ (c + 1 <= L) => L - c = 0)
    BY <1>0
  <2>3. \A i \in 1 .. L - c : c + 1 + i - 1 = c + i
    BY <1>0
  <2> QED BY <2>1, <2>2, <2>3 DEF L
<1>2. b \in Seq(Token) /\ Len(b) = P - past /\ \A i \in 1 .. P - past : b[i] = prompt[past + i]
  <2>1. /\ SubSeq(prompt, past + 1, P) \in Seq(Token)
        /\ Len(SubSeq(prompt, past + 1, P)) = IF past + 1 <= P THEN P - (past + 1) + 1 ELSE 0
        /\ \A i \in 1 .. P - (past + 1) + 1 : SubSeq(prompt, past + 1, P)[i] = prompt[past + 1 + i - 1]
    <3>1. past + 1 \in Nat /\ past + 1 >= 1 /\ P \in Int /\ P <= Len(prompt)
      BY <1>0
    <3> QED BY <3>1, PartOf, SMTT(30)
  <2> HIDE DEF P
  <2>2. P - (past + 1) + 1 = P - past /\ (~ (past + 1 <= P) => P - past = 0)
    BY <1>0
  <2>3. \A i \in 1 .. P - past : past + 1 + i - 1 = past + i
    BY <1>0
  <2> QED BY <2>1, <2>2, <2>3 DEF P
<1>3. n \in Nat /\ n <= L - c /\ n <= P - past /\ \A i \in 1 .. n : a[i] = b[i]
  <2>1. n = Common(a, b)
    BY DEF Chunk
  <2> HIDE DEF a, b, L, P, n
  <2>2. /\ Common(a, b) \in Nat /\ Common(a, b) <= Len(a) /\ Common(a, b) <= Len(b)
        /\ \A i \in 1 .. Common(a, b) : a[i] = b[i]
    <3>1. a \in Seq(Token) /\ b \in Seq(Token)
      BY <1>1, <1>2
    <3> QED BY <3>1, CommonTokens
  <2> QED BY <1>1, <1>2, <2>1, <2>2
<1>4. \A i \in 1 .. n : tokens[c + i] = prompt[past + i]
  <2> HIDE DEF a, b, L, P, n
  <2> TAKE i \in 1 .. n
  <2>1. i \in 1 .. L - c /\ i \in 1 .. P - past
    BY <1>0, <1>3
  <2>2. a[i] = tokens[c + i]
    BY <1>1, <2>1
  <2>3. b[i] = prompt[past + i]
    BY <1>2, <2>1
  <2>4. a[i] = b[i]
    BY <1>3
  <2> QED BY <2>2, <2>3, <2>4
<1>5. DOMAIN tokens = 1 .. L /\ \A j \in 1 .. L : tokens[j] \in Token
  OBVIOUS
<1> HIDE DEF a, b, L, P, n, new
<1>6. \A j \in past + 1 .. past + n : j \in 1 .. L /\ c + j - past \in 1 .. L /\ c + j - past = c + (j - past)
                                      /\ j - past \in 1 .. n /\ past + (j - past) = j
  BY <1>0, <1>3
<1>7. new \in [1 .. L -> Token]
  BY <1>a, <1>5, <1>6
<1>8. new \in Seq(Token) /\ Len(new) = L
  BY <1>0, <1>7
<1>9. ASSUME NEW j \in 1 .. past + n
      PROVE  new[j] = prompt[j]
  <2>1. CASE j <= past
    <3>1. j \in 1 .. past /\ j \notin past + 1 .. past + n /\ j \in 1 .. L
      BY <1>0, <1>3, <1>9, <2>1
    <3>2. new[j] = tokens[j]
      BY <1>a, <1>5, <3>1
    <3> QED BY <3>1, <3>2
  <2>2. CASE ~ (j <= past)
    <3>1. j \in past + 1 .. past + n
      BY <1>3, <1>9, <2>2
    <3>2. new[j] = tokens[c + (j - past)]
      BY <1>a, <1>5, <1>6, <3>1
    <3> QED BY <1>4, <1>6, <3>1, <3>2
  <2> QED BY <2>1, <2>2
<1>10. c + n <= L /\ past + n <= P
  BY <1>0, <1>3
<1> QED BY <1>3, <1>8, <1>9, <1>10 DEF L, P, n, new

\* One chunk.
LEMMA ReuseChunkIs ==
    ASSUME NEW w \in Work, NEW s \in Slots, NEW acc \in Chunks(w, s), NEW c \in Nat, c <= Len(w.slot[s].tokens)
    PROVE  ReuseChunk(s, w.slot[s].task, acc, c) \in Chunks(w, s)
<1> DEFINE t      == w.slot[s].task
           tokens == acc.w.slot[s].tokens
           n      == Common(SubSeq(tokens, c + 1, Len(tokens)), SubSeq(t.prompt, acc.past + 1, Len(t.prompt)))
           moved  == SeqRm(acc.w.cells, s, acc.past, c)
           new    == [j \in DOMAIN tokens |->
                         IF j \in acc.past + 1 .. acc.past + n THEN tokens[c + j - acc.past] ELSE tokens[j]]
           cl     == SeqAdd(moved, s, c, c + n, acc.past - c)
           sp     == acc.w.spoiled \cup (IF c = acc.past THEN {} ELSE Sharers(moved, s, c, c + n))
           v      == [acc.w EXCEPT !.slot[s].tokens = new, !.cells = cl, !.spoiled = sp]
           x      == [acc.w.slot[s] EXCEPT !.tokens = new]
           r      == [w |-> v, past |-> acc.past + n, next |-> c + n]
<1>1. \/ ReuseChunk(s, t, acc, c) = acc
      \/ ~ (c < acc.next) /\ ReuseChunk(s, t, acc, c) = r
  BY DEF ReuseChunk
<1>2. SUFFICES ASSUME ~ (c < acc.next)
               PROVE  r \in Chunks(w, s)
  <2> HIDE DEF r
  <2> QED BY <1>1, <1>2
<1>3. /\ acc.w \in Work /\ acc.past \in Nat /\ acc.next \in Nat /\ Found(w, s, acc) /\ acc.past <= acc.next
      /\ Len(tokens) = Len(w.slot[s].tokens) /\ acc.past <= c /\ c <= Len(tokens)
  BY <1>2 DEF Chunks
<1>4. /\ tokens \in Seq(Token) /\ t.prompt \in Seq(Token) /\ acc.past <= Len(t.prompt)
      /\ \A j \in 1 .. acc.past : tokens[j] = t.prompt[j]
      /\ w.slot[s] \in SlotType /\ acc.w.slot[s] \in SlotType
  <2>1. w.slot[s] \in SlotType /\ acc.w.slot[s] \in SlotType
    BY <1>3, WorkParts
  <2>2. t \in TaskType
    BY <2>1, SlotParts
  <2> QED BY <1>3, <2>1, <2>2 DEF Found, TaskType
<1>5. /\ n \in Nat /\ c + n <= Len(tokens) /\ acc.past + n <= Len(t.prompt)
      /\ new \in Seq(Token) /\ Len(new) = Len(tokens)
      /\ \A j \in 1 .. acc.past + n : new[j] = t.prompt[j]
  <2> DEFINE pa == acc.past
             pr == t.prompt
  <2>1. /\ pa \in Nat /\ pa <= c /\ c <= Len(tokens) /\ pa <= Len(pr) /\ tokens \in Seq(Token) /\ pr \in Seq(Token)
        /\ \A j \in 1 .. pa : tokens[j] = pr[j]
    BY <1>3, <1>4
  <2>2. n = Chunk(tokens, pr, pa, c) /\ new = InPlace(tokens, pr, pa, c)
    BY DEF Chunk, InPlace
  <2> HIDE DEF pa, pr, tokens, n, new
  <2>3. /\ n \in Nat /\ c + n <= Len(tokens) /\ pa + n <= Len(pr)
        /\ new \in Seq(Token) /\ Len(new) = Len(tokens)
        /\ \A j \in 1 .. pa + n : new[j] = pr[j]
    BY <2>1, <2>2, ChunkTokens
  <2> QED BY <2>3 DEF pa, pr
<1>6. cl \in SUBSET CellType /\ sp \in SUBSET Slots
  <2>1. acc.w.cells \in SUBSET CellType /\ acc.w.spoiled \in SUBSET Slots /\ acc.past - c \in Int
    BY <1>3, WorkParts
  <2>2. moved \in SUBSET CellType
    BY <2>1, CellsType
  <2> HIDE DEF moved, n
  <2>3. cl \in SUBSET CellType
    BY <2>1, <2>2, CellsType
  <2>4. Sharers(moved, s, c, c + n) \in SUBSET Slots
    BY <2>2, CellsType
  <2> QED BY <2>1, <2>3, <2>4
<1> HIDE DEF n, new, cl, sp, moved
<1>7. x \in SlotType
  BY <1>4, <1>5 DEF SlotType
<1>8. v \in Work /\ v.slot[s] = x /\ \A y \in Slots \ {s} : v.slot[y] = acc.w.slot[y]
  <2>1. v = [acc.w EXCEPT !.slot[s] = x, !.cells = cl, !.spoiled = sp]
    BY <1>3 DEF Work
  <2> HIDE DEF x, v
  <2> QED BY <1>3, <1>6, <1>7, <2>1 DEF Work
<1>9. SameBut(acc.w, v, {s})
  <2> HIDE DEF v
  <2> QED BY <1>5, <1>8 DEF SameBut
<1>10. SameBut(w, v, {s})
  <2>1. SameBut(w, acc.w, {s}) /\ {s} \in SUBSET Slots /\ {s} \cup {s} = {s}
    BY <1>3 DEF Found
  <2> HIDE DEF v
  <2>2. SameBut(w, v, {s} \cup {s})
    BY <1>9, <2>1, SameButMore
  <2> QED BY <2>1, <2>2
<1>11. v.slot[s].tokens = new
  <2>1. x.tokens = new
    BY <1>4 DEF SlotType
  <2> QED BY <1>8, <2>1
<1> HIDE DEF v
<1>12. r \in [w : Work, past : Nat, next : Nat] /\ r.w = v /\ r.past = acc.past + n /\ r.next = c + n
  BY <1>3, <1>5, <1>8
<1> HIDE DEF r
<1>13. Found(w, s, r)
  <2>1. acc.past + n \in Nat /\ acc.past + n <= Len(new)
    BY <1>3, <1>5, SMTT(30)
  <2> QED BY <1>5, <1>10, <1>11, <1>12, <2>1 DEF Found
<1>14. acc.past + n <= c + n
  BY <1>3, <1>5
<1> QED BY <1>3, <1>5, <1>11, <1>12, <1>13, <1>14 DEF Chunks

\* The chunks, one after the other: what holds after each of them holds in the end.
LEMMA ReusedRule ==
    ASSUME NEW w \in Work, NEW s \in Slots, NEW V,
           LET from == Common(w.slot[s].tokens, w.slot[s].task.prompt) IN [w |-> w, past |-> from, next |-> from] \in V,
           \A acc \in V : \A c \in Nat : c <= Len(w.slot[s].tokens) => ReuseChunk(s, w.slot[s].task, acc, c) \in V
    PROVE  Reused(w, s, w.slot[s].task) \in V
<1> DEFINE t    == w.slot[s].task
           from == Common(w.slot[s].tokens, t.prompt)
           m    == Max({0, Len(w.slot[s].tokens) - from})
           q    == [j \in 1 .. m |-> from + j - 1]
           base == [w |-> w, past |-> from, next |-> from]
           All  == FoldLeft(LAMBDA acc, c : ReuseChunk(s, t, acc, c), base, q)
<1>c. base \in V
  OBVIOUS
<1>a. w.slot[s] \in SlotType /\ w.slot[s].tokens \in Seq(Token) /\ t.prompt \in Seq(Token)
  <2>1. w.slot[s] \in SlotType
    BY WorkParts
  <2> QED BY <2>1, SlotParts DEF TaskType
<1>b. from \in Nat /\ from <= Len(w.slot[s].tokens)
  BY <1>a, CommonTokens, SMTT(30)
<1>e. Reused(w, s, t) = All
  BY DEF Reused, from
<1> HIDE DEF from
<1>0. m \in Nat /\ DOMAIN q = 1 .. m /\ \A i \in 1 .. m : q[i] \in Nat /\ q[i] <= Len(w.slot[s].tokens)
  <2> DEFINE L == Len(w.slot[s].tokens)
  <2>1. L \in Nat /\ L - from \in Nat
    BY <1>a, <1>b
  <2> HIDE DEF L
  <2>2. Max({0, L - from}) = L - from
    BY <2>1, MaxOfTwo
  <2>3. m = L - from
    BY <2>2 DEF L
  <2> HIDE DEF m
  <2>4. \A i \in 1 .. m : from + i - 1 \in Nat /\ from + i - 1 <= L
    BY <1>b, <2>1, <2>3
  <2> QED BY <2>1, <2>3, <2>4 DEF L
<1> HIDE DEF q, m, base
<1>d. \A i \in 1 .. m, v \in V : ReuseChunk(s, t, v, q[i]) \in V
  BY <1>0
<1> DEFINE S    == 1 .. m
           F    == [p \in S \X V |-> ReuseChunk(s, t, p[2], q[p[1]])]
           ch   == [T \in (SUBSET S) \ {{}} |-> Max(T)]
           H    == {p \in (SUBSET S) \X V : TRUE}
           D(h) == [T \in SUBSET S |-> IF T = {} THEN base
                        ELSE ReuseChunk(s, t, h[T \ {Max(T)}], q[Max(T)])]
           g    == CHOOSE h : h = D(h)
<1>1. F \in [S \X V -> V] /\ \A i \in S, v \in V : F[<<i, v>>] = ReuseChunk(s, t, v, q[i])
  BY <1>d
<1>2. <<{}, base>> \in H
  BY <1>c
<1>3. ASSUME NEW T \in SUBSET S, NEW i \in T, NEW v \in V, <<T \ {i}, v>> \in H
      PROVE  <<T, F[<<i, v>>]>> \in H
  BY <1>1, <1>3
<1>4. Chooses(ch, S) /\ IsFiniteSet(S) /\ \A T \in (SUBSET S) \ {{}} : ch[T] = Max(T)
  BY <1>0, LastChoice
<1> HIDE DEF F, ch, H, S
<1>5. /\ \E h : FoldsTo(h, ch, S, V, base, F)
      /\ \A h : GoesOn(h, ch, S, V, base, F) => h[S] \in V /\ <<S, h[S]>> \in H
  BY <1>1, <1>2, <1>3, <1>4, <1>c, FoldIs
<1>6. PICK h : FoldsTo(h, ch, S, V, base, F)
  BY <1>5
<1>7. h = D(h)
  <2>1. \A T \in (SUBSET S) \ {{}} : h[T] = ReuseChunk(s, t, h[T \ {ch[T]}], q[ch[T]])
    BY <1>1, <1>4, <1>6 DEF FoldsTo, Chooses
  <2> QED BY <1>4, <1>6, <2>1 DEF FoldsTo
<1>8. g = D(g)
  BY <1>7
<1> HIDE DEF g
<1>9. GoesOn(g, ch, S, V, base, F)
  <2>1. g[{}] = base
    BY <1>8
  <2>2. ASSUME NEW T \in (SUBSET S) \ {{}}, g[T \ {ch[T]}] \in V
        PROVE  g[T] = F[<<ch[T], g[T \ {ch[T]}]>>]
    <3>1. g[T] = ReuseChunk(s, t, g[T \ {ch[T]}], q[ch[T]])
      BY <1>4, <1>8
    <3> QED BY <1>1, <1>4, <2>2, <3>1 DEF Chooses
  <2> QED BY <2>1, <2>2 DEF GoesOn
<1>10. DOMAIN q = S
  BY <1>0 DEF S
<1>11. All = g[S]
  BY <1>10 DEF FoldLeft, MapThenFoldSet, g
<1> QED BY <1>5, <1>9, <1>11, <1>e

\* The chunks that the prompt has closer to its start.
LEMMA ReusedIs ==
    ASSUME NEW w \in Work, NEW s \in Slots
    PROVE  Found(w, s, Reused(w, s, w.slot[s].task))
<1> DEFINE t    == w.slot[s].task
           from == Common(w.slot[s].tokens, t.prompt)
           base == [w |-> w, past |-> from, next |-> from]
           V    == Chunks(w, s)
<1>a. w.slot[s] \in SlotType /\ w.slot[s].tokens \in Seq(Token) /\ t.prompt \in Seq(Token)
  <2>1. w.slot[s] \in SlotType
    BY WorkParts
  <2> QED BY <2>1, SlotParts DEF TaskType
<1>b. /\ from \in Nat /\ from <= Len(w.slot[s].tokens) /\ from <= Len(t.prompt)
      /\ \A j \in 1 .. from : w.slot[s].tokens[j] = t.prompt[j]
  BY <1>a, CommonTokens, SMTT(30)
<1> HIDE DEF from
<1>c. base \in V
  <2>1. SameBut(w, w, {s})
    <3>1. SameBut(w, w, {}) /\ {} \in SUBSET Slots /\ {s} \in SUBSET Slots /\ {} \subseteq {s}
      BY DEF SameBut
    <3> QED BY <3>1, SameButWhat
  <2> QED BY <1>a, <1>b, <2>1 DEF Chunks, Found
<1> HIDE DEF V
<1>d. \A acc \in V : \A c \in Nat : c <= Len(w.slot[s].tokens) => ReuseChunk(s, t, acc, c) \in V
  BY ReuseChunkIs DEF V
<1>e. Reused(w, s, t) \in V
  BY <1>c, <1>d, ReusedRule DEF from
<1> QED BY <1>e DEF V, Chunks

\* A prefix, token by token.
LEMMA PrefixIs ==
    ASSUME NEW T, NEW a \in Seq(T), NEW b \in Seq(T)
    PROVE  IsPrefix(a, b) <=> Len(a) <= Len(b) /\ \A j \in 1 .. Len(a) : a[j] = b[j]
<1>1. CASE Len(a) <= Len(b)
  <2> DEFINE n == Len(a)
  <2>1. n \in Nat /\ n <= Len(a) /\ n <= Len(b)
    BY <1>1
  <2> HIDE DEF n
  <2>2. SubSeq(a, 1, n) \in Seq(T) /\ Len(SubSeq(a, 1, n)) = n /\ \A i \in 1 .. n : SubSeq(a, 1, n)[i] = a[i]
    BY <2>1, StartOf
  <2>3. SubSeq(b, 1, n) \in Seq(T) /\ Len(SubSeq(b, 1, n)) = n /\ \A i \in 1 .. n : SubSeq(b, 1, n)[i] = b[i]
    BY <2>1, StartOf
  <2> DEFINE u == SubSeq(a, 1, n)
             v == SubSeq(b, 1, n)
  <2>4. u = v <=> \A i \in 1 .. n : a[i] = b[i]
    <3>1. u \in Seq(T) /\ v \in Seq(T) /\ Len(u) = n /\ Len(v) = n /\ \A i \in 1 .. n : u[i] = a[i] /\ v[i] = b[i]
      BY <2>2, <2>3
    <3> HIDE DEF u, v
    <3>2. (\A i \in 1 .. n : u[i] = v[i]) => u = v
      BY <3>1, SeqEqual
    <3> QED BY <3>1, <3>2
  <2> QED BY <1>1, <2>4 DEF IsPrefix, n
<1>2. CASE ~ (Len(a) <= Len(b))
  BY <1>2 DEF IsPrefix
<1> QED BY <1>1, <1>2

\* What the slot has that its task can use.
LEMMA MatchedIs ==
    ASSUME NEW w \in Work, NEW s \in Slots
    PROVE  Found(w, s, Matched(w, s))
<1>1. w.slot[s] \in SlotType /\ w.slot[s].tokens \in Seq(Token) /\ w.slot[s].task.prompt \in Seq(Token)
  <2>1. w.slot[s] \in SlotType
    BY WorkParts
  <2> QED BY <2>1, SlotParts DEF TaskType
<1>2. SameBut(w, w, {s})
  <2>1. SameBut(w, w, {}) /\ {} \in SUBSET Slots /\ {s} \in SUBSET Slots /\ {} \subseteq {s}
    BY DEF SameBut
  <2> QED BY <2>1, SameButWhat
<1> DEFINE n == Common(w.slot[s].tokens, w.slot[s].task.prompt)
<1>3. /\ n \in Nat /\ n <= Len(w.slot[s].tokens) /\ n <= Len(w.slot[s].task.prompt)
      /\ \A j \in 1 .. n : w.slot[s].tokens[j] = w.slot[s].task.prompt[j]
  BY <1>1, CommonTokens, SMTT(30)
<1> HIDE DEF n
<1>4. Found(w, s, [w |-> w, past |-> 0]) /\ Found(w, s, [w |-> w, past |-> n])
  <2>1. Len(w.slot[s].tokens) \in Nat /\ Len(w.slot[s].task.prompt) \in Nat
    BY <1>1, LenProperties
  <2>2. \A r : r.w = w /\ r.past \in {0, n} => Found(w, s, r)
    <3>1. /\ 0 \in Nat /\ 0 <= Len(w.slot[s].tokens) /\ 0 <= Len(w.slot[s].task.prompt)
          /\ \A j \in 1 .. 0 : w.slot[s].tokens[j] = w.slot[s].task.prompt[j]
      BY <2>1
    <3> TAKE r
    <3> HAVE r.w = w /\ r.past \in {0, n}
    <3>2. CASE r.past = 0
      BY <1>1, <1>2, <3>1, <3>2 DEF Found
    <3>3. CASE r.past = n
      BY <1>1, <1>2, <1>3, <3>3 DEF Found
    <3> QED BY <3>2, <3>3
  <2>3. [w |-> w, past |-> 0].w = w /\ [w |-> w, past |-> 0].past = 0
    OBVIOUS
  <2>4. [w |-> w, past |-> n].w = w /\ [w |-> w, past |-> n].past = n
    OBVIOUS
  <2> QED BY <2>2, <2>3, <2>4
<1>5. Found(w, s, Reused(w, s, w.slot[s].task))
  BY ReusedIs
<1> QED BY <1>4, <1>5 DEF Matched, n

\* What is kept of the slot when its task starts.
LEMMA KeptIs ==
    ASSUME NEW w \in Work, NEW s \in Slots
    PROVE  /\ Kept(w, s) \in Work
           /\ \A y \in Slots \ {s} : Kept(w, s).slot[y] = w.slot[y]
           /\ \E tokens \in Seq(Token) :
                 /\ IsPrefix(tokens, w.slot[s].task.prompt)
                 /\ Kept(w, s).slot[s] = [w.slot[s] EXCEPT !.tokens = tokens, !.state = "PROCESSING_PROMPT"]
<1> DEFINE acc    == Matched(w, s)
           prompt == w.slot[s].task.prompt
           whole  == acc.past = Len(w.slot[s].task.prompt)
           reset  == SeqPosMin(acc.w.cells, s) >= acc.past - (IF whole THEN 1 ELSE 0)
           past   == IF reset THEN 0 ELSE IF whole THEN acc.past - 1 ELSE acc.past
           tokens == SubSeq(acc.w.slot[s].tokens, 1, past)
           x      == [acc.w.slot[s] EXCEPT !.tokens = tokens, !.state = "PROCESSING_PROMPT"]
           v      == Kept(w, s)
<1>1. Found(w, s, acc)
  BY MatchedIs
<1> HIDE DEF acc
<1>2. acc.w \in Work /\ acc.past \in Nat
  BY <1>1 DEF Found, SameBut
<1>3. w.slot[s] \in SlotType /\ acc.w.slot[s] \in SlotType /\ acc.w.slot[s].tokens \in Seq(Token) /\ prompt \in Seq(Token)
  <2>1. w.slot[s] \in SlotType /\ acc.w.slot[s] \in SlotType
    BY <1>2, WorkParts
  <2> QED BY <2>1, SlotParts DEF TaskType
<1>4. SeqPosMin(acc.w.cells, s) \in Nat
  <2> DEFINE P == {c.pos : c \in Within(acc.w.cells, s, 0, -1)} \cup {NCtx}
  <2>1. acc.w.cells \in SUBSET CellType
    BY <1>2, WorkParts
  <2>2. Within(acc.w.cells, s, 0, -1) \subseteq CellType
    BY <2>1, CellsType
  <2>3. P \in SUBSET Nat /\ P # {}
    BY <2>2, SizesAssumption DEF CellType
  <2> HIDE DEF P
  <2>4. Min(P) \in Nat
    BY <2>3, MinIs
  <2> QED BY <2>4 DEF SeqPosMin, P
<1>5. past \in Nat /\ past <= acc.past
  BY <1>2, <1>4
<1>6. v = [acc.w EXCEPT !.slot[s].tokens = tokens, !.slot[s].state = "PROCESSING_PROMPT"]
  BY DEF Kept, acc
<1> HIDE DEF past, v
<1>7. acc.past <= Len(prompt) /\ acc.past <= Len(acc.w.slot[s].tokens)
      /\ \A j \in 1 .. acc.past : acc.w.slot[s].tokens[j] = prompt[j]
  BY <1>1 DEF Found
<1>8. past <= Len(acc.w.slot[s].tokens) /\ past <= Len(prompt) /\ \A j \in 1 .. past : j \in 1 .. acc.past
  BY <1>2, <1>3, <1>5, <1>7
<1>9. tokens \in Seq(Token) /\ Len(tokens) = past /\ \A j \in 1 .. past : tokens[j] = acc.w.slot[s].tokens[j]
  BY <1>3, <1>5, <1>8, StartOf
<1> HIDE DEF tokens
<1>10. IsPrefix(tokens, prompt)
  <2>1. \A j \in 1 .. past : tokens[j] = prompt[j]
    BY <1>7, <1>8, <1>9
  <2> QED BY <1>3, <1>8, <1>9, <2>1, PrefixIs
<1>11. v = [acc.w EXCEPT !.slot[s] = x] /\ x \in SlotType
  <2>1. x \in SlotType
    BY <1>3, <1>9 DEF SlotType, States
  <2>2. v = [acc.w EXCEPT !.slot[s] = x]
    BY <1>2, <1>3, <1>6 DEF Work
  <2> QED BY <2>1, <2>2
<1>12. x = [w.slot[s] EXCEPT !.tokens = tokens, !.state = "PROCESSING_PROMPT"]
  <2>1. PICK a \in Seq(Token) : acc.w.slot[s] = [w.slot[s] EXCEPT !.tokens = a]
    BY <1>1 DEF Found, SameBut
  <2> QED BY <1>3, <2>1 DEF SlotType
<1> HIDE DEF x
<1>13. v \in Work /\ v.slot[s] = x /\ \A y \in Slots \ {s} : v.slot[y] = acc.w.slot[y]
  BY <1>2, <1>11 DEF Work
<1>14. \A y \in Slots \ {s} : acc.w.slot[y] = w.slot[y]
  BY <1>1 DEF Found, SameBut
<1> QED BY <1>9, <1>10, <1>12, <1>13, <1>14 DEF v

\* What the cache has beyond the tokens goes.
LEMMA TruncatedIs ==
    ASSUME NEW w \in Work, NEW s \in Slots
    PROVE  Truncated(w, s) \in Work /\ Truncated(w, s).slot = w.slot
<1> DEFINE c  == SeqRm(w.cells, s, Len(w.slot[s].tokens), -1)
           sp == IF w.slot[s].tokens = <<>> THEN w.spoiled \ {s} ELSE w.spoiled
<1>1. c \in SUBSET CellType /\ sp \in SUBSET Slots
  BY WorkParts, CellsType
<1>2. Truncated(w, s) = [w EXCEPT !.cells = c, !.spoiled = sp]
  BY DEF Truncated, Work
<1> HIDE DEF c, sp
<1> QED BY <1>1, <1>2 DEF Work

\* As many tokens of the prompt as the batch has room for.
LEMMA PromptStep ==
    ASSUME IInv, NEW s \in Slots, Prompt(s)
    PROVE  IInv'
<1> DEFINE x   == slot[s]
           u   == IF x.state = "STARTED" THEN Kept(Now, s) ELSE Now
           w   == Truncated(u, s)
           n   == Len(w.slot[s].tokens)
           all == x.task.prompt
           room == NBatch - Len(batch)
           last == Min({Len(all), n + room})
           done == last = Len(all)
           more == [j \in 1 .. last - n |-> [slot |-> s, tok |-> all[n + j], pos |-> n + j - 1]]
           part == SubSeq(all, n + 1, last)
           state == IF done THEN "DONE_PROMPT" ELSE "PROCESSING_PROMPT"
           i   == IF done THEN Len(batch) + last - n ELSE 0
           v   == [w EXCEPT !.slot[s].tokens = @ \o part, !.slot[s].state = state, !.slot[s].i_batch = i]
           z   == [w.slot[s] EXCEPT !.tokens = w.slot[s].tokens \o part, !.state = state, !.i_batch = i]
<1>1. /\ pc = "prompt" /\ turn = s /\ x.state \in {"STARTED", "PROCESSING_PROMPT"} /\ Len(batch) < NBatch
      /\ AfterPrompts(batch') /\ UNCHANGED <<off, view, n_batch>>
  BY DEF Prompt, Wanted
<1>2. batch' = batch \o more /\ Becomes(v)
  <2>1. n + room = n + NBatch - Len(batch)
    <3>1. n \in Int /\ NBatch \in Int /\ Len(batch) \in Int
      <4>1. /\ w \in Work /\ batch \in Seq(TokType)
        <5>1. Now \in Work
          BY CalmNow
        <5>2. u \in Work
          BY <5>1, KeptIs
        <5> HIDE DEF u
        <5> QED BY <5>2, TruncatedIs DEF IInv, Typed
      <4>2. w.slot[s] \in SlotType
        BY <4>1, WorkParts
      <4>3. w.slot[s].tokens \in Seq(Token)
        BY <4>2, SlotParts
      <4> HIDE DEF w
      <4> QED BY <4>1, <4>3, SizesAssumption, LenProperties
    <3> HIDE DEF n
    <3> QED BY <3>1
  <2> QED BY <2>1 DEF Prompt
<1>3. Now \in Work /\ Now.slot = slot /\ x \in SlotType /\ all \in Seq(Token) /\ batch \in Seq(TokType) /\ Coherent(x)
  <2>1. Now \in Work /\ Now.slot = slot
    BY CalmNow
  <2>2. x \in SlotType
    BY <2>1, WorkParts
  <2>3. x.task \in TaskType
    BY <2>2, SlotParts
  <2> QED BY <2>1, <2>2, <2>3 DEF IInv, Typed, TaskType
<1>4. /\ u \in Work /\ \A y \in Slots \ {s} : u.slot[y] = slot[y]
      /\ \E tokens \in Seq(Token) :
            IsPrefix(tokens, all) /\ u.slot[s] = [x EXCEPT !.tokens = tokens, !.state = "PROCESSING_PROMPT"]
  <2>1. CASE x.state = "STARTED"
    <3>1. /\ Kept(Now, s) \in Work
          /\ \A y \in Slots \ {s} : Kept(Now, s).slot[y] = Now.slot[y]
          /\ \E tokens \in Seq(Token) :
                 /\ IsPrefix(tokens, Now.slot[s].task.prompt)
                 /\ Kept(Now, s).slot[s] = [Now.slot[s] EXCEPT !.tokens = tokens, !.state = "PROCESSING_PROMPT"]
      BY <1>3, KeptIs
    <3>2. u = Kept(Now, s)
      BY <2>1
    <3> HIDE DEF u
    <3> QED BY <1>3, <3>1, <3>2
  <2>2. CASE x.state # "STARTED"
    <3>1. x.state = "PROCESSING_PROMPT" /\ IsPrefix(x.tokens, all) /\ x.tokens \in Seq(Token)
      BY <1>1, <1>3, <2>2, SlotParts DEF Coherent
    <3>2. x = [x EXCEPT !.tokens = x.tokens, !.state = "PROCESSING_PROMPT"]
      BY <1>3, <3>1 DEF SlotType
    <3>3. u = Now
      BY <2>2
    <3> HIDE DEF u
    <3> QED BY <1>3, <3>1, <3>2, <3>3
  <2> QED BY <2>1, <2>2
<1> HIDE DEF u
<1>5. w \in Work /\ w.slot = u.slot
  BY <1>4, TruncatedIs
<1> HIDE DEF w
<1>6. PICK tokens \in Seq(Token) :
        IsPrefix(tokens, all) /\ w.slot[s] = [x EXCEPT !.tokens = tokens, !.state = "PROCESSING_PROMPT"]
  BY <1>4, <1>5
<1>7. w.slot[s] \in SlotType /\ w.slot[s].tokens = tokens /\ n = Len(tokens) /\ n \in Nat
  <2>1. w.slot[s] \in SlotType
    BY <1>5, WorkParts
  <2>2. w.slot[s].tokens = tokens
    BY <1>3, <1>6 DEF SlotType
  <2> QED BY <2>1, <2>2
<1>8. n <= Len(all) /\ Len(all) \in Nat /\ \A j \in 1 .. n : tokens[j] = all[j]
  <2>1. Len(tokens) <= Len(all) /\ \A j \in 1 .. Len(tokens) : tokens[j] = all[j]
    BY <1>3, <1>6, PrefixIs
  <2> QED BY <1>3, <1>7, <2>1
<1>9. room \in Nat /\ last \in Nat /\ n <= last /\ last <= Len(all)
  <2>1. Len(batch) \in Nat /\ NBatch \in Nat
    BY <1>3, SizesAssumption
  <2>2. room \in Nat
    BY <1>1, <2>1
  <2> HIDE DEF n, room, all
  <2>3. last = IF Len(all) <= n + room THEN Len(all) ELSE n + room
    BY <1>7, <1>8, <2>2, MinOfTwo
  <2> HIDE DEF last
  <2> QED BY <1>7, <1>8, <2>2, <2>3
<1> HIDE DEF room, last
<1>10. part \in Seq(Token) /\ Len(part) = last - n /\ \A j \in 1 .. last - n : part[j] = all[n + j]
  <2> HIDE DEF n, all
  <2>1. /\ SubSeq(all, n + 1, last) \in Seq(Token)
        /\ Len(SubSeq(all, n + 1, last)) = IF n + 1 <= last THEN last - (n + 1) + 1 ELSE 0
        /\ \A j \in 1 .. last - (n + 1) + 1 : SubSeq(all, n + 1, last)[j] = all[n + 1 + j - 1]
    <3>1. n + 1 \in Nat /\ last \in Int /\ n + 1 >= 1
      BY <1>7, <1>9
    <3> QED BY <1>3, <1>9, <3>1, PartOf, SMTT(30)
  <2>2. last - (n + 1) + 1 = last - n /\ (~ (n + 1 <= last) => last - n = 0) /\ \A j \in 1 .. last - n : n + 1 + j - 1 = n + j
    BY <1>7, <1>9
  <2> QED BY <2>1, <2>2
<1> HIDE DEF part
<1>11. batch' \in Seq(TokType) /\ Len(batch') = Len(batch) + (last - n) /\ Len(batch) \in Nat
  <2>1. last - n \in Nat /\ \A j \in 1 .. last - n : n + j - 1 \in Nat /\ n + j \in 1 .. Len(all)
    <3> HIDE DEF n, all
    <3> QED BY <1>7, <1>8, <1>9
  <2>2. \A j \in 1 .. Len(all) : all[j] \in Token
    BY <1>3
  <2>3. more \in [1 .. last - n -> TokType]
    <3> HIDE DEF n, all
    <3> QED BY <2>1, <2>2 DEF TokType
  <2> HIDE DEF more, n
  <2> QED BY <1>2, <1>3, <2>1, <2>3, BatchGrows
<1>12. /\ tokens \o part \in Seq(Token) /\ IsPrefix(tokens \o part, all)
       /\ done => tokens \o part = all
  <2> DEFINE new == tokens \o part
  <2>1. new \in Seq(Token) /\ Len(new) = last /\ \A j \in 1 .. last : new[j] = IF j <= n THEN tokens[j] ELSE part[j - n]
    <3> HIDE DEF n
    <3>0. /\ new \in Seq(Token) /\ Len(new) = Len(tokens) + Len(part)
          /\ \A j \in 1 .. Len(tokens) + Len(part) : new[j] = IF j <= Len(tokens) THEN tokens[j] ELSE part[j - Len(tokens)]
      BY <1>10, ConcatProperties
    <3> HIDE DEF new
    <3>1. Len(new) = n + (last - n) /\ new \in Seq(Token)
      BY <1>7, <1>10, <3>0
    <3>2. \A j \in 1 .. n + (last - n) : new[j] = IF j <= n THEN tokens[j] ELSE part[j - n]
      BY <1>7, <1>10, <3>0
    <3>3. n + (last - n) = last
      BY <1>7, <1>9
    <3> QED BY <3>1, <3>2, <3>3
  <2> HIDE DEF new, n, all
  <2>2. ASSUME NEW j \in 1 .. last
        PROVE  new[j] = all[j]
    <3>1. CASE j <= n
      BY <1>7, <1>8, <1>9, <2>1, <3>1
    <3>2. CASE ~ (j <= n)
      <4>1. j - n \in 1 .. last - n /\ n + (j - n) = j
        BY <1>7, <1>9, <3>2
      <4> QED BY <1>10, <2>1, <3>2, <4>1
    <3> QED BY <3>1, <3>2
  <2>3. IsPrefix(new, all)
    BY <1>3, <1>9, <2>1, <2>2, PrefixIs
  <2>4. last = Len(all) => new = all
    BY <1>3, <2>1, <2>2, SeqEqual
  <2> QED BY <2>1, <2>3, <2>4 DEF new
<1>13. i \in Nat /\ state \in States /\ state \in {"DONE_PROMPT", "PROCESSING_PROMPT"}
  <2>1. Len(batch) + last - n \in Nat
    <3> HIDE DEF n
    <3> QED BY <1>7, <1>9, <1>11
  <2> QED BY <2>1 DEF States
<1>14. (state = "DONE_PROMPT") <=> done
  OBVIOUS
<1> HIDE DEF i, state, done
<1>15. z \in SlotType
  BY <1>7, <1>12, <1>13 DEF SlotType
<1>16. v = [w EXCEPT !.slot[s] = z]
  BY <1>5, <1>7 DEF Work, SlotType
<1>17. v \in Work /\ v.slot[s] = z /\ \A y \in Slots \ {s} : v.slot[y] = slot[y]
  <2> HIDE DEF v, z
  <2> QED BY <1>4, <1>5, <1>15, <1>16 DEF Work
<1>18. z.state = state /\ z.tokens = tokens \o part /\ z.task.prompt = all /\ z.out = x.out /\ z.draft = x.draft
  BY <1>3, <1>6, <1>7 DEF SlotType
<1> HIDE DEF z, v, all
<1>19. Coherent(z) /\ z.state # "GENERATING"
  <2>1. x.out = <<>> /\ x.draft = <<>>
    BY <1>1, <1>3 DEF Coherent
  <2> QED BY <1>12, <1>13, <1>14, <1>18, <2>1 DEF Coherent
<1>20. Len(batch) <= Len(batch')
  <2> HIDE DEF n
  <2> QED BY <1>7, <1>9, <1>11
<1> HIDE DEF x
<1> QED BY <1>1, <1>2, <1>11, <1>17, <1>19, <1>20, TurnStep

-----------------------------------------------------------------------------
(* decode.                                                                 *)

\* Nothing is left to do for any slot.
Quiet(w) ==
    /\ w \in Work
    /\ \A s \in Slots : Coherent(w.slot[s]) /\ w.slot[s].state = "IDLE"

\* The batch is given up when no slot is processing.
LEMMA GivenUpStep ==
    ASSUME IInv, NEW w, Quiet(w), NEW n \in Nat, GivenUp(w, n)
    PROVE  IInv'
<1> DEFINE sp == w.spoiled \cup {s \in Rest(n) : w.slot[s].tokens # <<>>}
           v  == [w EXCEPT !.spoiled = sp]
<1>1. Rest(n) \in SUBSET Slots
  <2>1. batch \in Seq(TokType)
    BY DEF IInv, Typed
  <2>2. \A j \in n + 1 .. Len(batch) : batch[j] \in TokType
    BY <2>1
  <2> QED BY <2>2 DEF Rest, TokType
<1>2. sp \in SUBSET Slots
  BY <1>1, WorkParts DEF Quiet
<1>3. Becomes(v) /\ pc' = "tasks" /\ batch' = <<>> /\ off' = 0 /\ view' = 0 /\ turn' = turn /\ n_batch' = n_batch
  BY DEF GivenUp
<1> HIDE DEF sp
<1>4. v \in Work /\ v.slot = w.slot
  BY <1>2 DEF Quiet, Work
<1> HIDE DEF v
<1>5. Now' = v /\ slot' = w.slot
  BY <1>3, <1>4 DEF Becomes, Now, Work
<1>6. Typed'
  BY <1>3, <1>4, <1>5 DEF IInv, Typed
<1>7. (\A s \in Slots : Coherent(slot[s]))'
  BY <1>5 DEF Quiet, Coherent
<1>8. Flow'
  BY <1>3, <1>5 DEF Quiet, Flow
<1> QED BY <1>6, <1>7, <1>8 DEF IInv

\* All the slots at work are released.
LEMMA QuietReleased ==
    ASSUME IInv, NEW w \in Work, w.slot = slot, NEW S, S = {s \in Slots : Processing(s)}
    PROVE  Quiet(ReleaseAll(w, S))
<1> DEFINE v == ReleaseAll(w, S)
<1>1. S \in SUBSET Slots
  OBVIOUS
<1>2. Released(w, v, S)
  BY <1>1, ReleaseAllIs
<1> HIDE DEF v
<1>3. ASSUME NEW s \in Slots
      PROVE  Coherent(v.slot[s]) /\ v.slot[s].state = "IDLE"
  <2>1. CASE s \in S
    <3>1. PICK tokens \in Seq(Token) : v.slot[s] = [Fresh EXCEPT !.tokens = tokens]
      BY <1>2, <2>1 DEF Released
    <3> QED BY <3>1, IdleCoherent
  <2>2. CASE s \notin S
    BY <1>2, <2>2 DEF Released, IInv, Processing
  <2> QED BY <2>1, <2>2
<1> QED BY <1>2, <1>3 DEF Quiet, Released, v

\* It is still so when they are cleared.
LEMMA QuietCleared ==
    ASSUME NEW w, Quiet(w), NEW S \in SUBSET Slots
    PROVE  Quiet(ClearAll(w, S))
<1> DEFINE v == ClearAll(w, S)
<1>1. SameBut(w, v, S) /\ w \in Work
  BY ClearAllIs DEF Quiet
<1> HIDE DEF v
<1>2. ASSUME NEW s \in Slots
      PROVE  Coherent(v.slot[s]) /\ v.slot[s].state = "IDLE"
  <2>0. w.slot[s] \in SlotType /\ Coherent(w.slot[s]) /\ w.slot[s].state = "IDLE"
    BY <1>1, WorkParts DEF Quiet
  <2>1. CASE s \in S
    <3>1. PICK tokens \in Seq(Token) : v.slot[s] = [w.slot[s] EXCEPT !.tokens = tokens]
      BY <1>1, <2>1 DEF SameBut
    <3> QED BY <2>0, <3>1, IdleCoherent
  <2>2. CASE s \notin S
    <3>1. v.slot[s] = w.slot[s]
      BY <1>1, <2>2 DEF SameBut
    <3> QED BY <2>0, <3>1
  <2> QED BY <2>1, <2>2
<1> QED BY <1>1, <1>2 DEF Quiet, SameBut, v

\* The batch cannot be decoded.
LEMMA DecodeFatalStep ==
    ASSUME IInv, DecodeFatal
    PROVE  IInv'
<1> DEFINE S == {s \in Slots : Processing(s)}
<1>1. Now \in Work /\ Now.slot = slot /\ off \in Nat /\ S \in SUBSET Slots
  BY CalmNow DEF IInv, Typed
<1>2. Quiet(ReleaseAll(Now, S))
  BY <1>1, QuietReleased
<1>3. Quiet(ClearAll(ReleaseAll(Now, S), S))
  BY <1>1, <1>2, QuietCleared
<1>4. GivenUp(ClearAll(ReleaseAll(Now, S), S), off)
  BY DEF DecodeFatal
<1> QED BY <1>1, <1>3, <1>4, GivenUpStep

\* There are no cells for the view.
LEMMA DecodeNoSpaceStep ==
    ASSUME IInv, DecodeNoSpace
    PROVE  IInv'
<1>0. UNCHANGED <<pc, turn, batch, off, view>> /\ n_batch \in Nat /\ n_batch \div 2 \in Nat
  BY DEF DecodeNoSpace, IInv, Typed
<1>1. CASE Cleared # {}
  <2>1. Becomes(Clear(Now, Min(Cleared))) /\ n_batch' = n_batch
    BY <1>1 DEF DecodeNoSpace
  <2>2. Cleared \in SUBSET Nat
    BY DEF Cleared, Slots
  <2>3. Min(Cleared) \in Cleared
    BY <1>1, <2>2, MinIs
  <2>4. Calm(Clear(Now, Min(Cleared)))
    BY <2>3, CalmClear DEF Cleared
  <2> QED BY <1>0, <2>1, <2>4, StillStep
<1>2. CASE ~ (Cleared # {})
  <2>1. Becomes(Now) /\ n_batch' = n_batch \div 2
    BY <1>2 DEF DecodeNoSpace, Becomes, Now
  <2> QED BY <1>0, <2>1, CalmNow, StillStep
<1> QED BY <1>1, <1>2

\* The cells of the view.
LEMMA DecodedIs ==
    ASSUME IInv
    PROVE  Decoded \in Work /\ Decoded.slot = slot /\ Len(View) \in Nat
<1> DEFINE m  == Min({off + n_batch, Len(batch)})
           cl == cells \cup {[tok |-> t.tok, pos |-> t.pos, seqs |-> {t.slot}] : t \in Range(View)}
<1>1. batch \in Seq(TokType) /\ off \in Nat /\ n_batch \in Nat /\ Len(batch) \in Nat
  BY DEF IInv, Typed
<1>2. m \in Int /\ m <= Len(batch)
  <2>1. off + n_batch \in Int /\ Len(batch) \in Int
    BY <1>1
  <2>2. m = IF off + n_batch <= Len(batch) THEN off + n_batch ELSE Len(batch)
    BY <2>1, MinOfTwo
  <2> HIDE DEF m
  <2> QED BY <1>1, <2>2
<1> HIDE DEF m
<1>3. SubSeq(batch, off + 1, m) \in Seq(TokType)
  <2>1. off + 1 \in Nat /\ off + 1 >= 1
    BY <1>1
  <2> QED BY <1>1, <1>2, <2>1, PartOf
<1>4. View \in Seq(TokType) /\ Len(View) \in Nat
  <2>1. View = SubSeq(batch, off + 1, m)
    BY DEF View, m
  <2>2. View \in Seq(TokType)
    BY <1>3, <2>1
  <2> QED BY <2>2, LenProperties
<1>5. Range(View) \subseteq TokType
  <2>1. \A j \in DOMAIN View : View[j] \in TokType
    BY <1>4
  <2> QED BY <2>1 DEF Range
<1>6. Now \in Work /\ Now.slot = slot /\ Now.cells = cells
  BY CalmNow
<1>7. cl \in SUBSET CellType
  <2>1. cells \in SUBSET CellType
    BY <1>6, WorkParts
  <2> QED BY <1>5, <2>1 DEF CellType, TokType
<1>8. Decoded = [Now EXCEPT !.cells = cl]
  BY <1>6 DEF Decoded
<1> HIDE DEF cl
<1>9. Decoded \in Work /\ Decoded.slot = slot
  BY <1>6, <1>7, <1>8 DEF Work
<1> QED BY <1>4, <1>9

\* The draft model fails.
LEMMA DecodeAbortedStep ==
    ASSUME IInv, DecodeAborted
    PROVE  IInv'
<1> DEFINE S == {s \in Slots : Processing(s)}
<1>1. Decoded \in Work /\ Decoded.slot = slot /\ off + Len(View) \in Nat
  BY DecodedIs DEF IInv, Typed
<1>2. Quiet(ReleaseAll(Decoded, S))
  BY <1>1, QuietReleased
<1>3. GivenUp(ReleaseAll(Decoded, S), off + Len(View))
  BY DEF DecodeAborted
<1> QED BY <1>1, <1>2, <1>3, GivenUpStep

\* Children that wait have got what their parents have, or wait.
Copied ==
    {w \in Work : \A s \in Slots :
        IF slot[s].state # "WAIT_OTHER" THEN w.slot[s] = slot[s]
        ELSE Coherent(w.slot[s]) /\ w.slot[s].state # "GENERATING" /\ w.slot[s].task = slot[s].task}

\* copy_state_to.
LEMMA CopyStateIs ==
    ASSUME IInv, NEW f \in Families(Decoded), NEW w \in Copied
    PROVE  CopyState(w, f[1], f[2]) \in Copied
<1> DEFINE p  == f[1]
           c  == f[2]
           cl == SeqCp(SeqRm(w.cells, c, 0, -1), p, c)
           sp == IF p \in w.spoiled \cup Rest(off + Len(View)) THEN w.spoiled \cup {c} ELSE w.spoiled \ {c}
           tk == w.slot[p].tokens
           ib == w.slot[p].i_batch
           x  == [w.slot[c] EXCEPT !.tokens = tk, !.i_batch = ib, !.state = "DONE_PROMPT"]
           v  == CopyState(w, p, c)
<1>1. /\ p \in Slots /\ c \in Slots /\ slot[p].state = "DONE_PROMPT" /\ slot[c].state = "WAIT_OTHER"
      /\ slot[c].task.prompt = slot[p].task.prompt
  BY DecodedIs DEF Families
<1> HIDE DEF p, c
<1>2. w \in Work /\ w.slot[p] = slot[p] /\ w.slot[p] \in SlotType /\ w.slot[c] \in SlotType /\ Coherent(slot[p])
  BY <1>1, WorkParts DEF Copied, IInv
<1>3. Coherent(w.slot[c]) /\ w.slot[c].state # "GENERATING" /\ w.slot[c].task = slot[c].task
  BY <1>1 DEF Copied
<1>4. w.slot[p].tokens = w.slot[c].task.prompt
  BY <1>1, <1>2, <1>3 DEF Coherent
<1>5. x \in SlotType
  BY <1>2 DEF SlotType, States
<1>6. /\ x.state = "DONE_PROMPT" /\ x.tokens = w.slot[p].tokens /\ x.task = w.slot[c].task
      /\ x.out = w.slot[c].out /\ x.draft = w.slot[c].draft
  BY <1>2 DEF SlotType
<1>7. Coherent(x)
  <2> HIDE DEF x
  <2> QED BY <1>3, <1>4, <1>6 DEF Coherent
<1>8. cl \in SUBSET CellType /\ sp \in SUBSET Slots
  <2>1. w.cells \in SUBSET CellType /\ w.spoiled \in SUBSET Slots
    BY <1>2, WorkParts
  <2>2. SeqRm(w.cells, c, 0, -1) \in SUBSET CellType
    BY <1>1, <2>1, CellsType
  <2>3. cl \in SUBSET CellType
    BY <1>1, <2>2, CellsType
  <2> QED BY <1>1, <2>1, <2>3
<1>9. v = [w EXCEPT !.slot[c] = x, !.cells = cl, !.spoiled = sp]
  <2>1. v = [w EXCEPT !.slot[c].tokens = tk, !.slot[c].i_batch = ib,
                      !.slot[c].state = "DONE_PROMPT", !.cells = cl, !.spoiled = sp]
    BY DEF CopyState
  <2> HIDE DEF v, cl, sp, tk, ib
  <2>2. [w EXCEPT !.slot[c].tokens = tk, !.slot[c].i_batch = ib, !.slot[c].state = "DONE_PROMPT"] = [w EXCEPT !.slot[c] = x]
    BY <1>1, <1>2 DEF Work, SlotType
  <2>3. v = [[w EXCEPT !.slot[c].tokens = tk, !.slot[c].i_batch = ib, !.slot[c].state = "DONE_PROMPT"]
                EXCEPT !.cells = cl, !.spoiled = sp]
    BY <2>1
  <2> HIDE DEF x
  <2>4. v = [[w EXCEPT !.slot[c] = x] EXCEPT !.cells = cl, !.spoiled = sp]
    BY <2>2, <2>3
  <2> QED BY <2>4
<1> HIDE DEF x, v, cl, sp
<1>10. v \in Work /\ v.slot[c] = x /\ \A y \in Slots \ {c} : v.slot[y] = w.slot[y]
  BY <1>1, <1>2, <1>5, <1>8, <1>9 DEF Work
<1>11. ASSUME NEW s \in Slots
       PROVE  IF slot[s].state # "WAIT_OTHER" THEN v.slot[s] = slot[s]
              ELSE Coherent(v.slot[s]) /\ v.slot[s].state # "GENERATING" /\ v.slot[s].task = slot[s].task
  <2>1. CASE s = c
    BY <1>1, <1>3, <1>6, <1>7, <1>10, <2>1
  <2>2. CASE s # c
    <3>1. v.slot[s] = w.slot[s]
      BY <1>10, <2>2
    <3> QED BY <3>1 DEF Copied
  <2> QED BY <2>1, <2>2
<1>12. v \in Copied
  BY <1>10, <1>11 DEF Copied
<1> QED BY <1>12 DEF v, p, c

\* Every parent's child, one after the other: what holds after each of them holds in the end.
LEMMA CopiedRule ==
    ASSUME NEW b, NEW R, R \subseteq Slots \X Slots, NEW V, b \in V,
           \A f \in R, v \in V : CopyState(v, f[1], f[2]) \in V
    PROVE  FoldSet(LAMBDA f, w : CopyState(w, f[1], f[2]), b, R) \in V
<1> DEFINE All == FoldSet(LAMBDA f, w : CopyState(w, f[1], f[2]), b, R)
<1>a. IsFiniteSet(R)
  <2>1. IsFiniteSet(Slots)
    BY SlotsFinite
  <2>2. IsFiniteSet(Slots \X Slots)
    BY <2>1, FS_Product
  <2> QED BY <2>2, FS_Subset
<1> DEFINE F    == [p \in R \X V |-> CopyState(p[2], (p[1])[1], (p[1])[2])]
           ch   == [T \in (SUBSET R) \ {{}} |-> CHOOSE x \in T : TRUE]
           H    == {p \in (SUBSET R) \X V : TRUE}
           D(h) == [T \in SUBSET R |-> IF T = {} THEN b
                        ELSE CopyState(h[T \ {CHOOSE x \in T : TRUE}], (CHOOSE x \in T : TRUE)[1], (CHOOSE x \in T : TRUE)[2])]
           g    == CHOOSE h : h = D(h)
<1>1. F \in [R \X V -> V] /\ \A x \in R, v \in V : F[<<x, v>>] = CopyState(v, (x)[1], (x)[2])
  OBVIOUS
<1>2. <<{}, b>> \in H
  OBVIOUS
<1>3. ASSUME NEW T \in SUBSET R, NEW x \in T, NEW v \in V, <<T \ {x}, v>> \in H
      PROVE  <<T, F[<<x, v>>]>> \in H
  BY <1>1, <1>3
<1>4. Chooses(ch, R) /\ IsFiniteSet(R) /\ \A T \in (SUBSET R) \ {{}} : ch[T] = CHOOSE x \in T : TRUE
  BY <1>a, AnyChoice
<1> HIDE DEF F, ch, H
<1>5. /\ \E h : FoldsTo(h, ch, R, V, b, F)
      /\ \A h : GoesOn(h, ch, R, V, b, F) => h[R] \in V /\ <<R, h[R]>> \in H
  BY <1>1, <1>2, <1>3, <1>4, FoldIs
<1>6. PICK h : FoldsTo(h, ch, R, V, b, F)
  BY <1>5
<1>7. h = D(h)
  <2>1. \A T \in (SUBSET R) \ {{}} : h[T] = CopyState(h[T \ {ch[T]}], (ch[T])[1], (ch[T])[2])
    BY <1>1, <1>4, <1>6 DEF FoldsTo, Chooses
  <2> QED BY <1>4, <1>6, <2>1 DEF FoldsTo
<1>8. g = D(g)
  BY <1>7
<1> HIDE DEF g
<1>9. GoesOn(g, ch, R, V, b, F)
  <2>1. g[{}] = b
    BY <1>8
  <2>2. ASSUME NEW T \in (SUBSET R) \ {{}}, g[T \ {ch[T]}] \in V
        PROVE  g[T] = F[<<ch[T], g[T \ {ch[T]}]>>]
    <3>0. T # {} /\ T \in SUBSET R /\ ch[T] = CHOOSE x \in T : TRUE
      BY <1>4
    <3> DEFINE y == CHOOSE x \in T : TRUE
    <3>2. g[T] = CopyState(g[T \ {y}], y[1], y[2])
      BY <1>8, <3>0
    <3>1. g[T] = CopyState(g[T \ {ch[T]}], (ch[T])[1], (ch[T])[2])
      BY <3>0, <3>2
    <3> QED BY <1>1, <1>4, <2>2, <3>1 DEF Chooses
  <2> QED BY <2>1, <2>2 DEF GoesOn
<1>10. All = g[R]
  BY DEF FoldSet, MapThenFoldSet, g
<1>11. All \in V
  BY <1>5, <1>9, <1>10
<1> QED BY <1>11

\* The state of every parent is copied to its child.
LEMMA CopiedAll ==
    ASSUME IInv
    PROVE  FoldSet(LAMBDA f, w : CopyState(w, f[1], f[2]), Decoded, Families(Decoded)) \in Copied
<1>1. Decoded \in Copied
  <2>1. Decoded \in Work /\ Decoded.slot = slot
    BY DecodedIs
  <2>2. \A s \in Slots : Coherent(slot[s])
    BY DEF IInv
  <2> QED BY <2>1, <2>2 DEF Copied
<1>2. Families(Decoded) \subseteq Slots \X Slots
  BY DEF Families
<1> QED BY <1>1, <1>2, CopyStateIs, CopiedRule

\* The view is decoded.
LEMMA DecodeOkStep ==
    ASSUME IInv, DecodeOk
    PROVE  IInv'
<1> DEFINE w == FoldSet(LAMBDA f, v : CopyState(v, f[1], f[2]), Decoded, Families(Decoded))
<1>1. /\ pc = "decode" /\ pc' = "post" /\ turn' = 0 /\ view' = Len(View) /\ n_batch' = NBatch /\ batch' = batch
      /\ off' = off /\ Becomes(w)
  BY DEF DecodeOk
<1>2. w \in Copied
  BY CopiedAll
<1> HIDE DEF w
<1>3. w \in Work /\ Now' = w /\ slot' = w.slot
  BY <1>1, <1>2 DEF Copied, Becomes, Now, Work
<1>4. Typed'
  <2>1. Len(View) \in Nat /\ NBatch \in Nat /\ 0 \in Slots
    BY DecodedIs, SizesAssumption DEF Slots
  <2> QED BY <1>1, <1>3, <2>1 DEF IInv, Typed
<1>5. \A s \in Slots : Coherent(w.slot[s]) /\ (w.slot[s].state = "GENERATING" => w.slot[s] = slot[s])
  BY <1>2 DEF Copied, IInv
<1>6. (\A s \in Slots : Coherent(slot[s]))'
  BY <1>3, <1>5 DEF Coherent
<1>7. Flow'
  <2>1. ASSUME NEW s \in Slots, slot'[s].state = "GENERATING"
        PROVE  Rested(slot[s])' \/ Pending(slot[s])'
    <3>1. slot'[s] = slot[s] /\ slot[s].state = "GENERATING"
      BY <1>3, <1>5, <2>1
    <3>2. Rested(slot[s]) \/ Pending(slot[s])
      BY <1>1, <3>1 DEF IInv, Flow
    <3> QED BY <1>1, <3>1, <3>2 DEF Rested, Pending, PendingAt
  <2>2. \A s \in Slots : ~ (s < turn')
    BY <1>1 DEF Slots
  <2> QED BY <1>1, <2>1, <2>2 DEF Flow
<1> QED BY <1>4, <1>6, <1>7 DEF IInv

-----------------------------------------------------------------------------
(* post_decode.                                                            *)

\* What a slot has sampled last is in the batch, beyond the view.
Later(x) == PendingAt(x, off, Len(batch)) /\ x.draft = <<>> /\ off + view < x.i_batch

\* iterate() goes on from the slot at its turn, which is done with the view if it generates.
LEMMA PostStep ==
    ASSUME IInv, pc = "post", NEW w \in Work, Becomes(w), Next_View, n_batch' = n_batch,
           \A s \in Slots \ {turn} : w.slot[s] = slot[s],
           Coherent(w.slot[turn]),
           w.slot[turn].state = "GENERATING" => Rested(w.slot[turn]) \/ Later(w.slot[turn])
    PROVE  IInv'
<1>0. turn \in Slots /\ slot' = w.slot /\ batch \in Seq(TokType) /\ off \in Nat /\ view \in Nat /\ Len(batch) \in Nat
  BY DEF IInv, Typed, Becomes
<1>1. Now' = w
  BY DEF Becomes, Now, Work
<1>2. \/ turn < NumSlots - 1 /\ turn' = turn + 1 /\ UNCHANGED <<pc, batch, off, view>>
      \/ /\ ~ (turn < NumSlots - 1) /\ turn' = 0 /\ off + view < Len(batch)
         /\ pc' = "decode" /\ off' = off + view /\ view' = 0 /\ batch' = batch
      \/ /\ ~ (turn < NumSlots - 1) /\ turn' = 0 /\ ~ (off + view < Len(batch))
         /\ pc' = "tasks" /\ batch' = <<>> /\ off' = 0 /\ view' = 0
  BY DEF Next_View
<1>3. Typed'
  <2>1. turn' \in Slots
    <3>1. 0 \in Slots /\ (turn < NumSlots - 1 => turn + 1 \in Slots)
      BY <1>0, SizesAssumption DEF Slots
    <3> QED BY <1>2, <3>1
  <2>2. off' \in Nat /\ view' \in Nat /\ pc' \in {"tasks", "decode", "post"} /\ batch' \in Seq(TokType)
    <3>1. off + view \in Nat /\ <<>> \in Seq(TokType) /\ 0 \in Nat
      BY <1>0
    <3> QED BY <1>0, <1>2, <3>1
  <2> QED BY <1>1, <2>1, <2>2 DEF IInv, Typed
<1>4. (\A s \in Slots : Coherent(slot[s]))'
  BY <1>0 DEF IInv, Coherent
<1>5. ASSUME NEW s \in Slots, slot'[s].state = "GENERATING"
      PROVE  \/ Rested(slot'[s])
             \/ /\ PendingAt(slot'[s], off, Len(batch))
                /\ s <= turn => slot'[s].draft = <<>> /\ off + view < slot'[s].i_batch
  <2>1. CASE s = turn
    BY <1>0, <1>5, <2>1 DEF Later
  <2>2. CASE s # turn
    <3>1. slot'[s] = slot[s] /\ slot[s].state = "GENERATING" /\ (s <= turn => s < turn)
      BY <1>0, <1>5, <2>2 DEF Slots
    <3> QED BY <3>1 DEF IInv, Flow, Pending
  <2> QED BY <2>1, <2>2
<1>6. \A s \in Slots : slot'[s].i_batch \in Nat
  <2>1. \A s \in Slots : slot'[s] \in SlotType
    BY <1>0, WorkParts
  <2> QED BY <2>1, SlotParts
<1>7. CASE turn < NumSlots - 1 /\ turn' = turn + 1 /\ UNCHANGED <<pc, batch, off, view>>
  <2>1. \A s \in Slots : s < turn' => s <= turn
    BY <1>0, <1>7 DEF Slots
  <2>2. ASSUME NEW s \in Slots, slot'[s].state = "GENERATING"
        PROVE  \/ Rested(slot[s])'
               \/ Pending(slot[s])' /\ (s < turn' => slot'[s].draft = <<>> /\ off' + view' < slot'[s].i_batch)
    BY <1>5, <1>7, <2>1, <2>2 DEF Pending, PendingAt, Rested
  <2>3. Flow'
    BY <1>7, <2>2 DEF Flow
  <2> QED BY <1>3, <1>4, <2>3 DEF IInv
<1>8. ASSUME ~ (turn < NumSlots - 1), NEW s \in Slots
      PROVE  s <= turn
  BY <1>0, <1>8, SizesAssumption DEF Slots
<1>9. CASE /\ ~ (turn < NumSlots - 1) /\ turn' = 0 /\ off + view < Len(batch)
           /\ pc' = "decode" /\ off' = off + view /\ view' = 0 /\ batch' = batch
  <2>1. ASSUME NEW s \in Slots, slot'[s].state = "GENERATING"
        PROVE  Rested(slot[s])' \/ Pending(slot[s])'
    <3>1. Rested(slot'[s]) \/ (PendingAt(slot'[s], off, Len(batch)) /\ off + view < slot'[s].i_batch)
      BY <1>5, <1>8, <1>9, <2>1
    <3>2. PendingAt(slot'[s], off, Len(batch)) /\ off + view < slot'[s].i_batch => PendingAt(slot'[s], off', Len(batch'))
      BY <1>9, Zenon DEF PendingAt
    <3> QED BY <3>1, <3>2 DEF Rested, Pending
  <2>2. Flow'
    BY <1>9, <2>1 DEF Flow
  <2> QED BY <1>3, <1>4, <2>2 DEF IInv
<1>10. CASE /\ ~ (turn < NumSlots - 1) /\ turn' = 0 /\ ~ (off + view < Len(batch))
            /\ pc' = "tasks" /\ batch' = <<>> /\ off' = 0 /\ view' = 0
  <2>1. ASSUME NEW s \in Slots, slot'[s].state = "GENERATING"
        PROVE  Rested(slot[s])'
    <3>1. Rested(slot'[s]) \/ (slot'[s].i_batch <= Len(batch) /\ off + view < slot'[s].i_batch)
      BY <1>5, <1>8, <1>10, <2>1 DEF PendingAt
    <3>2. ~ (slot'[s].i_batch <= Len(batch) /\ off + view < slot'[s].i_batch)
      BY <1>0, <1>6, <1>10
    <3> QED BY <3>1, <3>2 DEF Rested
  <2>2. Flow'
    BY <1>10, <2>1 DEF Flow
  <2> QED BY <1>3, <1>4, <2>2 DEF IInv
<1> QED BY <1>2, <1>7, <1>9, <1>10

\* The slot at its turn.
LEMMA AtTurn ==
    ASSUME IInv
    PROVE  /\ turn \in Slots /\ Now \in Work /\ Now.slot = slot /\ slot[turn] \in SlotType /\ Coherent(slot[turn])
           /\ off \in Nat /\ view \in Nat /\ slot[turn].i_batch \in Nat
           /\ pc = "post" /\ slot[turn].state = "GENERATING" => Rested(slot[turn]) \/ PendingAt(slot[turn], off, Len(batch))
<1>1. turn \in Slots /\ Now \in Work /\ Now.slot = slot /\ off \in Nat /\ view \in Nat
  BY CalmNow DEF IInv, Typed
<1>2. slot[turn] \in SlotType
  BY <1>1, WorkParts
<1>3. slot[turn].i_batch \in Nat
  BY <1>2, SlotParts
<1> QED BY <1>1, <1>2, <1>3 DEF IInv, Flow, Pending

\* The slot at its turn has nothing in the view.
LEMMA PostSkipStep ==
    ASSUME IInv, PostSkip
    PROVE  IInv'
<1>1. /\ pc = "post" /\ ~Drafting(turn) /\ ~Samples(turn) /\ Next_View /\ Becomes(Now) /\ n_batch' = n_batch
  BY DEF PostSkip, Becomes, Now
<1>2. slot[turn].state = "GENERATING" => Rested(slot[turn]) \/ Later(slot[turn])
  <2>1. SUFFICES ASSUME slot[turn].state = "GENERATING", PendingAt(slot[turn], off, Len(batch))
                 PROVE  Later(slot[turn])
    BY <1>1, AtTurn
  <2>2. slot[turn].draft = <<>> /\ ~InView(slot[turn].i_batch)
    BY <1>1, <2>1 DEF Drafting, Samples
  <2>3. off < slot[turn].i_batch
    BY <2>1 DEF PendingAt
  <2>4. off + view < slot[turn].i_batch
    BY <2>2, <2>3, AtTurn DEF InView
  <2> QED BY <2>1, <2>2, <2>4 DEF Later
<1> QED BY <1>1, <1>2, AtTurn, PostStep

\* What the slot at its turn sampled cannot be handled.
LEMMA PostThrowsStep ==
    ASSUME IInv, PostThrows
    PROVE  IInv'
<1>1. pc = "post" /\ Becomes(Release(Now, turn)) /\ Next_View /\ n_batch' = n_batch
  BY DEF PostThrows
<1>2. /\ Release(Now, turn) \in Work
      /\ \A s \in Slots \ {turn} : Release(Now, turn).slot[s] = slot[s]
  BY AtTurn, ReleaseIs
<1>3. Coherent(Release(Now, turn).slot[turn]) /\ Release(Now, turn).slot[turn].state = "IDLE"
  BY AtTurn, CalmNow, CalmRelease
<1> QED BY <1>1, <1>2, <1>3, PostStep

\* A slot generates what follows its prompt and what it has generated before.
LEMMA GeneratedIs ==
    ASSUME NEW w \in Work, NEW s \in Slots, NEW new \in Seq(Sampled), w.slot[s].out \o new # <<>>,
           ~w.slot[s].truncated => w.slot[s].tokens = w.slot[s].task.prompt \o Front(w.slot[s].out \o new),
           NEW v \in Generated(w, s, new)
    PROVE  /\ v \in Work
           /\ \A y \in Slots \ {s} : v.slot[y] = w.slot[y]
           /\ Coherent(v.slot[s])
           /\ v.slot[s].state = "GENERATING" => Rested(v.slot[s])
<1> DEFINE out  == w.slot[s].out \o new
           z    == [w.slot[s] EXCEPT !.out = out, !.state = "GENERATING", !.draft = <<>>, !.i_batch = 0]
           more == [w EXCEPT !.slot[s].out = out, !.slot[s].state = "GENERATING",
                             !.slot[s].draft = <<>>, !.slot[s].i_batch = 0]
<1>1. w.slot[s] \in SlotType /\ out \in Seq(Sampled)
  <2>1. w.slot[s] \in SlotType
    BY WorkParts
  <2>2. w.slot[s].out \in Seq(Sampled)
    BY <2>1, SlotParts
  <2> QED BY <2>1, <2>2
<1>2. v \in {Release(more, s), more}
  BY DEF Generated
<1>3. out # <<>> /\ (~w.slot[s].truncated => w.slot[s].tokens = w.slot[s].task.prompt \o Front(out))
  OBVIOUS
<1> HIDE DEF out
<1>4. z \in SlotType
  <2>1. <<>> \in Seq(Sampled) /\ 0 \in Nat /\ "GENERATING" \in States
    BY DEF States
  <2> QED BY <1>1, <2>1 DEF SlotType
<1>5. more = [w EXCEPT !.slot[s] = z]
  BY <1>1, ZenonT(40) DEF Work, SlotType
<1>6. /\ z.out = out /\ z.state = "GENERATING" /\ z.draft = <<>> /\ z.i_batch = 0 /\ z.truncated = w.slot[s].truncated
      /\ z.tokens = w.slot[s].tokens /\ z.task = w.slot[s].task
  BY <1>1 DEF SlotType
<1> HIDE DEF z, more
<1>7. more \in Work /\ more.slot[s] = z /\ \A y \in Slots \ {s} : more.slot[y] = w.slot[y]
  BY <1>4, <1>5 DEF Work
<1>8. Coherent(z) /\ Rested(z)
  BY <1>3, <1>6 DEF Coherent, Rested
<1>9. CASE v = more
  BY <1>7, <1>8, <1>9
<1>10. CASE v = Release(more, s)
  <2>1. /\ v \in Work
        /\ \A y \in Slots \ {s} : v.slot[y] = more.slot[y]
        /\ \E tokens \in Seq(Token) : v.slot[s] = [Fresh EXCEPT !.tokens = tokens]
    BY <1>7, <1>10, ReleaseIs
  <2>2. PICK tokens \in Seq(Token) : v.slot[s] = [Fresh EXCEPT !.tokens = tokens]
    BY <2>1
  <2>3. Coherent(v.slot[s]) /\ v.slot[s].state = "IDLE"
    BY <2>2, IdleCoherent
  <2> QED BY <1>7, <2>1, <2>3
<1> QED BY <1>2, <1>9, <1>10

\* The front of a sequence with one more element.
LEMMA FrontOf ==
    ASSUME NEW T, NEW q \in Seq(T), NEW e \in T
    PROVE  Front(q \o <<e>>) = q /\ q \o <<e>> # <<>>
<1> DEFINE r == q \o <<e>>
<1>1. <<e>> \in Seq(T) /\ Len(<<e>>) = 1 /\ Len(q) \in Nat
  OBVIOUS
<1>2. r \in Seq(T) /\ Len(r) = Len(q) + 1 /\ \A i \in 1 .. Len(q) : r[i] = q[i]
  <2>1. r \in Seq(T) /\ Len(r) = Len(q) + Len(<<e>>)
        /\ \A i \in 1 .. Len(q) + Len(<<e>>) : r[i] = IF i <= Len(q) THEN q[i] ELSE <<e>>[i - Len(q)]
    BY <1>1, ConcatProperties
  <2> HIDE DEF r
  <2> QED BY <1>1, <2>1
<1> HIDE DEF r
<1>3. Len(r) - 1 = Len(q) /\ Len(q) <= Len(r) /\ r # <<>>
  BY <1>1, <1>2
<1>4. SubSeq(r, 1, Len(q)) \in Seq(T) /\ Len(SubSeq(r, 1, Len(q))) = Len(q)
      /\ \A i \in 1 .. Len(q) : SubSeq(r, 1, Len(q))[i] = r[i]
  BY <1>1, <1>2, <1>3, StartOf
<1>5. SubSeq(r, 1, Len(q)) = q
  <2> DEFINE u == SubSeq(r, 1, Len(q))
  <2>1. u \in Seq(T) /\ Len(u) = Len(q) /\ \A i \in 1 .. Len(q) : u[i] = q[i]
    BY <1>2, <1>4
  <2> HIDE DEF u
  <2>2. u = q
    BY <2>1, SeqEqual
  <2> QED BY <2>2 DEF u
<1>6. Front(r) = q /\ r # <<>>
  BY <1>3, <1>5 DEF Front
<1> QED BY <1>6 DEF r

\* The slot at its turn samples a token.
LEMMA SampleStep ==
    ASSUME IInv, Sample
    PROVE  IInv'
<1> DEFINE x == slot[turn]
<1>1. PICK t \in Sampled : \E w \in Generated(Now, turn, <<t>>) : Becomes(w)
  BY DEF Sample
<1>2. PICK w \in Generated(Now, turn, <<t>>) : Becomes(w)
  BY <1>1
<1>3. pc = "post" /\ Samples(turn) /\ Next_View /\ n_batch' = n_batch
  BY DEF Sample
<1>4. turn \in Slots /\ Now \in Work /\ Now.slot = slot /\ x \in SlotType /\ Coherent(x)
  BY AtTurn
<1>5. x.out \in Seq(Sampled) /\ x.tokens \in Seq(Token) /\ x.task.prompt \in Seq(Token) /\ Sampled \subseteq Token
  BY <1>4, SlotParts DEF TaskType, Token
<1>6. Front(x.out \o <<t>>) = x.out /\ x.out \o <<t>> # <<>>
  BY <1>5, FrontOf
<1>7. ~x.truncated => x.tokens = x.task.prompt \o x.out
  <2>1. CASE x.state = "DONE_PROMPT"
    <3>1. x.out = <<>> /\ x.tokens = x.task.prompt
      BY <1>4, <2>1 DEF Coherent
    <3> QED BY <1>5, <3>1
  <2>2. CASE x.state = "GENERATING"
    <3>1. x.draft = <<>> /\ InView(x.i_batch)
      BY <1>3 DEF Samples, Drafting
    <3>2. ~Rested(x)
      <4>1. x.i_batch # 0
        BY <3>1, AtTurn DEF InView
      <4> QED BY <4>1 DEF Rested
    <3>3. PendingAt(x, off, Len(batch))
      BY <1>3, <2>2, <3>2, AtTurn
    <3>4. ~x.truncated => x.tokens = (x.task.prompt \o x.out) \o <<>>
      BY <3>1, <3>3 DEF PendingAt
    <3>5. x.task.prompt \o x.out \in Seq(Token)
      BY <1>5
    <3>6. (x.task.prompt \o x.out) \o <<>> = x.task.prompt \o x.out
      BY <3>5, ConcatEmptySeq
    <3> QED BY <3>4, <3>6
  <2> QED BY <1>3, <2>1, <2>2 DEF Samples
<1>8. /\ w \in Work
      /\ \A y \in Slots \ {turn} : w.slot[y] = Now.slot[y]
      /\ Coherent(w.slot[turn])
      /\ w.slot[turn].state = "GENERATING" => Rested(w.slot[turn])
  <2>1. <<t>> \in Seq(Sampled)
    OBVIOUS
  <2>2. /\ Now.slot[turn].out \o <<t>> # <<>>
        /\ ~Now.slot[turn].truncated =>
              Now.slot[turn].tokens = Now.slot[turn].task.prompt \o Front(Now.slot[turn].out \o <<t>>)
    BY <1>4, <1>6, <1>7
  <2> QED BY <1>4, <2>1, <2>2, GeneratedIs
<1> QED BY <1>2, <1>3, <1>4, <1>8, PostStep

\* What was before a sequence.
LEMMA StartOfConcat ==
    ASSUME NEW T, NEW a \in Seq(T), NEW d \in Seq(T)
    PROVE  SubSeq(a \o d, 1, Len(a \o d) - Len(d)) = a
<1> DEFINE r == a \o d
           n == Len(r) - Len(d)
<1>1. Len(a) \in Nat /\ Len(d) \in Nat
  OBVIOUS
<1>2. r \in Seq(T) /\ Len(r) = Len(a) + Len(d) /\ \A i \in 1 .. Len(a) : r[i] = a[i]
  <2>1. r \in Seq(T) /\ Len(r) = Len(a) + Len(d)
        /\ \A i \in 1 .. Len(a) + Len(d) : r[i] = IF i <= Len(a) THEN a[i] ELSE d[i - Len(a)]
    BY ConcatProperties
  <2> HIDE DEF r
  <2> QED BY <1>1, <2>1
<1> HIDE DEF r
<1>3. n = Len(a) /\ n \in Nat /\ n <= Len(r)
  BY <1>1, <1>2
<1> HIDE DEF n
<1>4. SubSeq(r, 1, n) \in Seq(T) /\ Len(SubSeq(r, 1, n)) = n /\ \A i \in 1 .. n : SubSeq(r, 1, n)[i] = r[i]
  BY <1>2, <1>3, StartOf
<1>5. SubSeq(r, 1, n) = a
  <2> DEFINE u == SubSeq(r, 1, n)
  <2>1. u \in Seq(T) /\ Len(u) = Len(a) /\ \A i \in 1 .. Len(a) : u[i] = a[i]
    BY <1>2, <1>3, <1>4
  <2> HIDE DEF u
  <2>2. u = a
    BY <2>1, SeqEqual
  <2> QED BY <2>2 DEF u
<1> QED BY <1>5 DEF r, n

\* Of the draft the first k tokens stay.
LEMMA AcceptedIs ==
    ASSUME NEW w \in Work, NEW s \in Slots, NEW k \in 0 .. Len(w.slot[s].draft)
    PROVE  /\ Accepted(w, s, k) \in Work
           /\ \A y \in Slots \ {s} : Accepted(w, s, k).slot[y] = w.slot[y]
           /\ Accepted(w, s, k).slot[s] =
                 [w.slot[s] EXCEPT !.tokens = SubSeq(@, 1, Len(@) - Len(w.slot[s].draft)) \o SubSeq(w.slot[s].draft, 1, k)]
           /\ SubSeq(w.slot[s].draft, 1, k) \in Seq(Sampled)
<1> DEFINE x     == w.slot[s]
           n     == Len(x.tokens) - Len(x.draft)
           taken == SubSeq(x.draft, 1, k)
           start == SubSeq(x.tokens, 1, n)
           z     == [x EXCEPT !.tokens = start \o taken]
           rest  == SeqRm(w.cells, s, n + k, -1)
           v     == Accepted(w, s, k)
<1>1. x \in SlotType /\ x.tokens \in Seq(Token) /\ x.draft \in Seq(Sampled) /\ Len(x.tokens) \in Nat /\ Len(x.draft) \in Nat
  <2>1. x \in SlotType
    BY WorkParts
  <2>2. x.tokens \in Seq(Token) /\ x.draft \in Seq(Sampled)
    BY <2>1, SlotParts
  <2> QED BY <2>1, <2>2
<1>2. n \in Int /\ n <= Len(x.tokens) /\ k \in Nat /\ k <= Len(x.draft)
  <2> DEFINE l == Len(x.tokens)
             d == Len(x.draft)
  <2>1. k \in 0 .. d /\ l \in Nat /\ d \in Nat
    BY <1>1
  <2> HIDE DEF l, d
  <2>2. l - d \in Int /\ l - d <= l /\ k \in Nat /\ k <= d
    BY <2>1
  <2> QED BY <2>2 DEF l, d
<1>3. start \in Seq(Token) /\ taken \in Seq(Sampled)
  BY <1>1, <1>2, PartOf
<1>4. start \o taken \in Seq(Token)
  <2>1. Sampled \subseteq Token
    BY DEF Token
  <2>2. taken \in Seq(Token)
    BY <1>3, <2>1
  <2> HIDE DEF start, taken
  <2> QED BY <1>3, <2>2
<1>5. z \in SlotType
  BY <1>1, <1>4, SlotParts
<1>6. rest \in SUBSET CellType
  BY WorkParts, CellsType
<1>7. v = [w EXCEPT !.slot[s].tokens = start \o taken, !.cells = rest]
  BY DEF Accepted
<1> HIDE DEF rest, v
<1>8. v = [w EXCEPT !.slot[s] = z, !.cells = rest]
  <2> HIDE DEF start, taken
  <2> QED BY <1>1, <1>7 DEF Work, SlotType
<1>9. z = [w.slot[s] EXCEPT !.tokens = SubSeq(@, 1, Len(@) - Len(w.slot[s].draft)) \o SubSeq(w.slot[s].draft, 1, k)]
  BY <1>1 DEF SlotType
<1> HIDE DEF z
<1>10. v \in Work /\ v.slot[s] = z /\ \A y \in Slots \ {s} : v.slot[y] = w.slot[y]
  BY <1>5, <1>6, <1>8 DEF Work
<1> QED BY <1>3, <1>9, <1>10 DEF v

\* A draft is accepted in part, and the rest is taken back.
LEMMA VerifyStep ==
    ASSUME IInv, Verify
    PROVE  IInv'
<1> DEFINE x == slot[turn]
<1>1. PICK k \in 0 .. Len(x.draft), t \in Sampled :
         \E w \in Generated(Accepted(Now, turn, k), turn, SubSeq(x.draft, 1, k) \o <<t>>) : Becomes(w)
  BY DEF Verify
<1> DEFINE acc   == Accepted(Now, turn, k)
           taken == SubSeq(x.draft, 1, k)
           new   == taken \o <<t>>
           start == SubSeq(x.tokens, 1, Len(x.tokens) - Len(x.draft))
           old   == x.task.prompt \o x.out
<1>2. PICK w \in Generated(acc, turn, new) : Becomes(w)
  BY <1>1
<1>3. pc = "post" /\ x.draft # <<>> /\ DraftInView(turn) /\ Next_View /\ n_batch' = n_batch
  BY DEF Verify, Drafting
<1>4. turn \in Slots /\ Now \in Work /\ Now.slot = slot /\ x \in SlotType /\ Coherent(x)
  BY AtTurn
<1>5. /\ x.out \in Seq(Sampled) /\ x.tokens \in Seq(Token) /\ x.draft \in Seq(Sampled)
      /\ x.task.prompt \in Seq(Token) /\ Sampled \subseteq Token
  BY <1>4, SlotParts DEF TaskType, Token
<1>6. /\ acc \in Work /\ \A y \in Slots \ {turn} : acc.slot[y] = slot[y]
      /\ acc.slot[turn] = [x EXCEPT !.tokens = start \o taken]
      /\ taken \in Seq(Sampled)
  <2>1. k \in 0 .. Len(Now.slot[turn].draft)
    BY <1>4
  <2>2. /\ Accepted(Now, turn, k) \in Work
        /\ \A y \in Slots \ {turn} : Accepted(Now, turn, k).slot[y] = Now.slot[y]
        /\ Accepted(Now, turn, k).slot[turn] =
              [Now.slot[turn] EXCEPT !.tokens = SubSeq(@, 1, Len(@) - Len(Now.slot[turn].draft))
                                                    \o SubSeq(Now.slot[turn].draft, 1, k)]
        /\ SubSeq(Now.slot[turn].draft, 1, k) \in Seq(Sampled)
    BY <1>4, <2>1, AcceptedIs
  <2> QED BY <1>4, <2>2
<1>7. /\ acc.slot[turn].out = x.out /\ acc.slot[turn].task = x.task /\ acc.slot[turn].truncated = x.truncated
      /\ acc.slot[turn].tokens = start \o taken
  BY <1>4, <1>6 DEF SlotType
<1>8. x.state = "GENERATING" /\ PendingAt(x, off, Len(batch))
  <2>1. x.state = "GENERATING"
    BY <1>3, <1>4 DEF Coherent
  <2> QED BY <1>3, <2>1, AtTurn DEF Rested
<1>9. <<t>> \in Seq(Sampled) /\ new \in Seq(Sampled)
  <2>1. <<t>> \in Seq(Sampled)
    OBVIOUS
  <2> HIDE DEF taken
  <2> QED BY <1>6, <2>1
<1>10. Front(x.out \o new) = x.out \o taken /\ x.out \o new # <<>>
  <2> DEFINE q == x.out \o taken
  <2>1. x.out \o new = q \o <<t>> /\ q \in Seq(Sampled)
    <3>1. x.out \in Seq(Sampled) /\ taken \in Seq(Sampled) /\ <<t>> \in Seq(Sampled)
      BY <1>5, <1>6, <1>9
    <3> DEFINE o == x.out
               d == taken
               e == <<t>>
    <3>2. o \in Seq(Sampled) /\ d \in Seq(Sampled) /\ e \in Seq(Sampled)
      BY <3>1
    <3> HIDE DEF o, d, e
    <3>3. o \o (d \o e) = (o \o d) \o e /\ o \o d \in Seq(Sampled)
      BY <3>2, SMTT(30)
    <3> QED BY <3>3 DEF o, d, e
  <2> HIDE DEF q, new
  <2>2. Front(q \o <<t>>) = q /\ q \o <<t>> # <<>>
    BY <2>1, FrontOf
  <2> QED BY <2>1, <2>2 DEF q
<1>11. ~x.truncated => start \o taken = x.task.prompt \o (x.out \o taken)
  <2>1. SUFFICES ASSUME ~x.truncated
                 PROVE  start \o taken = x.task.prompt \o (x.out \o taken)
    OBVIOUS
  <2>2. x.tokens = old \o x.draft
    BY <1>8, <2>1 DEF PendingAt
  <2>3. old \in Seq(Token) /\ x.draft \in Seq(Token) /\ taken \in Seq(Token) /\ x.out \in Seq(Token)
    <3> HIDE DEF taken
    <3> QED BY <1>5, <1>6
  <2>4. start = old
    <3> HIDE DEF old
    <3> QED BY <2>2, <2>3, StartOfConcat
  <2>5. old \o taken = x.task.prompt \o (x.out \o taken)
    <3>1. x.task.prompt \in Seq(Token) /\ x.out \in Seq(Token) /\ taken \in Seq(Token)
      BY <1>5, <2>3
    <3> DEFINE p == x.task.prompt
               o == x.out
               d == taken
    <3>2. p \in Seq(Token) /\ o \in Seq(Token) /\ d \in Seq(Token)
      BY <3>1
    <3> HIDE DEF p, o, d
    <3>3. (p \o o) \o d = p \o (o \o d)
      BY <3>2
    <3> QED BY <3>3 DEF p, o, d
  <2> QED BY <2>4, <2>5
<1> HIDE DEF acc, taken, start, old
<1>12. /\ w \in Work
       /\ \A y \in Slots \ {turn} : w.slot[y] = acc.slot[y]
       /\ Coherent(w.slot[turn])
       /\ w.slot[turn].state = "GENERATING" => Rested(w.slot[turn])
  <2>1. /\ acc.slot[turn].out \o new # <<>>
        /\ ~acc.slot[turn].truncated =>
              acc.slot[turn].tokens = acc.slot[turn].task.prompt \o Front(acc.slot[turn].out \o new)
    BY <1>7, <1>10, <1>11
  <2> HIDE DEF new
  <2> QED BY <1>2, <1>4, <1>6, <1>9, <2>1, GeneratedIs
<1> QED BY <1>2, <1>3, <1>4, <1>6, <1>12, PostStep

-----------------------------------------------------------------------------
(* Every state.                                                            *)

\* A server starts rested.
LEMMA InitInv == Init => IInv
<1>1. SUFFICES ASSUME Init
               PROVE  IInv
  OBVIOUS
<1>2. Fresh \in SlotType
  <2>1. NoTask \in TaskType /\ "IDLE" \in States
    BY DEF NoTask, TaskType, States
  <2> QED BY <2>1 DEF Fresh, SlotType
<1>3. Typed
  <2>1. slot \in [Slots -> SlotType] /\ cells \in SUBSET CellType /\ saved \in Seq(SavedType) /\ spoiled \in SUBSET Slots
    BY <1>1, <1>2 DEF Init
  <2>2. Now \in Work
    BY <2>1 DEF Now, Work
  <2>3. turn \in Slots /\ batch \in Seq(TokType) /\ off \in Nat /\ view \in Nat /\ n_batch \in Nat
    BY <1>1, SizesAssumption DEF Init, Slots
  <2> QED BY <1>1, <2>2, <2>3 DEF Init, Typed
<1>4. \A s \in Slots : slot[s].state = "IDLE" /\ Coherent(slot[s])
  <2>1. \A s \in Slots : slot[s] = Fresh
    BY <1>1 DEF Init
  <2>2. Fresh.state = "IDLE" /\ Fresh.out = <<>> /\ Fresh.draft = <<>>
    BY DEF Fresh
  <2> QED BY <2>1, <2>2 DEF Coherent
<1>5. Flow
  BY <1>1, <1>4 DEF Init, Flow
<1> QED BY <1>3, <1>4, <1>5 DEF IInv

\* Every step, by the lemma of its action.
LEMMA NextInv == IInv /\ [Next]_vars => IInv'
<1>1. ASSUME IInv, UNCHANGED vars
      PROVE  IInv'
  <2>1. /\ UNCHANGED <<slot, pc, turn, batch, off, view, n_batch>>
        /\ UNCHANGED <<cells, saved, spoiled>>
    BY <1>1 DEF vars
  <2>2. Typed'
    <3>1. Now' = Now
      BY <2>1 DEF Now
    <3> QED BY <1>1, <2>1, <3>1 DEF IInv, Typed
  <2>3. (\A s \in Slots : Coherent(slot[s]))'
    BY <1>1, <2>1 DEF IInv, Coherent
  <2>4. Flow'
    <3>1. \A s \in Slots : /\ Rested(slot[s])' <=> Rested(slot[s])
                          /\ Pending(slot[s])' <=> Pending(slot[s])
      BY <2>1 DEF Rested, Pending, PendingAt
    <3>2. Flow
      BY <1>1 DEF IInv
    <3> QED BY <2>1, <3>1, <3>2 DEF Flow
  <2> QED BY <2>2, <2>3, <2>4 DEF IInv
<1>2. ASSUME IInv, Loop
      PROVE  IInv'
  <2>1. ASSUME NEW s \in Slots, ShiftRefused(s) \/ Generate(s) \/ PromptRefused(s) \/ Abort(s) \/ Prompt(s)
        PROVE  IInv'
    BY <1>2, <2>1, ShiftRefusedStep, GenerateStep, PromptRefusedStep, AbortStep, PromptStep
  <2>2. CASE Update \/ Skip
    BY <1>2, <2>2, UpdateStep, SkipStep
  <2>3. CASE DecodeFatal \/ DecodeNoSpace \/ DecodeOk \/ DecodeAborted
    BY <1>2, <2>3, DecodeFatalStep, DecodeNoSpaceStep, DecodeOkStep, DecodeAbortedStep
  <2>4. CASE PostSkip \/ PostThrows \/ Sample \/ Verify
    BY <1>2, <2>4, PostSkipStep, PostThrowsStep, SampleStep, VerifyStep
  <2> QED BY <1>2, <2>1, <2>2, <2>3, <2>4 DEF Loop
<1>3. ASSUME IInv, NEW s \in Slots, Cancel(s) \/ Erase(s) \/ \E t \in Tasks : Launch(t, s) \/ Decline(t, s)
      PROVE  IInv'
  BY <1>3, CancelStep, EraseStep, LaunchStep, DeclineStep
<1> QED BY <1>1, <1>2, <1>3 DEF Next

\* What every state of a server satisfies: what the slots remember as the server goes
\* from task to task and through the batch, and that everything has its type.
THEOREM SpecInv == Spec => []IInv
BY InitInv, NextInv, PTL DEF Spec

\* What a slot goes on from is its own prompt and what it has generated, without the last
\* token, whatever drafts were taken back and whatever is launched, saved, loaded, copied
\* or cleared around it.
THEOREM SpecGoesOnFromItsPrompt == Spec => []GoesOnFromItsPrompt
<1>1. IInv => GoesOnFromItsPrompt
  BY DEF IInv, Coherent, Flow, Rested, GoesOnFromItsPrompt
<1> QED BY <1>1, SpecInv, PTL

-----------------------------------------------------------------------------
(* The cache has the tokens that a slot remembers, for any tasks, slots    *)
(* and sizes.                                                              *)
(*                                                                         *)
(* While a batch is on its way the cache has the tokens of a slot but for  *)
(* those that are ahead in the batch: the last ones of the slot, in a row  *)
(* (Spans).  A slot that works on a prompt or generates has nothing else   *)
(* in the cache (Exact); one that is idle may have more, beyond what it    *)
(* remembers.  An operation on one slot leaves the cells of the others as  *)
(* they were, or counts them among the spoiled (Leaves).                   *)

\* The first n tokens, each at its position.
Firsts(tokens, n) == {[tok |-> tokens[j], pos |-> j - 1] : j \in 1 .. n}

\* The tokens of slot s in the batch b beyond the o that are done: none, or the last ones
\* that the slot remembers, from lo to hi.
Spans(s, x, b, o, lo, hi) ==
    /\ lo \in Nat /\ hi \in Nat /\ o < lo /\ lo <= hi + 1 /\ hi - lo < Len(x.tokens)
    /\ hi >= lo => hi <= Len(b)
    /\ \A j \in o + 1 .. Len(b) : b[j].slot = s <=> lo <= j /\ j <= hi
    /\ \A j \in lo .. hi : LET i == Len(x.tokens) - (hi - j) IN b[j].pos = i - 1 /\ b[j].tok = x.tokens[i]

\* A slot whose cells are its tokens and nothing else.
Strict(x) == x.state \in {"PROCESSING_PROMPT", "DONE_PROMPT", "GENERATING"}

\* The cells d of slot s are its tokens but for those that are ahead.
HoldsBut(x, d, lo, hi) ==
    LET n == Len(x.tokens) - (hi - lo + 1)
    IN  /\ Holds(d, x.tokens, n)
        /\ hi >= lo \/ Strict(x) => d = Firsts(x.tokens, n)

\* What is ahead of the slot ends at the token it samples next; before its prompt is
\* looked at there is nothing.
Reaches(x, lo, hi) ==
    hi >= lo => /\ x.state \notin {"STARTED", "WAIT_OTHER"}
                /\ x.state \in {"DONE_PROMPT", "GENERATING"} => hi = x.i_batch + Len(x.draft)

\* Slot s remembers what the cache and the batch have of it, or nothing at all.
Fine(s, x, d, bad, b, o) ==
    \/ x.state = "IDLE" /\ x.tokens = <<>>
    \/ \E lo, hi \in Nat : /\ Spans(s, x, b, o, lo, hi) /\ Reaches(x, lo, hi)
                           /\ ~bad => HoldsBut(x, d, lo, hi)

\* A draft is what the slot remembers last; a prompt that is being read fits the context.
Apt(x) ==
    /\ x.state = "GENERATING" =>
          /\ Len(x.draft) <= Len(x.tokens)
          /\ \A j \in 1 .. Len(x.draft) : x.tokens[Len(x.tokens) - Len(x.draft) + j] = x.draft[j]
    /\ x.state = "PROCESSING_PROMPT" => Len(x.task.prompt) < NCtx
    /\ Len(x.tokens) < NCtx

\* What is in the cache and what was saved is within bounds, and a saved prompt is whole.
Sound(all) == IsFiniteSet(all) /\ Cardinality(all) <= NumCells /\ \A c \in all : c.pos < NCtx /\ c.seqs # {}
Whole(e) ==
    /\ Len(e.tokens) < NCtx /\ IsFiniteSet(e.cells) /\ \A d \in e.cells : d.pos < NCtx
    /\ ~e.bad => Holds(e.cells, e.tokens, Len(e.tokens))

\* The tokens of the batch that are done.
Done == IF pc = "post" THEN off + view ELSE off

\* Which slots are in the batch, as iterate() goes from slot to slot.
Visited ==
    \A j \in DOMAIN batch : LET s == batch[j].slot IN
       /\ pc # "tasks"
       /\ pc = "gen" => s < turn /\ slot[s].state = "GENERATING"
       /\ pc = "prompt" => s < turn \/ slot[s].state = "GENERATING"

\* Where decoding is.
Counts ==
    /\ n_batch >= 1 /\ n_batch <= NBatch /\ off + view <= Len(batch)
    /\ pc # "post" => view = 0
    /\ \A j \in DOMAIN batch : batch[j].pos < NCtx

\* What the slots remember, the cache, and what was saved, when o tokens of the batch b are done.
Content(w, b, o) ==
    /\ w \in Work /\ Sound(w.cells) /\ \A i \in DOMAIN w.saved : Whole(w.saved[i])
    /\ \A s \in Slots : Apt(w.slot[s]) /\ Fine(s, w.slot[s], Data(w.cells, s), s \in w.spoiled, b, o)

\* What holds at every point of update_slots.
CInv == IInv /\ Counts /\ Visited /\ Content(Now, batch, Done)

-----------------------------------------------------------------------------
(* The memory.                                                             *)

\* What the cache has of a sequence, cell by cell.
LEMMA DataIs ==
    ASSUME NEW all \in SUBSET CellType, NEW s \in Slots
    PROVE  /\ Within(all, s, 0, -1) = {c \in all : s \in c.seqs}
           /\ Data(all, s) = {[tok |-> c.tok, pos |-> c.pos] : c \in {c \in all : s \in c.seqs}}
           /\ \A d : d \in Data(all, s) <=> \E c \in all : s \in c.seqs /\ d = [tok |-> c.tok, pos |-> c.pos]
<1>1. \A c \in all : c.pos \in Nat
  BY DEF CellType
<1>2. Within(all, s, 0, -1) = {c \in all : s \in c.seqs}
  BY <1>1 DEF Within
<1> QED BY <1>2 DEF Data

\* The same, without the cells in between.
LEMMA DataHas ==
    ASSUME NEW all \in SUBSET CellType, NEW s \in Slots, NEW d
    PROVE  d \in Data(all, s) <=> \E c \in all : s \in c.seqs /\ d = [tok |-> c.tok, pos |-> c.pos]
<1>1. Data(all, s) = {[tok |-> c.tok, pos |-> c.pos] : c \in {c \in all : s \in c.seqs}}
  BY DataIs
<1> QED BY <1>1

\* What a move of a position leaves out and in.
In(d, p0, p1) == d.pos >= p0 /\ (p1 # -1 => d.pos < p1)

\* seq_rm takes the positions from one sequence, and nothing from another.
LEMMA DataSeqRm ==
    ASSUME NEW all \in SUBSET CellType, NEW s \in Slots, NEW p0, NEW p1
    PROVE  /\ Data(SeqRm(all, s, p0, p1), s) = {d \in Data(all, s) : ~In(d, p0, p1)}
           /\ \A t \in Slots \ {s} : Data(SeqRm(all, s, p0, p1), t) = Data(all, t)
<1> DEFINE gone == Within(all, s, p0, p1)
           new  == SeqRm(all, s, p0, p1)
<1>1. gone \subseteq all /\ \A c \in all : c \in gone <=> s \in c.seqs /\ In(c, p0, p1)
  BY DEF Within, In
<1>2. new \in SUBSET CellType
  BY CellsType
<1>3. \A c : c \in new <=> \/ c \in all /\ c \notin gone
                           \/ c.seqs # {} /\ \E b \in gone : c = [b EXCEPT !.seqs = @ \ {s}]
  BY DEF SeqRm
<1> HIDE DEF new, gone
<1>4. \A d : d \in Data(new, s) <=> d \in Data(all, s) /\ ~In(d, p0, p1)
  <2>1. ASSUME NEW c \in new, s \in c.seqs
        PROVE  c \in all /\ ~In(c, p0, p1)
    <3>1. ASSUME NEW b \in gone, c = [b EXCEPT !.seqs = @ \ {s}]
          PROVE  FALSE
      BY <1>1, <2>1, <3>1 DEF CellType
    <3> QED BY <1>1, <1>3, <2>1, <3>1
  <2>2. ASSUME NEW c \in all, s \in c.seqs, ~In(c, p0, p1)
        PROVE  c \in new
    BY <1>1, <1>3, <2>2
  <2>3. \A c : In([tok |-> c.tok, pos |-> c.pos], p0, p1) <=> In(c, p0, p1)
    BY DEF In
  <2> QED BY <1>2, <2>1, <2>2, <2>3, DataHas
<1>5. ASSUME NEW t \in Slots \ {s}, NEW d
      PROVE  d \in Data(new, t) <=> d \in Data(all, t)
  <2>1. ASSUME NEW c \in new, t \in c.seqs
        PROVE  \E b \in all : t \in b.seqs /\ b.tok = c.tok /\ b.pos = c.pos
    <3>1. ASSUME NEW b \in gone, c = [b EXCEPT !.seqs = @ \ {s}]
          PROVE  t \in b.seqs /\ b.tok = c.tok /\ b.pos = c.pos
      BY <1>1, <2>1, <3>1 DEF CellType
    <3> QED BY <1>1, <1>3, <2>1, <3>1
  <2>2. ASSUME NEW b \in all, t \in b.seqs
        PROVE  \E c \in new : t \in c.seqs /\ b.tok = c.tok /\ b.pos = c.pos
    <3>1. CASE b \in gone
      <4> DEFINE c == [b EXCEPT !.seqs = @ \ {s}]
      <4>1. t \in c.seqs /\ c.tok = b.tok /\ c.pos = b.pos
        BY <2>2 DEF CellType
      <4> HIDE DEF c
      <4>2. c \in new
        BY <1>3, <3>1, <4>1 DEF c
      <4> QED BY <4>1, <4>2
    <3>2. CASE b \notin gone
      BY <1>3, <2>2, <3>2
    <3> QED BY <3>1, <3>2
  <2>3. /\ d \in Data(new, t) <=> \E c \in new : t \in c.seqs /\ d = [tok |-> c.tok, pos |-> c.pos]
        /\ d \in Data(all, t) <=> \E b \in all : t \in b.seqs /\ d = [tok |-> b.tok, pos |-> b.pos]
    BY <1>2, DataHas
  <2> QED BY <2>1, <2>2, <2>3
<1>6. Data(new, s) = {d \in Data(all, s) : ~In(d, p0, p1)}
  BY <1>4
<1>7. \A t \in Slots \ {s} : Data(new, t) = Data(all, t)
  BY <1>5
<1> QED BY <1>6, <1>7 DEF new

\* seq_cp gives the cells of one sequence to another as well.
LEMMA DataSeqCp ==
    ASSUME NEW all \in SUBSET CellType, NEW p \in Slots, NEW c \in Slots
    PROVE  /\ Data(SeqCp(all, p, c), c) = Data(all, p) \cup Data(all, c)
           /\ \A t \in Slots \ {c} : Data(SeqCp(all, p, c), t) = Data(all, t)
<1> DEFINE own == {x \in all : p \in x.seqs}
           new == SeqCp(all, p, c)
<1>1. new \in SUBSET CellType /\ Within(all, p, 0, -1) = own
  BY CellsType, DataIs
<1>2. \A x : x \in new <=> \/ x \in all /\ x \notin own
                           \/ \E b \in own : x = [b EXCEPT !.seqs = @ \cup {c}]
  BY <1>1 DEF SeqCp
<1> HIDE DEF new
<1>3. ASSUME NEW t \in Slots, NEW x \in new, t \in x.seqs
      PROVE  \E b \in all : /\ b.tok = x.tok /\ b.pos = x.pos
                            /\ t \in b.seqs \/ (t = c /\ p \in b.seqs)
  <2>1. ASSUME NEW b \in own, x = [b EXCEPT !.seqs = @ \cup {c}]
        PROVE  b.tok = x.tok /\ b.pos = x.pos /\ (t \in b.seqs \/ (t = c /\ p \in b.seqs))
    BY <1>3, <2>1 DEF CellType
  <2> QED BY <1>2, <1>3, <2>1
<1>4. ASSUME NEW t \in Slots, NEW b \in all, t \in b.seqs \/ (t = c /\ p \in b.seqs)
      PROVE  \E x \in new : t \in x.seqs /\ b.tok = x.tok /\ b.pos = x.pos
  <2>1. CASE b \in own
    <3> DEFINE x == [b EXCEPT !.seqs = @ \cup {c}]
    <3>1. t \in x.seqs /\ x.tok = b.tok /\ x.pos = b.pos
      BY <1>4 DEF CellType
    <3> HIDE DEF x
    <3>2. x \in new
      BY <1>2, <2>1 DEF x
    <3> QED BY <3>1, <3>2
  <2>2. CASE b \notin own
    BY <1>2, <1>4, <2>2
  <2> QED BY <2>1, <2>2
<1>5. \A d : d \in Data(new, c) <=> d \in Data(all, p) \/ d \in Data(all, c)
  BY <1>1, <1>3, <1>4, DataHas
<1>6. \A t \in Slots \ {c} : \A d : d \in Data(new, t) <=> d \in Data(all, t)
  BY <1>1, <1>3, <1>4, DataHas, SMTT(60)
<1>7. Data(new, c) = Data(all, p) \cup Data(all, c)
  BY <1>5
<1>8. \A t \in Slots \ {c} : Data(new, t) = Data(all, t)
  BY <1>6
<1> QED BY <1>7, <1>8 DEF new

\* seq_add moves the cells of one sequence,
LEMMA DataAddOwn ==
    ASSUME NEW all \in SUBSET CellType, NEW s \in Slots, NEW p0, NEW p1, NEW delta \in Int
    PROVE  \A d : d \in Data(SeqAdd(all, s, p0, p1, delta), s) <=>
              \/ d \in Data(all, s) /\ ~In(d, p0, p1)
              \/ \E e \in Data(all, s) : In(e, p0, p1) /\ e.pos + delta >= 0 /\ d = [tok |-> e.tok, pos |-> e.pos + delta]
<1> DEFINE moved == Within(all, s, p0, p1)
           new   == SeqAdd(all, s, p0, p1, delta)
<1>1. moved \subseteq all /\ \A c \in all : c \in moved <=> s \in c.seqs /\ In(c, p0, p1)
  BY DEF Within, In
<1>2. new \in SUBSET CellType
  BY CellsType
<1>3. \A c : c \in new <=> \/ c \in all /\ c \notin moved
                           \/ c.pos >= 0 /\ \E b \in moved : c = [b EXCEPT !.pos = @ + delta]
  BY DEF SeqAdd
<1> HIDE DEF new, moved
<1>4. ASSUME NEW d
      PROVE  d \in Data(new, s) <=>
                 \/ d \in Data(all, s) /\ ~In(d, p0, p1)
                 \/ \E e \in Data(all, s) : In(e, p0, p1) /\ e.pos + delta >= 0 /\ d = [tok |-> e.tok, pos |-> e.pos + delta]
  <2>0. \A c : In([tok |-> c.tok, pos |-> c.pos], p0, p1) <=> In(c, p0, p1)
    BY DEF In
  <2>1. ASSUME NEW c \in new, s \in c.seqs, d = [tok |-> c.tok, pos |-> c.pos]
        PROVE  \/ d \in Data(all, s) /\ ~In(d, p0, p1)
               \/ \E e \in Data(all, s) : In(e, p0, p1) /\ e.pos + delta >= 0 /\ d = [tok |-> e.tok, pos |-> e.pos + delta]
    <3>1. CASE c \in all /\ c \notin moved
      BY <1>1, <2>0, <2>1, <3>1, DataHas
    <3>2. ASSUME c.pos >= 0, NEW b \in moved, c = [b EXCEPT !.pos = @ + delta]
          PROVE  \E e \in Data(all, s) : In(e, p0, p1) /\ e.pos + delta >= 0 /\ d = [tok |-> e.tok, pos |-> e.pos + delta]
      <4> DEFINE e == [tok |-> b.tok, pos |-> b.pos]
      <4>1. b \in all /\ s \in b.seqs /\ In(b, p0, p1) /\ b \in CellType
        BY <1>1, <3>2
      <4>2. e \in Data(all, s) /\ In(e, p0, p1)
        BY <2>0, <4>1, DataHas
      <4>3. c.pos = b.pos + delta /\ c.tok = b.tok
        BY <3>2, <4>1 DEF CellType
      <4>4. d = [tok |-> e.tok, pos |-> e.pos + delta] /\ e.pos + delta >= 0
        BY <2>1, <3>2, <4>3
      <4> QED BY <4>2, <4>4
    <3> QED BY <1>3, <3>1, <3>2
  <2>2. ASSUME d \in Data(all, s), ~In(d, p0, p1)
        PROVE  d \in Data(new, s)
    BY <1>1, <1>2, <1>3, <2>0, <2>2, DataHas
  <2>3. ASSUME NEW e \in Data(all, s), In(e, p0, p1), e.pos + delta >= 0, d = [tok |-> e.tok, pos |-> e.pos + delta]
        PROVE  d \in Data(new, s)
    <3>1. PICK b \in all : s \in b.seqs /\ e = [tok |-> b.tok, pos |-> b.pos]
      BY DataHas
    <3> DEFINE c == [b EXCEPT !.pos = @ + delta]
    <3>2. b \in moved /\ b \in CellType
      BY <1>1, <2>0, <2>3, <3>1
    <3>3. c.pos = b.pos + delta /\ c.tok = b.tok /\ c.seqs = b.seqs
      BY <3>2 DEF CellType
    <3>4. c.pos >= 0 /\ d = [tok |-> c.tok, pos |-> c.pos]
      BY <2>3, <3>1, <3>3
    <3>5. c \in new
      BY <1>3, <3>2, <3>4
    <3> HIDE DEF c
    <3> QED BY <1>2, <3>1, <3>3, <3>4, <3>5, DataHas
  <2>4. d \in Data(new, s) => \E c \in new : s \in c.seqs /\ d = [tok |-> c.tok, pos |-> c.pos]
    BY <1>2, DataHas
  <2> QED BY <2>1, <2>2, <2>3, <2>4
<1> QED BY <1>4 DEF new

\* and with them those of its sharers alone.
LEMMA AddOthers ==
    ASSUME NEW all \in SUBSET CellType, NEW s \in Slots, NEW p0, NEW p1, NEW delta \in Int,
           NEW t \in Slots \ {s}, t \notin Sharers(all, s, p0, p1)
    PROVE  Data(SeqAdd(all, s, p0, p1, delta), t) = Data(all, t)
<1> DEFINE moved == Within(all, s, p0, p1)
           new   == SeqAdd(all, s, p0, p1, delta)
<1>1. moved \subseteq all /\ \A c \in all : c \in moved <=> s \in c.seqs /\ In(c, p0, p1)
  BY DEF Within, In
<1>2. new \in SUBSET CellType
  BY CellsType
<1>3. \A c : c \in new <=> \/ c \in all /\ c \notin moved
                           \/ c.pos >= 0 /\ \E b \in moved : c = [b EXCEPT !.pos = @ + delta]
  BY DEF SeqAdd
<1>4. \A c \in moved : t \notin c.seqs
  BY DEF Sharers
<1> HIDE DEF new, moved
<1>5. ASSUME NEW c \in new, t \in c.seqs
      PROVE  c \in all
  <2>1. ASSUME NEW b \in moved, c = [b EXCEPT !.pos = @ + delta]
        PROVE  FALSE
    BY <1>1, <1>4, <1>5, <2>1 DEF CellType
  <2> QED BY <1>3, <2>1
<1>6. ASSUME NEW c \in all, t \in c.seqs
      PROVE  c \in new
  BY <1>3, <1>4, <1>6
<1>7. \A d : d \in Data(new, t) <=> d \in Data(all, t)
  BY <1>2, <1>5, <1>6, DataHas
<1>8. Data(new, t) = Data(all, t)
  BY <1>7
<1> QED BY <1>8 DEF new

\* A move by nothing.
LEMMA AddNothing ==
    ASSUME NEW all \in SUBSET CellType, NEW s \in Slots, NEW p0, NEW p1
    PROVE  SeqAdd(all, s, p0, p1, 0) = all
<1> DEFINE moved == Within(all, s, p0, p1)
           new   == SeqAdd(all, s, p0, p1, 0)
<1>1. moved \subseteq all
  BY DEF Within
<1>2. \A c : c \in new <=> \/ c \in all /\ c \notin moved
                           \/ c.pos >= 0 /\ \E b \in moved : c = [b EXCEPT !.pos = @ + 0]
  BY DEF SeqAdd
<1>3. \A b \in moved : [b EXCEPT !.pos = @ + 0] = b /\ b.pos >= 0
  BY <1>1 DEF CellType
<1>4. \A c : c \in new <=> c \in all
  <2> HIDE DEF new, moved
  <2> QED BY <1>1, <1>2, <1>3
<1> QED BY <1>4

\* A set that another one is mapped onto is not larger.
LEMMA NoMore ==
    ASSUME NEW S, IsFiniteSet(S), NEW V, NEW f \in [S -> V], NEW N, \A y \in N : \E x \in S : y = f[x]
    PROVE  IsFiniteSet(N) /\ Cardinality(N) \in Nat /\ Cardinality(N) <= Cardinality(S)
<1> DEFINE R == {f[x] : x \in S}
<1>1. f \in [S -> R]
  <2>1. \A x \in S : f[x] \in R
    OBVIOUS
  <2> HIDE DEF R
  <2> QED BY <2>1
<1>2. \A y \in R : \E x \in S : f[x] = y
  OBVIOUS
<1>3. N \subseteq R
  OBVIOUS
<1> HIDE DEF R
<1>4. f \in Surjection(S, R)
  BY <1>1, <1>2 DEF Surjection
<1>5. IsFiniteSet(R) /\ Cardinality(R) <= Cardinality(S)
  BY <1>4, FS_Surjection
<1>6. IsFiniteSet(N) /\ Cardinality(N) <= Cardinality(R)
  BY <1>3, <1>5, FS_Subset
<1>7. Cardinality(S) \in Nat /\ Cardinality(R) \in Nat /\ Cardinality(N) \in Nat
  BY <1>5, <1>6, FS_CardinalityType
<1> QED BY <1>5, <1>6, <1>7

\* The cells that a change of some cells makes.
LEMMA SoundChange ==
    ASSUME NEW all, Sound(all), NEW V, NEW f \in [all -> V], NEW new,
           \A y \in new : y.pos < NCtx /\ y.seqs # {} /\ \E x \in all : y = f[x]
    PROVE  Sound(new)
<1>1. IsFiniteSet(new) /\ Cardinality(new) \in Nat /\ Cardinality(new) <= Cardinality(all)
  BY NoMore DEF Sound
<1>2. Cardinality(all) \in Nat /\ Cardinality(all) <= NumCells /\ NumCells \in Nat
  BY FS_CardinalityType, SizesAssumption DEF Sound
<1>3. Cardinality(new) <= NumCells
  BY <1>1, <1>2
<1> QED BY <1>1, <1>3 DEF Sound

\* seq_rm, seq_cp and a seq_add that moves to the front keep the cache within its bounds.
LEMMA SoundCells ==
    ASSUME NEW all \in SUBSET CellType, Sound(all), NEW s \in Slots
    PROVE  /\ \A p0, p1 : Sound(SeqRm(all, s, p0, p1))
           /\ \A d \in Slots : Sound(SeqCp(all, s, d))
           /\ \A p0, p1 : \A delta \in Int : delta <= 0 => Sound(SeqAdd(all, s, p0, p1, delta))
<1>1. ASSUME NEW p0, NEW p1
      PROVE  Sound(SeqRm(all, s, p0, p1))
  <2> DEFINE gone == Within(all, s, p0, p1)
             f    == [c \in all |-> IF c \in gone THEN [c EXCEPT !.seqs = @ \ {s}] ELSE c]
             new  == SeqRm(all, s, p0, p1)
  <2>1. gone \subseteq all
    BY DEF Within
  <2>2. \A c : c \in new <=> \/ c \in all /\ c \notin gone
                             \/ c.seqs # {} /\ \E b \in gone : c = [b EXCEPT !.seqs = @ \ {s}]
    BY DEF SeqRm
  <2>3. \A c \in all : [c EXCEPT !.seqs = @ \ {s}].pos = c.pos
    BY DEF CellType
  <2> HIDE DEF gone, new
  <2>4. ASSUME NEW y \in new
        PROVE  y.pos < NCtx /\ y.seqs # {} /\ \E x \in all : y = f[x]
    <3>1. CASE y \in all /\ y \notin gone
      BY <3>1 DEF Sound
    <3>2. ASSUME y.seqs # {}, NEW b \in gone, y = [b EXCEPT !.seqs = @ \ {s}]
          PROVE  y.pos < NCtx /\ y.seqs # {} /\ \E x \in all : y = f[x]
      <4>1. b \in all /\ y = f[b] /\ y.pos = b.pos
        BY <2>1, <2>3, <3>2
      <4> HIDE DEF f
      <4> QED BY <3>2, <4>1 DEF Sound
    <3> QED BY <2>2, <3>1, <3>2
  <2>5. f \in [all -> [tok : Token, pos : Int, seqs : SUBSET Slots]]
    BY DEF CellType
  <2> HIDE DEF f
  <2>6. Sound(new)
    BY <2>4, <2>5, SoundChange
  <2> QED BY <2>6 DEF new
<1>2. ASSUME NEW d \in Slots
      PROVE  Sound(SeqCp(all, s, d))
  <2> DEFINE own == Within(all, s, 0, -1)
             f   == [c \in all |-> IF c \in own THEN [c EXCEPT !.seqs = @ \cup {d}] ELSE c]
             new == SeqCp(all, s, d)
  <2>1. own \subseteq all
    BY DEF Within
  <2>2. \A c : c \in new <=> \/ c \in all /\ c \notin own
                             \/ \E b \in own : c = [b EXCEPT !.seqs = @ \cup {d}]
    BY DEF SeqCp
  <2>3. \A c \in all : [c EXCEPT !.seqs = @ \cup {d}].pos = c.pos /\ [c EXCEPT !.seqs = @ \cup {d}].seqs # {}
    BY DEF CellType
  <2> HIDE DEF own, new
  <2>4. ASSUME NEW y \in new
        PROVE  y.pos < NCtx /\ y.seqs # {} /\ \E x \in all : y = f[x]
    <3>1. CASE y \in all /\ y \notin own
      BY <3>1 DEF Sound
    <3>2. ASSUME NEW b \in own, y = [b EXCEPT !.seqs = @ \cup {d}]
          PROVE  y.pos < NCtx /\ y.seqs # {} /\ \E x \in all : y = f[x]
      <4>1. b \in all /\ y = f[b] /\ y.pos = b.pos /\ y.seqs # {}
        BY <2>1, <2>3, <3>2
      <4> HIDE DEF f
      <4> QED BY <4>1 DEF Sound
    <3> QED BY <2>2, <3>1, <3>2
  <2>5. f \in [all -> [tok : Token, pos : Int, seqs : SUBSET Slots]]
    BY DEF CellType
  <2> HIDE DEF f
  <2>6. Sound(new)
    BY <2>4, <2>5, SoundChange
  <2> QED BY <2>6 DEF new
<1>3. ASSUME NEW p0, NEW p1, NEW delta \in Int, delta <= 0
      PROVE  Sound(SeqAdd(all, s, p0, p1, delta))
  <2> DEFINE moved == Within(all, s, p0, p1)
             f     == [c \in all |-> IF c \in moved THEN [c EXCEPT !.pos = @ + delta] ELSE c]
             new   == SeqAdd(all, s, p0, p1, delta)
  <2>1. moved \subseteq all
    BY DEF Within
  <2>2. \A c : c \in new <=> \/ c \in all /\ c \notin moved
                             \/ c.pos >= 0 /\ \E b \in moved : c = [b EXCEPT !.pos = @ + delta]
    BY DEF SeqAdd
  <2>3. \A c \in all : /\ c.pos \in Nat /\ [c EXCEPT !.pos = @ + delta].pos = c.pos + delta
                       /\ [c EXCEPT !.pos = @ + delta].seqs = c.seqs
    BY DEF CellType
  <2> HIDE DEF moved, new
  <2>4. ASSUME NEW y \in new
        PROVE  y.pos < NCtx /\ y.seqs # {} /\ \E x \in all : y = f[x]
    <3>1. CASE y \in all /\ y \notin moved
      BY <3>1 DEF Sound
    <3>2. ASSUME NEW b \in moved, y = [b EXCEPT !.pos = @ + delta]
          PROVE  y.pos < NCtx /\ y.seqs # {} /\ \E x \in all : y = f[x]
      <4>1. b \in all /\ y = f[b] /\ y.pos = b.pos + delta /\ y.seqs = b.seqs /\ b.pos \in Nat
        BY <2>1, <2>3, <3>2
      <4>2. b.pos < NCtx /\ b.seqs # {} /\ NCtx \in Nat
        BY <4>1, SizesAssumption DEF Sound
      <4> HIDE DEF f
      <4>3. y.pos < NCtx
        BY <1>3, <4>1, <4>2
      <4> QED BY <4>1, <4>2, <4>3
    <3> QED BY <2>2, <3>1, <3>2
  <2>5. f \in [all -> [tok : Token, pos : Int, seqs : SUBSET Slots]]
    BY DEF CellType
  <2> HIDE DEF f
  <2>6. Sound(new)
    BY <2>4, <2>5, SoundChange
  <2> QED BY <2>6 DEF new
<1> QED BY <1>1, <1>2, <1>3

-----------------------------------------------------------------------------
(* What a slot has in the cache.                                           *)

\* The first tokens, one by one.
LEMMA FirstsAre ==
    ASSUME NEW tokens \in Seq(Token), NEW n \in Nat, n <= Len(tokens)
    PROVE  /\ \A e : e \in Firsts(tokens, n) <=> \E j \in 1 .. n : e = [tok |-> tokens[j], pos |-> j - 1]
           /\ Firsts(tokens, n) \in SUBSET DataType
           /\ \A e \in Firsts(tokens, n) : e.pos \in Nat /\ e.pos < n /\ e = [tok |-> tokens[e.pos + 1], pos |-> e.pos]
           /\ \A p \in Nat : p < n => [tok |-> tokens[p + 1], pos |-> p] \in Firsts(tokens, n)
<1>1. \A e : e \in Firsts(tokens, n) <=> \E j \in 1 .. n : e = [tok |-> tokens[j], pos |-> j - 1]
  BY DEF Firsts
<1>2. \A j \in 1 .. n : tokens[j] \in Token /\ j - 1 \in Nat /\ j - 1 < n /\ (j - 1) + 1 = j
  BY ElementOfSeq
<1>3. Firsts(tokens, n) \in SUBSET DataType
  BY <1>1, <1>2 DEF DataType
<1>4. \A e \in Firsts(tokens, n) : e.pos \in Nat /\ e.pos < n /\ e = [tok |-> tokens[e.pos + 1], pos |-> e.pos]
  BY <1>1, <1>2
<1>5. \A p \in Nat : p < n => [tok |-> tokens[p + 1], pos |-> p] \in Firsts(tokens, n)
  <2>1. ASSUME NEW p \in Nat, p < n
        PROVE  [tok |-> tokens[p + 1], pos |-> p] \in Firsts(tokens, n)
    <3>1. p + 1 \in 1 .. n /\ (p + 1) - 1 = p
      BY <2>1
    <3> QED BY <1>1, <3>1
  <2> QED BY <2>1
<1> QED BY <1>1, <1>3, <1>4, <1>5

\* Two sequences that start alike.
LEMMA FirstsAlike ==
    ASSUME NEW a, NEW b, NEW n \in Nat, \A j \in 1 .. n : a[j] = b[j]
    PROVE  Firsts(a, n) = Firsts(b, n) /\ \A d : Holds(d, a, n) <=> Holds(d, b, n)
<1>1. Firsts(a, n) = Firsts(b, n)
  BY DEF Firsts
<1> QED BY <1>1 DEF Holds, Firsts

\* Holding the first n.
LEMMA HoldsIs ==
    ASSUME NEW d, NEW tokens, NEW n
    PROVE  Holds(d, tokens, n) <=> {e \in d : e.pos < n} = Firsts(tokens, n)
BY DEF Holds, Firsts

\* Having the first n and nothing else.
LEMMA FirstsHold ==
    ASSUME NEW tokens \in Seq(Token), NEW n \in Nat, n <= Len(tokens)
    PROVE  Holds(Firsts(tokens, n), tokens, n)
<1>1. {e \in Firsts(tokens, n) : e.pos < n} = Firsts(tokens, n)
  BY FirstsAre
<1> QED BY <1>1, HoldsIs

\* What holds the first n holds the first m of them.
LEMMA HoldsLess ==
    ASSUME NEW d \in SUBSET DataType, NEW tokens \in Seq(Token), NEW n \in Nat, n <= Len(tokens), Holds(d, tokens, n),
           NEW m \in Nat, m <= n
    PROVE  Holds(d, tokens, m)
<1>1. {e \in d : e.pos < n} = Firsts(tokens, n)
  BY HoldsIs
<1>2. \A e \in d : e.pos \in Nat
  BY DEF DataType
<1>3. Len(tokens) \in Nat /\ m <= Len(tokens)
  BY LenProperties
<1>4. ASSUME NEW e \in d, e.pos < m
      PROVE  e \in Firsts(tokens, m)
  <2>1. e \in Firsts(tokens, n)
    BY <1>1, <1>2, <1>4
  <2>2. e = [tok |-> tokens[e.pos + 1], pos |-> e.pos]
    BY <2>1, FirstsAre
  <2> QED BY <1>2, <1>3, <1>4, <2>2, FirstsAre
<1>5. ASSUME NEW e \in Firsts(tokens, m)
      PROVE  e \in d /\ e.pos < m
  <2>1. e.pos \in Nat /\ e.pos < m /\ e = [tok |-> tokens[e.pos + 1], pos |-> e.pos]
    BY <1>3, <1>5, FirstsAre
  <2>2. e \in Firsts(tokens, n)
    BY <2>1, FirstsAre
  <2> QED BY <1>1, <2>1, <2>2
<1>6. {e \in d : e.pos < m} = Firsts(tokens, m)
  BY <1>4, <1>5
<1> QED BY <1>6, HoldsIs

\* A slot with nothing ahead in the batch.
Backed(x, d, bad) ==
    ~bad => /\ Holds(d, x.tokens, Len(x.tokens))
            /\ Strict(x) => d = Firsts(x.tokens, Len(x.tokens))

\* Nothing of slot s is in the batch b beyond o.
Clean(s, b, o) == \A j \in o + 1 .. Len(b) : b[j].slot # s

\* Nothing is remembered: nothing is promised.
LEMMA HoldsNothing ==
    ASSUME NEW d \in SUBSET DataType
    PROVE  Holds(d, <<>>, 0) /\ Firsts(<<>>, 0) = {}
<1>1. {e \in d : e.pos < 0} = {}
  BY DEF DataType
<1>2. Firsts(<<>>, 0) = {}
  BY DEF Firsts
<1> QED BY <1>1, <1>2, HoldsIs

\* With nothing ahead the cache has all that the slot remembers.
LEMMA FineIsBacked ==
    ASSUME NEW s \in Slots, NEW x \in SlotType, NEW d \in SUBSET DataType, NEW bad \in BOOLEAN,
           NEW b \in Seq(TokType), NEW o \in Nat, Clean(s, b, o)
    PROVE  Fine(s, x, d, bad, b, o) <=> Backed(x, d, bad)
<1>0. x.tokens \in Seq(Token) /\ Len(x.tokens) \in Nat /\ Len(b) \in Nat
  BY SlotParts, LenProperties
<1>1. CASE x.state = "IDLE" /\ x.tokens = <<>>
  <2>1. Holds(d, x.tokens, Len(x.tokens)) /\ ~Strict(x)
    BY <1>1, HoldsNothing DEF Strict
  <2> QED BY <1>1, <2>1 DEF Fine, Backed
<1>2. ASSUME NEW lo \in Nat, NEW hi \in Nat, Spans(s, x, b, o, lo, hi), ~bad => HoldsBut(x, d, lo, hi)
      PROVE  Backed(x, d, bad)
  <2>1. hi = lo - 1
    <3>1. o < lo /\ lo <= hi + 1
      BY <1>2 DEF Spans
    <3>2. hi >= lo => hi <= Len(b) /\ lo \in o + 1 .. Len(b)
      BY <1>0, <1>2, <3>1 DEF Spans
    <3>3. hi >= lo => b[lo].slot = s
      BY <1>2, <3>2 DEF Spans
    <3>4. ~(hi >= lo)
      BY <3>2, <3>3 DEF Clean
    <3> QED BY <3>1, <3>4
  <2>2. Len(x.tokens) - (hi - lo + 1) = Len(x.tokens)
    BY <1>0, <2>1
  <2> QED BY <1>2, <2>2 DEF HoldsBut, Backed
<1>3. ASSUME Backed(x, d, bad)
      PROVE  Fine(s, x, d, bad, b, o)
  <2> DEFINE lo == o + 1
             hi == o
  <2>1. lo \in Nat /\ hi \in Nat /\ o < lo /\ lo <= hi + 1 /\ hi - lo < Len(x.tokens) /\ ~(hi >= lo)
    BY <1>0
  <2>2. Len(x.tokens) - (hi - lo + 1) = Len(x.tokens)
    BY <1>0
  <2>3. \A j \in o + 1 .. Len(b) : b[j].slot = s <=> lo <= j /\ j <= hi
    BY <1>0 DEF Clean
  <2>4. \A j \in lo .. hi : FALSE
    BY <2>1
  <2> HIDE DEF lo, hi
  <2>5. Spans(s, x, b, o, lo, hi) /\ Reaches(x, lo, hi)
    BY <2>1, <2>3, <2>4 DEF Spans, Reaches
  <2>6. ~bad => HoldsBut(x, d, lo, hi)
    BY <1>3, <2>1, <2>2 DEF Backed, HoldsBut
  <2> QED BY <2>1, <2>5, <2>6 DEF Fine
<1> QED BY <1>1, <1>2, <1>3 DEF Fine

\* A slot whose part of the cache is the same, or counts as spoiled.
LEMMA FineChange ==
    ASSUME NEW s, NEW x, NEW d, NEW e, NEW bad, NEW worse, NEW b, NEW o,
           Fine(s, x, d, bad, b, o), ~worse => ~bad /\ e = d
    PROVE  Fine(s, x, e, worse, b, o)
BY DEF Fine

\* A slot that is released remembers what it has.
LEMMA FineReleased ==
    ASSUME NEW s, NEW x, NEW y, NEW d, NEW bad, NEW b, NEW o,
           Fine(s, x, d, bad, b, o), y.state = "IDLE", y.tokens = x.tokens
    PROVE  Fine(s, y, d, bad, b, o)
<1>1. CASE x.state = "IDLE" /\ x.tokens = <<>>
  BY <1>1 DEF Fine
<1>2. ASSUME NEW lo \in Nat, NEW hi \in Nat, Spans(s, x, b, o, lo, hi), ~bad => HoldsBut(x, d, lo, hi)
      PROVE  Fine(s, y, d, bad, b, o)
  <2>1. Spans(s, y, b, o, lo, hi)
    BY <1>2 DEF Spans
  <2>2. Reaches(y, lo, hi)
    BY DEF Reaches
  <2>3. ~bad => HoldsBut(y, d, lo, hi)
    BY <1>2 DEF HoldsBut, Strict
  <2> QED BY <2>1, <2>2, <2>3 DEF Fine
<1> QED BY <1>1, <1>2 DEF Fine

\* A batch that grows by tokens of others.
LEMMA FineGrows ==
    ASSUME NEW s, NEW x, NEW d, NEW bad, NEW b \in Seq(TokType), NEW o \in Nat, Fine(s, x, d, bad, b, o),
           NEW c \in Seq(TokType), Len(b) <= Len(c), \A j \in 1 .. Len(b) : c[j] = b[j], Clean(s, c, Len(b))
    PROVE  Fine(s, x, d, bad, c, o)
<1>0. Len(b) \in Nat /\ Len(c) \in Nat
  BY LenProperties
<1>1. CASE x.state = "IDLE" /\ x.tokens = <<>>
  BY <1>1 DEF Fine
<1>2. ASSUME NEW lo \in Nat, NEW hi \in Nat, Spans(s, x, b, o, lo, hi), Reaches(x, lo, hi), ~bad => HoldsBut(x, d, lo, hi)
      PROVE  Fine(s, x, d, bad, c, o)
  <2>1. /\ o < lo /\ lo <= hi + 1 /\ hi - lo < Len(x.tokens) /\ (hi >= lo => hi <= Len(b))
        /\ \A j \in o + 1 .. Len(b) : b[j].slot = s <=> lo <= j /\ j <= hi
        /\ \A j \in lo .. hi : LET i == Len(x.tokens) - (hi - j) IN b[j].pos = i - 1 /\ b[j].tok = x.tokens[i]
    BY <1>2 DEF Spans
  <2>2. \A j \in o + 1 .. Len(c) : c[j].slot = s <=> lo <= j /\ j <= hi
    <3>1. ASSUME NEW j \in o + 1 .. Len(c)
          PROVE  c[j].slot = s <=> lo <= j /\ j <= hi
      <4>1. CASE j <= Len(b)
        BY <1>0, <2>1, <4>1
      <4>2. CASE j > Len(b)
        <5>1. c[j].slot # s
          BY <1>0, <4>2 DEF Clean
        <5>2. ~(lo <= j /\ j <= hi)
          BY <1>0, <2>1, <4>2
        <5> QED BY <5>1, <5>2
      <4> QED BY <1>0, <4>1, <4>2
    <3> QED BY <3>1
  <2>3. \A j \in lo .. hi : c[j] = b[j]
    <3>1. ASSUME NEW j \in lo .. hi
          PROVE  j \in 1 .. Len(b)
      BY <1>0, <2>1
    <3> QED BY <3>1
  <2>4. \A j \in lo .. hi : LET i == Len(x.tokens) - (hi - j) IN c[j].pos = i - 1 /\ c[j].tok = x.tokens[i]
    BY <2>1, <2>3
  <2>5. hi >= lo => hi <= Len(c)
    BY <1>0, <2>1
  <2>6. Spans(s, x, c, o, lo, hi)
    BY <2>1, <2>2, <2>4, <2>5 DEF Spans
  <2> QED BY <1>2, <2>6 DEF Fine
<1> QED BY <1>1, <1>2 DEF Fine

\* What an operation on the slots S leaves of the others: their cells, or they are spoiled.
Leaves(w, v, S) ==
    \A t \in Slots \ S : /\ v.slot[t] = w.slot[t]
                         /\ t \notin v.spoiled => t \notin w.spoiled /\ Data(v.cells, t) = Data(w.cells, t)

\* Content, slot by slot.
LEMMA ContentBy ==
    ASSUME NEW w, NEW b, NEW o, Content(w, b, o), NEW S, NEW v \in Work, Leaves(w, v, S),
           Sound(v.cells), \A i \in DOMAIN v.saved : Whole(v.saved[i]),
           \A s \in S : Apt(v.slot[s]) /\ Fine(s, v.slot[s], Data(v.cells, s), s \in v.spoiled, b, o)
    PROVE  Content(v, b, o)
<1>1. ASSUME NEW t \in Slots
      PROVE  Apt(v.slot[t]) /\ Fine(t, v.slot[t], Data(v.cells, t), t \in v.spoiled, b, o)
  <2>1. CASE t \in S
    BY <2>1
  <2>2. CASE t \notin S
    <3>1. /\ v.slot[t] = w.slot[t]
          /\ t \notin v.spoiled => t \notin w.spoiled /\ Data(v.cells, t) = Data(w.cells, t)
      BY <2>2 DEF Leaves
    <3>2. Apt(w.slot[t]) /\ Fine(t, w.slot[t], Data(w.cells, t), t \in w.spoiled, b, o)
      BY DEF Content
    <3>3. Fine(t, w.slot[t], Data(v.cells, t), t \in v.spoiled, b, o)
      BY <3>1, <3>2 DEF Fine
    <3> QED BY <3>1, <3>2, <3>3
  <2> QED BY <2>1, <2>2
<1> QED BY <1>1 DEF Content

\* prompt_clear, to the last cell.
LEMMA ClearParts ==
    ASSUME NEW w \in Work, NEW s \in Slots
    PROVE  LET v == Clear(w, s)
           IN  /\ v \in Work /\ v.cells = SeqRm(w.cells, s, 0, -1) /\ v.saved = w.saved
               /\ v.spoiled = w.spoiled \ {s} /\ Leaves(w, v, {s})
               /\ v.slot[s] = [w.slot[s] EXCEPT !.tokens = <<>>]
               /\ Data(v.cells, s) = {} /\ (Sound(w.cells) => Sound(v.cells))
<1> DEFINE v == Clear(w, s)
<1>1. v \in Work /\ v.slot = [w.slot EXCEPT ![s].tokens = <<>>] /\ \A t \in Slots \ {s} : v.slot[t] = w.slot[t]
  BY ClearIs DEF SameBut
<1>2. v.cells = SeqRm(w.cells, s, 0, -1) /\ v.saved = w.saved /\ v.spoiled = w.spoiled \ {s}
  BY DEF Clear, Work
<1>3. w.cells \in SUBSET CellType /\ w.slot \in [Slots -> SlotType]
  BY WorkParts
<1>4. v.slot[s] = [w.slot[s] EXCEPT !.tokens = <<>>]
  BY <1>1, <1>3
<1> HIDE DEF v
<1>5. Data(v.cells, s) = {d \in Data(w.cells, s) : ~In(d, 0, -1)} /\ \A t \in Slots \ {s} : Data(v.cells, t) = Data(w.cells, t)
  BY <1>2, <1>3, DataSeqRm
<1>6. \A d \in Data(w.cells, s) : In(d, 0, -1)
  <2>1. Data(w.cells, s) \in SUBSET DataType
    BY <1>3, CellsType
  <2> QED BY <2>1 DEF DataType, In
<1>7. Data(v.cells, s) = {}
  BY <1>5, <1>6
<1>8. Sound(w.cells) => Sound(v.cells)
  BY <1>2, <1>3, SoundCells
<1>9. Leaves(w, v, {s})
  BY <1>1, <1>2, <1>5 DEF Leaves
<1> QED BY <1>1, <1>2, <1>4, <1>7, <1>8, <1>9 DEF v

\* prompt_clear of an idle slot.
LEMMA ContentClear ==
    ASSUME NEW w, NEW b, NEW o, Content(w, b, o), NEW s \in Slots, w.slot[s].state = "IDLE"
    PROVE  Content(Clear(w, s), b, o)
<1> DEFINE v == Clear(w, s)
<1>1. w \in Work /\ Sound(w.cells) /\ (\A i \in DOMAIN w.saved : Whole(w.saved[i])) /\ Apt(w.slot[s])
  BY DEF Content
<1>2. /\ v \in Work /\ v.saved = w.saved /\ Leaves(w, v, {s}) /\ Sound(v.cells)
      /\ v.slot[s] = [w.slot[s] EXCEPT !.tokens = <<>>]
  BY <1>1, ClearParts
<1> HIDE DEF v
<1>3. v.slot[s].state = "IDLE" /\ v.slot[s].tokens = <<>>
  BY <1>1, <1>2, WorkParts DEF SlotType
<1>4. Apt(v.slot[s])
  BY <1>3, SizesAssumption DEF Apt
<1>5. Fine(s, v.slot[s], Data(v.cells, s), s \in v.spoiled, b, o)
  BY <1>3 DEF Fine
<1>6. \A i \in DOMAIN v.saved : Whole(v.saved[i])
  BY <1>1, <1>2
<1>7. Content(v, b, o)
  BY <1>2, <1>4, <1>5, <1>6, ContentBy
<1> QED BY <1>7 DEF v

\* release, and reset.
LEMMA ContentRelease ==
    ASSUME NEW w, NEW b, NEW o, Content(w, b, o), NEW s \in Slots
    PROVE  Content(Release(w, s), b, o) /\ Release(w, s).slot[s].state = "IDLE"
<1> DEFINE f    == [Fresh EXCEPT !.tokens = w.slot[s].tokens]
           kept == [w EXCEPT !.slot[s] = f]
<1>1. /\ w \in Work /\ Sound(w.cells) /\ (\A i \in DOMAIN w.saved : Whole(w.saved[i])) /\ Apt(w.slot[s])
      /\ Fine(s, w.slot[s], Data(w.cells, s), s \in w.spoiled, b, o)
  BY DEF Content
<1>2. f \in SlotType /\ f.state = "IDLE" /\ f.tokens = w.slot[s].tokens
  <2>1. w.slot[s].tokens \in Seq(Token)
    BY <1>1, WorkParts, SlotParts
  <2> QED BY <2>1, FreshType DEF Fresh
<1>3. /\ kept \in Work /\ kept.slot[s] = f /\ kept.cells = w.cells /\ kept.saved = w.saved /\ kept.spoiled = w.spoiled
      /\ \A t \in Slots \ {s} : kept.slot[t] = w.slot[t]
  <2> HIDE DEF f
  <2> QED BY <1>1, <1>2 DEF Work
<1>4. Release(w, s) = IF w.slot[s].task.family = "child" THEN Clear(kept, s) ELSE kept
  BY DEF Release
<1> HIDE DEF f, kept
<1>5. Leaves(w, kept, {s})
  BY <1>3 DEF Leaves
<1>6. Apt(kept.slot[s]) /\ kept.slot[s].state = "IDLE"
  BY <1>1, <1>2, <1>3 DEF Apt
<1>7. Fine(s, kept.slot[s], Data(kept.cells, s), s \in kept.spoiled, b, o)
  BY <1>1, <1>2, <1>3, FineReleased
<1>8. Content(kept, b, o)
  BY <1>1, <1>3, <1>5, <1>6, <1>7, ContentBy
<1>9. Content(Clear(kept, s), b, o)
  BY <1>6, <1>8, ContentClear
<1>10. Clear(kept, s).slot[s].state = "IDLE"
  <2>1. Clear(kept, s).slot[s] = [kept.slot[s] EXCEPT !.tokens = <<>>]
    BY <1>3, ClearParts
  <2> QED BY <1>2, <1>3, <2>1 DEF SlotType
<1> QED BY <1>4, <1>6, <1>8, <1>9, <1>10

-----------------------------------------------------------------------------
(* The prompt cache.                                                       *)

\* The cells of a sequence are within the context.
LEMMA DataSound ==
    ASSUME NEW all \in SUBSET CellType, Sound(all), NEW s \in Slots
    PROVE  IsFiniteSet(Data(all, s)) /\ \A d \in Data(all, s) : d.pos < NCtx
<1>1. ASSUME NEW d \in Data(all, s)
      PROVE  d.pos < NCtx
  <2>1. PICK c \in all : d = [tok |-> c.tok, pos |-> c.pos]
    BY DataHas
  <2> QED BY <2>1 DEF Sound
<1>2. IsFiniteSet(Data(all, s))
  <2> DEFINE f == [c \in all |-> [tok |-> c.tok, pos |-> c.pos]]
  <2>1. f \in [all -> DataType] /\ \A c \in all : f[c] = [tok |-> c.tok, pos |-> c.pos]
    BY DEF CellType, DataType
  <2> HIDE DEF f
  <2>2. \A d \in Data(all, s) : \E c \in all : d = f[c]
    BY <2>1, DataHas
  <2>3. IsFiniteSet(all)
    BY DEF Sound
  <2> QED BY <2>1, <2>2, <2>3, NoMore
<1> QED BY <1>1, <1>2

\* With an empty batch.
LEMMA RestIs ==
    ASSUME NEW w \in Work, NEW s \in Slots
    PROVE  Fine(s, w.slot[s], Data(w.cells, s), s \in w.spoiled, <<>>, 0) <=> Backed(w.slot[s], Data(w.cells, s), s \in w.spoiled)
<1> DEFINE x   == w.slot[s]
           d   == Data(w.cells, s)
           bad == s \in w.spoiled
<1>1. x \in SlotType /\ d \in SUBSET DataType /\ bad \in BOOLEAN
  <2>1. w.cells \in SUBSET CellType
    BY WorkParts
  <2>2. d \in SUBSET DataType
    BY <2>1, CellsType
  <2>3. bad \in BOOLEAN
    OBVIOUS
  <2> HIDE DEF d, bad
  <2> QED BY <2>2, <2>3, WorkParts
<1>2. <<>> \in Seq(TokType) /\ 0 \in Nat /\ Clean(s, <<>>, 0)
  BY DEF Clean
<1> HIDE DEF x, d, bad
<1>3. Fine(s, x, d, bad, <<>>, 0) <=> Backed(x, d, bad)
  BY <1>1, <1>2, FineIsBacked
<1> QED BY <1>3 DEF x, d, bad

\* The prompt cache keeps whole prompts.
LEMMA ContentSave ==
    ASSUME NEW w, Content(w, <<>>, 0), NEW s \in Slots
    PROVE  Content(Save(w, s), <<>>, 0) /\ Save(w, s).slot = w.slot
<1> DEFINE R      == {e \in SavedType : Whole(e)}
           tokens == w.slot[s].tokens
           entry  == [tokens |-> tokens, cells |-> Data(w.cells, s), bad |-> s \in w.spoiled]
           all    == Append(Remaining(w.saved, tokens), entry)
           kept   == SubSeq(all, Max({1, Len(all) - MaxSaved + 1}), Len(all))
           v      == Save(w, s)
<1>1. /\ w \in Work /\ Sound(w.cells) /\ (\A i \in DOMAIN w.saved : Whole(w.saved[i])) /\ Apt(w.slot[s])
      /\ Fine(s, w.slot[s], Data(w.cells, s), s \in w.spoiled, <<>>, 0)
  BY DEF Content
<1>2. w.slot[s] \in SlotType /\ w.cells \in SUBSET CellType /\ w.saved \in Seq(SavedType)
  BY <1>1, WorkParts
<1>3. tokens \in Seq(Token) /\ Data(w.cells, s) \in SUBSET DataType /\ Len(tokens) < NCtx
  BY <1>1, <1>2, SlotParts, CellsType DEF Apt
<1>4. entry \in SavedType
  <2> HIDE DEF tokens
  <2> QED BY <1>3 DEF SavedType
<1>5. Whole(entry)
  <2>1. s \notin w.spoiled => Holds(Data(w.cells, s), tokens, Len(tokens))
    BY <1>1, RestIs DEF Backed
  <2>2. IsFiniteSet(Data(w.cells, s)) /\ \A d \in Data(w.cells, s) : d.pos < NCtx
    BY <1>1, <1>2, DataSound
  <2> HIDE DEF tokens
  <2> QED BY <1>3, <2>1, <2>2 DEF Whole
<1>6. w.saved \in Seq(R)
  <2>1. \A i \in 1 .. Len(w.saved) : w.saved[i] \in R
    BY <1>1, <1>2
  <2> HIDE DEF R
  <2> QED BY <1>2, <2>1
<1> HIDE DEF tokens
<1>7. all \in Seq(R)
  <2>1. Remaining(w.saved, tokens) \in Seq(R) /\ entry \in R
    <3>1. entry \in R
      BY <1>4, <1>5
    <3> HIDE DEF R
    <3> QED BY <1>6, <3>1, RemainingType
  <2> HIDE DEF R, entry
  <2> QED BY <2>1
<1> HIDE DEF R
<1>8. kept \in Seq(R)
  <2> DEFINE m == Max({1, Len(all) - MaxSaved + 1})
  <2>1. m \in Nat /\ m >= 1 /\ Len(all) \in Int /\ Len(all) <= Len(all)
    <3>1. Len(all) \in Nat /\ MaxSaved \in Nat
      BY <1>7, SizesAssumption
    <3> HIDE DEF all
    <3> QED BY <3>1, MaxOfTwo
  <2> HIDE DEF all, m
  <2>2. SubSeq(all, m, Len(all)) \in Seq(R)
    BY <1>7, <2>1, PartOf
  <2> QED BY <2>2 DEF m
<1>9. v = w \/ v = [w EXCEPT !.saved = kept]
  BY DEF Save, tokens
<1> HIDE DEF kept
<1>10. v \in Work /\ v.slot = w.slot
  BY <1>1, SaveIs
<1> HIDE DEF v
<1>11. v.cells = w.cells /\ v.spoiled = w.spoiled /\ (v.saved = w.saved \/ v.saved = kept)
  BY <1>1, <1>9 DEF Work
<1>12. \A i \in DOMAIN v.saved : Whole(v.saved[i])
  <2>1. \A i \in DOMAIN kept : kept[i] \in R
    BY <1>8
  <2> QED BY <1>1, <1>11, <2>1 DEF R
<1>13. Leaves(w, v, {})
  BY <1>10, <1>11 DEF Leaves
<1>14. Content(v, <<>>, 0)
  BY <1>1, <1>10, <1>11, <1>12, <1>13, ContentBy
<1> QED BY <1>10, <1>14 DEF v

\* The cells of a saved prompt, for a slot.
Loaded(data, s) == {[tok |-> d.tok, pos |-> d.pos, seqs |-> {s}] : d \in data}

\* What the cache has when they are added.
LEMMA LoadedIs ==
    ASSUME NEW all \in SUBSET CellType, NEW s \in Slots, NEW data \in SUBSET DataType
    PROVE  /\ all \cup Loaded(data, s) \in SUBSET CellType
           /\ Data(all \cup Loaded(data, s), s) = Data(all, s) \cup data
<1> DEFINE new == all \cup Loaded(data, s)
<1>1. \A c : c \in Loaded(data, s) <=> \E d \in data : c = [tok |-> d.tok, pos |-> d.pos, seqs |-> {s}]
  BY DEF Loaded
<1>2. Loaded(data, s) \in SUBSET CellType
  BY <1>1 DEF DataType, CellType
<1>3. new \in SUBSET CellType /\ \A c : c \in new <=> c \in all \/ c \in Loaded(data, s)
  BY <1>2
<1> HIDE DEF new
<1>4. \A d \in data : d = [tok |-> d.tok, pos |-> d.pos]
  BY DEF DataType
<1>5. ASSUME NEW d
      PROVE  d \in Data(new, s) <=> d \in Data(all, s) \/ d \in data
  <2>1. d \in data => d \in Data(new, s)
    <3>1. SUFFICES ASSUME d \in data
                   PROVE  d \in Data(new, s)
      OBVIOUS
    <3> DEFINE c == [tok |-> d.tok, pos |-> d.pos, seqs |-> {s}]
    <3>2. c \in new
      BY <1>1, <1>3, <3>1
    <3>3. s \in c.seqs /\ d = [tok |-> c.tok, pos |-> c.pos]
      BY <1>4, <3>1
    <3> HIDE DEF c
    <3> QED BY <1>3, <3>2, <3>3, DataHas
  <2>2. d \in Data(all, s) => d \in Data(new, s)
    BY <1>3, DataHas
  <2>3. ASSUME NEW c \in new, s \in c.seqs, d = [tok |-> c.tok, pos |-> c.pos]
        PROVE  d \in Data(all, s) \/ d \in data
    <3>1. CASE c \in all
      BY <2>3, <3>1, DataHas
    <3>2. CASE c \in Loaded(data, s)
      <4>1. PICK e \in data : c = [tok |-> e.tok, pos |-> e.pos, seqs |-> {s}]
        BY <1>1, <3>2
      <4>2. d = e
        BY <1>4, <2>3, <4>1
      <4> QED BY <4>2
    <3> QED BY <1>3, <2>3, <3>1, <3>2
  <2>4. d \in Data(new, s) => \E c \in new : s \in c.seqs /\ d = [tok |-> c.tok, pos |-> c.pos]
    BY <1>3, DataHas
  <2> QED BY <2>1, <2>2, <2>3, <2>4
<1>6. Data(new, s) = Data(all, s) \cup data
  BY <1>5
<1> QED BY <1>3, <1>6 DEF new

\* Those of the others are as they were.
LEMMA LoadedOthers ==
    ASSUME NEW all \in SUBSET CellType, NEW s \in Slots, NEW data \in SUBSET DataType, NEW t \in Slots \ {s}
    PROVE  Data(all \cup Loaded(data, s), t) = Data(all, t)
<1> DEFINE new == all \cup Loaded(data, s)
<1>1. \A c \in Loaded(data, s) : t \notin c.seqs
  BY DEF Loaded
<1>2. new \in SUBSET CellType
  BY LoadedIs
<1>3. \A c : c \in new <=> c \in all \/ c \in Loaded(data, s)
  OBVIOUS
<1> HIDE DEF new
<1>4. ASSUME NEW d
      PROVE  d \in Data(new, t) <=> d \in Data(all, t)
  <2>1. /\ d \in Data(new, t) <=> \E c \in new : t \in c.seqs /\ d = [tok |-> c.tok, pos |-> c.pos]
        /\ d \in Data(all, t) <=> \E c \in all : t \in c.seqs /\ d = [tok |-> c.tok, pos |-> c.pos]
    BY <1>2, DataHas
  <2> QED BY <1>1, <1>3, <2>1
<1>5. Data(new, t) = Data(all, t)
  BY <1>4
<1> QED BY <1>5 DEF new

\* Room for them.
LEMMA LoadedSound ==
    ASSUME NEW all \in SUBSET CellType, Sound(all), NEW s \in Slots, NEW data \in SUBSET DataType,
           IsFiniteSet(data), \A d \in data : d.pos < NCtx, Cardinality(all) + Cardinality(data) <= NumCells
    PROVE  Sound(all \cup Loaded(data, s))
<1> DEFINE more == Loaded(data, s)
           f    == [d \in data |-> [tok |-> d.tok, pos |-> d.pos, seqs |-> {s}]]
<1>1. f \in [data -> CellType] /\ \A d \in data : f[d].pos = d.pos /\ f[d].seqs = {s}
  BY DEF DataType, CellType
<1>2. \A c \in more : \E d \in data : c = f[d]
  BY DEF Loaded
<1> HIDE DEF f, more
<1>3. IsFiniteSet(more) /\ Cardinality(more) \in Nat /\ Cardinality(more) <= Cardinality(data)
  BY <1>1, <1>2, NoMore
<1>4. IsFiniteSet(all) /\ Cardinality(all) \in Nat /\ Cardinality(data) \in Nat /\ NumCells \in Nat
  BY FS_CardinalityType, SizesAssumption DEF Sound
<1>5. IsFiniteSet(all \cup more) /\ Cardinality(all \cup more) = Cardinality(all) + Cardinality(more) - Cardinality(all \cap more)
  BY <1>3, <1>4, FS_Union
<1>6. Cardinality(all \cap more) \in Nat
  <2>1. IsFiniteSet(all \cap more)
    BY <1>4, FS_Intersection
  <2> QED BY <2>1, FS_CardinalityType
<1>7. Cardinality(all \cup more) <= NumCells
  BY <1>3, <1>4, <1>5, <1>6
<1>8. \A c \in all \cup more : c.pos < NCtx /\ c.seqs # {}
  <2>1. \A c \in more : c.pos < NCtx /\ c.seqs # {}
    BY <1>1, <1>2
  <2> QED BY <2>1 DEF Sound
<1> QED BY <1>5, <1>7, <1>8 DEF Sound, more

\* server_prompt_cache::load, into an idle slot.
LEMMA ContentLoad ==
    ASSUME NEW w, Content(w, <<>>, 0), NEW s \in Slots, w.slot[s].state = "IDLE", NEW i \in DOMAIN w.saved
    PROVE  Content(Load(w, s, i), <<>>, 0)
<1> DEFINE e    == w.saved[i]
           rest == IF e.cells = {} THEN w.cells ELSE SeqRm(w.cells, s, 0, -1)
           c    == rest \cup Loaded(e.cells, s)
           sv   == RemoveAt(w.saved, i)
           sp   == IF e.bad THEN w.spoiled \cup {s} ELSE w.spoiled \ {s}
           v    == [w EXCEPT !.slot[s].tokens = e.tokens, !.cells = c, !.saved = sv, !.spoiled = sp]
<1>1. /\ w \in Work /\ Sound(w.cells) /\ (\A j \in DOMAIN w.saved : Whole(w.saved[j])) /\ Apt(w.slot[s])
      /\ w.slot[s] \in SlotType /\ w.cells \in SUBSET CellType /\ w.saved \in Seq(SavedType) /\ w.spoiled \in SUBSET Slots
  BY WorkParts DEF Content
<1>2. e \in SavedType /\ Whole(e) /\ e.tokens \in Seq(Token) /\ e.cells \in SUBSET DataType /\ Len(e.tokens) \in Nat
  <2>1. e \in SavedType /\ Whole(e)
    BY <1>1
  <2> HIDE DEF e
  <2> QED BY <2>1, LenProperties DEF SavedType
<1> HIDE DEF e
<1>3. /\ rest \in SUBSET CellType /\ Sound(rest)
      /\ Data(rest, s) = IF e.cells = {} THEN Data(w.cells, s) ELSE {}
      /\ \A t \in Slots \ {s} : Data(rest, t) = Data(w.cells, t)
  <2>1. CASE e.cells = {}
    BY <1>1, <2>1
  <2>2. CASE e.cells # {}
    <3>1. rest = Clear(w, s).cells /\ Sound(rest) /\ Data(rest, s) = {} /\ Clear(w, s) \in Work
      BY <1>1, <2>2, ClearParts, ZenonT(60)
    <3>2. rest \in SUBSET CellType
      BY <3>1, WorkParts
    <3>3. \A t \in Slots \ {s} : Data(rest, t) = Data(w.cells, t)
      <4>1. rest = SeqRm(w.cells, s, 0, -1)
        BY <2>2
      <4> HIDE DEF rest
      <4>2. w.cells \in SUBSET CellType
        BY <1>1
      <4> QED BY <4>1, <4>2, DataSeqRm
    <3> HIDE DEF rest
    <3> QED BY <2>2, <3>1, <3>2, <3>3
  <2> QED BY <2>1, <2>2
<1>4. Load(w, s, i) = IF Cardinality(rest) + Cardinality(e.cells) > NumCells THEN Clear(w, s) ELSE v
  BY DEF Load, Loaded, e
<1>5. CASE Cardinality(rest) + Cardinality(e.cells) > NumCells
  BY <1>4, <1>5, ContentClear
<1>6. CASE ~ (Cardinality(rest) + Cardinality(e.cells) > NumCells)
  <2>1. IsFiniteSet(e.cells) /\ \A d \in e.cells : d.pos < NCtx
    BY <1>2 DEF Whole
  <2>2. Cardinality(rest) + Cardinality(e.cells) <= NumCells
    <3>1. Cardinality(rest) \in Nat /\ Cardinality(e.cells) \in Nat /\ NumCells \in Nat
      BY <1>3, <2>1, FS_CardinalityType, SizesAssumption DEF Sound
    <3> HIDE DEF rest
    <3> QED BY <1>6, <3>1
  <2> HIDE DEF rest
  <2>3. c \in SUBSET CellType /\ Data(c, s) = Data(rest, s) \cup e.cells /\ \A t \in Slots \ {s} : Data(c, t) = Data(rest, t)
    <3> DEFINE data == e.cells
    <3>1. data \in SUBSET DataType /\ rest \in SUBSET CellType
      BY <1>2, <1>3
    <3> HIDE DEF data
    <3>2. rest \cup Loaded(data, s) \in SUBSET CellType
      BY <3>1, LoadedIs
    <3>3. Data(rest \cup Loaded(data, s), s) = Data(rest, s) \cup data
      BY <3>1, LoadedIs
    <3>4. \A t \in Slots \ {s} : Data(rest \cup Loaded(data, s), t) = Data(rest, t)
      BY <3>1, LoadedOthers
    <3> QED BY <3>2, <3>3, <3>4 DEF data
  <2>4. Sound(c)
    BY <1>2, <1>3, <2>1, <2>2, LoadedSound
  <2> HIDE DEF c
  <2>5. sv \in Seq(SavedType) /\ \A j \in DOMAIN sv : Whole(sv[j])
    <3> DEFINE R == {x \in SavedType : Whole(x)}
    <3>1. w.saved \in Seq(R) /\ i \in 1 .. Len(w.saved)
      <4>1. \A j \in 1 .. Len(w.saved) : w.saved[j] \in R
        BY <1>1
      <4>2. i \in 1 .. Len(w.saved)
        BY <1>1
      <4> HIDE DEF R
      <4> QED BY <1>1, <4>1, <4>2
    <3>2. sv \in Seq(R)
      <4> HIDE DEF R
      <4>1. SubSeq(w.saved, 1, i - 1) \in Seq(R)
        BY <3>1, StartOf
      <4>2. SubSeq(w.saved, i + 1, Len(w.saved)) \in Seq(R)
        BY <3>1, PartOf
      <4> QED BY <4>1, <4>2 DEF RemoveAt
    <3> HIDE DEF sv
    <3>3. \A j \in DOMAIN sv : sv[j] \in R
      BY <3>2
    <3>4. sv \in Seq(SavedType)
      BY <3>2
    <3> QED BY <3>3, <3>4
  <2>6. sp \in SUBSET Slots
    BY <1>1
  <2>7. [w.slot[s] EXCEPT !.tokens = e.tokens] \in SlotType
    BY <1>1, <1>2, SlotParts
  <2> HIDE DEF sv
  <2>8. /\ v \in Work /\ v.slot[s] = [w.slot[s] EXCEPT !.tokens = e.tokens] /\ v.cells = c /\ v.saved = sv /\ v.spoiled = sp
        /\ \A t \in Slots \ {s} : v.slot[t] = w.slot[t]
    <3> HIDE DEF sp
    <3> QED BY <1>1, <2>3, <2>5, <2>6, <2>7 DEF Work
  <2> HIDE DEF v
  <2>9. Leaves(w, v, {s})
    BY <1>3, <2>3, <2>8 DEF Leaves
  <2>10. v.slot[s].state = "IDLE" /\ v.slot[s].tokens = e.tokens
    BY <1>1, <2>8 DEF SlotType
  <2>11. Apt(v.slot[s])
    BY <1>2, <2>10 DEF Apt, Whole
  <2>12. s \notin sp => Holds(Data(c, s), e.tokens, Len(e.tokens))
    <3>1. SUFFICES ASSUME ~e.bad
                   PROVE  Holds(Data(c, s), e.tokens, Len(e.tokens))
      OBVIOUS
    <3>2. Holds(e.cells, e.tokens, Len(e.tokens))
      BY <1>2, <3>1 DEF Whole
    <3>3. CASE e.cells # {}
      BY <1>3, <2>3, <3>2, <3>3
    <3>4. CASE e.cells = {}
      <4>1. Firsts(e.tokens, Len(e.tokens)) = {}
        BY <3>2, <3>4, HoldsIs
      <4>2. Len(e.tokens) = 0
        <5> DEFINE n == Len(e.tokens)
        <5>1. n \in Nat /\ n <= Len(e.tokens) /\ Firsts(e.tokens, n) = {}
          BY <1>2, <4>1
        <5> HIDE DEF n
        <5>2. 0 < n => [tok |-> e.tokens[0 + 1], pos |-> 0] \in Firsts(e.tokens, n)
          BY <1>2, <5>1, FirstsAre
        <5>3. n = 0
          BY <5>1, <5>2
        <5> QED BY <5>3 DEF n
      <4>3. e.tokens = <<>>
        BY <1>2, <4>2, EmptySeq
      <4>4. Data(c, s) \in SUBSET DataType
        BY <2>3, CellsType
      <4> QED BY <4>2, <4>3, <4>4, HoldsNothing
    <3> QED BY <3>3, <3>4
  <2>13. Backed(v.slot[s], Data(v.cells, s), s \in v.spoiled)
    BY <2>8, <2>10, <2>12 DEF Backed, Strict
  <2>14. Fine(s, v.slot[s], Data(v.cells, s), s \in v.spoiled, <<>>, 0)
    BY <2>8, <2>13, RestIs
  <2>15. Content(v, <<>>, 0)
    BY <2>4, <2>5, <2>8, <2>9, <2>11, <2>14, ContentBy
  <2> QED BY <1>4, <1>6, <2>15
<1> QED BY <1>5, <1>6

-----------------------------------------------------------------------------
(* Between two batches.                                                    *)

\* What the operations make of the variables.
LEMMA NowIs ==
    ASSUME NEW w \in Work, Becomes(w)
    PROVE  Now' = w
<1>1. w = [slot |-> w.slot, cells |-> w.cells, saved |-> w.saved, spoiled |-> w.spoiled]
  BY DEF Work
<1> QED BY <1>1 DEF Now, Becomes

\* The batch is empty.
LEMMA Between ==
    ASSUME CInv, pc = "tasks"
    PROVE  batch = <<>> /\ off = 0 /\ view = 0 /\ n_batch \in Nat /\ n_batch >= 1 /\ n_batch <= NBatch /\ Content(Now, <<>>, 0)
<1>1. batch \in Seq(TokType) /\ off \in Nat /\ view \in Nat /\ n_batch \in Nat
  BY DEF CInv, IInv, Typed
<1>2. \A j \in DOMAIN batch : FALSE
  BY DEF CInv, Visited
<1>3. Len(batch) = 0
  <2>1. Len(batch) \in Nat /\ DOMAIN batch = 1 .. Len(batch)
    BY <1>1, LenProperties
  <2>2. 1 <= Len(batch) => 1 \in DOMAIN batch
    BY <2>1
  <2> QED BY <1>2, <2>1, <2>2
<1>4. batch = <<>>
  BY <1>1, <1>3, EmptySeq
<1>5. off = 0 /\ view = 0
  BY <1>1, <1>3 DEF CInv, Counts
<1>6. Done = 0
  BY <1>5 DEF Done
<1> QED BY <1>1, <1>4, <1>5, <1>6 DEF CInv, Counts

\* An operation leaves it empty.
LEMMA StayStep ==
    ASSUME CInv, pc = "tasks", NEW w, Content(w, <<>>, 0), Becomes(w), Stay
    PROVE  Counts' /\ Visited' /\ Content(Now', batch', Done')
<1>1. /\ batch = <<>> /\ off = 0 /\ view = 0 /\ n_batch \in Nat /\ n_batch >= 1 /\ n_batch <= NBatch
      /\ batch' = <<>> /\ off' = 0 /\ view' = 0 /\ n_batch' = n_batch /\ pc' = "tasks"
  BY Between DEF Stay
<1>2. Now' = w
  BY NowIs DEF Content
<1>3. Done' = 0
  BY <1>1 DEF Done
<1>4. Len(<<>>) = 0 /\ DOMAIN (<<>>) = {}
  OBVIOUS
<1>5. Counts'
  BY <1>1, <1>4 DEF Counts
<1>6. Visited'
  BY <1>1, <1>4 DEF Visited
<1> QED BY <1>1, <1>2, <1>3, <1>5, <1>6

\* A task is given to an idle slot.
LEMMA ContentStarted ==
    ASSUME NEW w, Content(w, <<>>, 0), NEW s \in Slots, NEW t \in Tasks, NEW family \in {"single", "parent", "child"},
           NEW state \in {"STARTED", "WAIT_OTHER"}
    PROVE  Content(Started(w, s, t, family, state), <<>>, 0)
<1> DEFINE y == [t EXCEPT !.family = family]
           x == [Fresh EXCEPT !.state = state, !.tokens = w.slot[s].tokens, !.task = y]
           v == Started(w, s, t, family, state)
<1>1. /\ w \in Work /\ Sound(w.cells) /\ (\A i \in DOMAIN w.saved : Whole(w.saved[i])) /\ Apt(w.slot[s])
      /\ Fine(s, w.slot[s], Data(w.cells, s), s \in w.spoiled, <<>>, 0)
  BY DEF Content
<1>2. w.slot[s] \in SlotType /\ w.slot[s].tokens \in Seq(Token)
  BY <1>1, WorkParts, SlotParts
<1>3. x \in SlotType /\ x.state = state /\ x.tokens = w.slot[s].tokens
  <2>1. y \in TaskType
    BY TasksAssumption DEF TaskType
  <2>2. Fresh \in SlotType
    BY DEF Fresh, SlotType, NoTask, TaskType, States
  <2>3. state \in States
    BY DEF States
  <2> HIDE DEF y
  <2> QED BY <1>2, <2>1, <2>2, <2>3 DEF SlotType
<1>4. /\ v \in Work /\ v.slot[s] = x /\ v.cells = w.cells /\ v.saved = w.saved /\ v.spoiled = w.spoiled
      /\ \A u \in Slots \ {s} : v.slot[u] = w.slot[u]
  <2>1. v = [w EXCEPT !.slot[s] = x]
    BY DEF Started
  <2> HIDE DEF x, v
  <2> QED BY <1>1, <1>3, <2>1 DEF Work
<1> HIDE DEF x, v
<1>5. Leaves(w, v, {s})
  BY <1>4 DEF Leaves
<1>6. Apt(v.slot[s])
  BY <1>1, <1>3, <1>4 DEF Apt
<1>7. Backed(w.slot[s], Data(w.cells, s), s \in w.spoiled)
  BY <1>1, RestIs
<1>8. Backed(v.slot[s], Data(v.cells, s), s \in v.spoiled)
  BY <1>3, <1>4, <1>7 DEF Backed, Strict
<1>9. Fine(s, v.slot[s], Data(v.cells, s), s \in v.spoiled, <<>>, 0)
  BY <1>4, <1>8, RestIs
<1> QED BY <1>1, <1>4, <1>5, <1>6, <1>9, ContentBy DEF v

\* The update of the prompt cache.
LEMMA ContentUpdated ==
    ASSUME NEW w, Content(w, <<>>, 0), NEW s \in Slots, w.slot[s].state = "IDLE", NEW prompt,
           NEW v \in Updated(w, s, prompt)
    PROVE  Content(v, <<>>, 0)
<1> DEFINE kept == Save(w, s)
<1>1. Content(kept, <<>>, 0) /\ kept.slot = w.slot
  BY ContentSave
<1>2. v = kept \/ \E i \in Better(kept, s, prompt) : v = Load(kept, s, i)
  BY DEF Updated
<1>3. Better(kept, s, prompt) \subseteq DOMAIN kept.saved
  BY DEF Better
<1> HIDE DEF kept
<1> QED BY <1>1, <1>2, <1>3, ContentLoad

\* The idle slots are saved and cleared.
LEMMA ContentIdleCleared ==
    ASSUME NEW w, Content(w, <<>>, 0)
    PROVE  Content(IdleCleared(w), <<>>, 0)
<1> DEFINE K == {v \in Work : Content(v, <<>>, 0)}
<1>1. w \in K
  BY DEF Content
<1>2. ASSUME NEW v \in K, NEW x \in Slots
      PROVE  Spared(v, x) \in K
  <2>1. CASE v.slot[x].state = "IDLE"
    <3> DEFINE u == Save(v, x)
    <3>1. Content(u, <<>>, 0) /\ u.slot[x].state = "IDLE"
      BY <2>1, ContentSave
    <3> HIDE DEF u
    <3>2. Content(Clear(u, x), <<>>, 0)
      BY <3>1, ContentClear
    <3>3. Clear(u, x) \in Work
      BY <3>2 DEF Content
    <3> QED BY <2>1, <3>2, <3>3 DEF Spared, u
  <2>2. CASE v.slot[x].state # "IDLE"
    BY <2>2 DEF Spared
  <2> QED BY <2>1, <2>2
<1> HIDE DEF K
<1>3. IdleCleared(w) \in K
  BY <1>1, <1>2, IdleClearedRule
<1> QED BY <1>3 DEF K

\* A task is launched.
LEMMA LaunchCells ==
    ASSUME CInv, NEW s \in Slots, NEW t \in Tasks, Launch(t, s)
    PROVE  Counts' /\ Visited' /\ Content(Now', batch', Done')
<1>1. s \in Idle /\ pc = "tasks" /\ Stay /\ (t.family = "parent" => Idle \ {s} # {})
  BY DEF Launch
<1> DEFINE alone(w)  == Started(w, s, t, t.family, "STARTED")
           family(w) == Started(alone(w), Min(Idle \ {s}), t, "child", "WAIT_OTHER")
           all(w)    == IF t.family = "parent" THEN family(w) ELSE alone(w)
<1>2. PICK w \in {Now} \cup (IF MaxSaved > 0 THEN Updated(Now, s, t.prompt) ELSE {}) : Becomes(IdleCleared(all(w)))
  BY DEF Launch
<1>3. Content(w, <<>>, 0)
  <2>1. Content(Now, <<>>, 0) /\ Now.slot[s].state = "IDLE"
    BY <1>1, Between DEF Idle, Processing, Now
  <2> QED BY <1>2, <2>1, ContentUpdated
<1>4. Content(alone(w), <<>>, 0)
  <2>1. t.family \in {"single", "parent", "child"}
    BY TasksAssumption
  <2> QED BY <1>3, <2>1, ContentStarted
<1>5. ASSUME t.family = "parent"
      PROVE  Content(family(w), <<>>, 0)
  <2>1. Min(Idle \ {s}) \in Slots
    <3>1. Idle \ {s} \in SUBSET Nat /\ Idle \ {s} # {}
      BY <1>1, <1>5 DEF Idle, Slots
    <3>2. Min(Idle \ {s}) \in Idle \ {s}
      BY <3>1, MinIs
    <3> QED BY <3>2 DEF Idle
  <2> HIDE DEF alone
  <2> QED BY <1>4, <2>1, ContentStarted
<1> HIDE DEF alone, family
<1>6. Content(all(w), <<>>, 0)
  BY <1>4, <1>5
<1> HIDE DEF all
<1>7. Content(IdleCleared(all(w)), <<>>, 0)
  BY <1>6, ContentIdleCleared
<1> QED BY <1>1, <1>2, <1>7, StayStep

\* A task is refused or deferred.
LEMMA DeclineCells ==
    ASSUME CInv, NEW s \in Slots, NEW t \in Tasks, Decline(t, s)
    PROVE  Counts' /\ Visited' /\ Content(Now', batch', Done')
<1>1. PICK w \in Updated(Now, s, t.prompt) : Becomes(w)
  BY DEF Decline
<1>2. s \in Idle /\ pc = "tasks" /\ Stay
  BY DEF Decline
<1>3. Content(Now, <<>>, 0) /\ Now.slot[s].state = "IDLE"
  BY <1>2, Between DEF Idle, Processing, Now
<1>4. Content(w, <<>>, 0)
  BY <1>1, <1>3, ContentUpdated
<1> QED BY <1>1, <1>2, <1>4, StayStep

\* A task is cancelled.
LEMMA CancelCells ==
    ASSUME CInv, NEW s \in Slots, Cancel(s)
    PROVE  Counts' /\ Visited' /\ Content(Now', batch', Done')
<1>1. pc = "tasks" /\ Becomes(Release(Now, s)) /\ Stay
  BY DEF Cancel
<1>2. Content(Release(Now, s), <<>>, 0)
  BY <1>1, Between, ContentRelease
<1> QED BY <1>1, <1>2, StayStep

\* An idle slot is erased.
LEMMA EraseCells ==
    ASSUME CInv, NEW s \in Slots, Erase(s)
    PROVE  Counts' /\ Visited' /\ Content(Now', batch', Done')
<1>1. pc = "tasks" /\ Becomes(Clear(Now, s)) /\ Stay /\ Now.slot[s].state = "IDLE"
  BY DEF Erase, Processing, Now
<1>2. Content(Clear(Now, s), <<>>, 0)
  BY <1>1, Between, ContentClear
<1> QED BY <1>1, <1>2, StayStep

\* update_slots starts.
LEMMA UpdateCells ==
    ASSUME CInv, Update
    PROVE  Counts' /\ Visited' /\ Content(Now', batch', Done')
<1>1. /\ pc = "tasks" /\ pc' = "gen" /\ batch' = <<>> /\ off' = 0 /\ view' = 0 /\ n_batch' = NBatch
      /\ Now' = Now /\ Content(Now, <<>>, 0)
  BY Between DEF Update, Now
<1>2. Done' = 0
  BY <1>1 DEF Done
<1>3. Len(<<>>) = 0 /\ DOMAIN (<<>>) = {} /\ NBatch \in Nat /\ NBatch >= 1
  BY SizesAssumption
<1>4. Counts'
  BY <1>1, <1>3 DEF Counts
<1>5. Visited'
  BY <1>1, <1>3 DEF Visited
<1> QED BY <1>1, <1>2, <1>4, <1>5

-----------------------------------------------------------------------------
(* A turn of a slot, before the batch is decoded.                          *)

\* An operation on one slot, which may add its tokens to the batch.
LEMMA ContentGrows ==
    ASSUME NEW w, NEW b \in Seq(TokType), NEW o \in Nat, Content(w, b, o), NEW s \in Slots,
           NEW v \in Work, Leaves(w, v, {s}), Sound(v.cells), \A i \in DOMAIN v.saved : Whole(v.saved[i]),
           NEW c \in Seq(TokType), Len(b) <= Len(c), \A j \in 1 .. Len(b) : c[j] = b[j],
           \A j \in Len(b) + 1 .. Len(c) : c[j].slot = s,
           Apt(v.slot[s]), Fine(s, v.slot[s], Data(v.cells, s), s \in v.spoiled, c, o)
    PROVE  Content(v, c, o)
<1>1. ASSUME NEW t \in Slots, t # s
      PROVE  Apt(v.slot[t]) /\ Fine(t, v.slot[t], Data(v.cells, t), t \in v.spoiled, c, o)
  <2>1. Apt(w.slot[t]) /\ Fine(t, w.slot[t], Data(w.cells, t), t \in w.spoiled, b, o)
    BY DEF Content
  <2>2. v.slot[t] = w.slot[t] /\ (t \notin v.spoiled => t \notin w.spoiled /\ Data(v.cells, t) = Data(w.cells, t))
    BY <1>1 DEF Leaves
  <2>3. Clean(t, c, Len(b))
    BY <1>1 DEF Clean
  <2>4. Fine(t, w.slot[t], Data(w.cells, t), t \in w.spoiled, c, o)
    BY <2>1, <2>3, FineGrows
  <2>5. Fine(t, w.slot[t], Data(v.cells, t), t \in v.spoiled, c, o)
    BY <2>2, <2>4, FineChange, ZenonT(60)
  <2> QED BY <2>1, <2>2, <2>5
<1> QED BY <1>1 DEF Content

\* iterate() goes on to the next slot.
LEMMA TurnCells ==
    ASSUME CInv, pc \in {"gen", "prompt"}, NEW w, Content(w, batch', 0), Becomes(w), AfterPrompts(batch'),
           UNCHANGED <<off, view, n_batch>>, batch' \in Seq(TokType), Len(batch) <= Len(batch'),
           \A j \in 1 .. Len(batch) : batch'[j] = batch[j],
           \A j \in Len(batch) + 1 .. Len(batch') : /\ batch'[j].slot = turn /\ batch'[j].pos < NCtx
                                                    /\ pc = "gen" => w.slot[turn].state = "GENERATING",
           \A s \in Slots \ {turn} : w.slot[s] = slot[s]
    PROVE  Counts' /\ Visited' /\ Content(Now', batch', Done')
<1>1. /\ batch \in Seq(TokType) /\ off = 0 /\ off' = 0 /\ view = 0 /\ view' = 0 /\ turn \in Nat /\ turn \in Slots
      /\ Len(batch) \in Nat /\ Len(batch') \in Nat
  <2>1. batch \in Seq(TokType) /\ off = 0 /\ turn \in Slots
    BY DEF CInv, IInv, Typed, Flow
  <2>2. view = 0
    BY DEF CInv, Counts
  <2> QED BY <2>1, <2>2 DEF Slots
<1>2. /\ pc' \in {"gen", "prompt", "tasks", "decode"} /\ (pc' = "tasks" => batch' = <<>>)
      /\ pc' = "gen" => pc = "gen" /\ turn' = turn + 1
      /\ pc' = "prompt" => \/ pc = "gen" /\ turn' = 0
                           \/ pc = "prompt" /\ turn' = turn + 1
  BY DEF AfterPrompts, Advance
<1>3. Done' = 0
  BY <1>1, <1>2 DEF Done
<1>4. Now' = w /\ slot' = w.slot
  BY NowIs DEF Content, Becomes
<1>5. Counts'
  <2>1. \A j \in 1 .. Len(batch') : batch'[j].pos < NCtx
    <3>1. \A j \in 1 .. Len(batch) : batch[j].pos < NCtx
      BY <1>1 DEF CInv, Counts
    <3> QED BY <1>1, <3>1
  <2>2. n_batch' >= 1 /\ n_batch' <= NBatch
    BY DEF CInv, Counts
  <2> QED BY <1>1, <1>2, <2>1, <2>2 DEF Counts
<1>6. Visited'
  <2>1. SUFFICES ASSUME NEW j \in 1 .. Len(batch')
                 PROVE  /\ pc' # "tasks"
                        /\ pc' = "gen" => batch'[j].slot < turn' /\ w.slot[batch'[j].slot].state = "GENERATING"
                        /\ pc' = "prompt" => batch'[j].slot < turn' \/ w.slot[batch'[j].slot].state = "GENERATING"
    BY <1>1, <1>4 DEF Visited
  <2>2. pc' # "tasks"
    BY <1>1, <1>2
  <2> DEFINE s == batch'[j].slot
  <2>3. s \in Slots /\ s \in Nat
    <3>1. batch'[j] \in TokType
      OBVIOUS
    <3> QED BY <3>1 DEF TokType, Slots
  <2>4. CASE j \in 1 .. Len(batch)
    <3>1. s = batch[j].slot /\ j \in DOMAIN batch
      BY <1>1, <2>4
    <3>2. /\ pc = "gen" => s < turn /\ slot[s].state = "GENERATING"
          /\ pc = "prompt" => s < turn \/ slot[s].state = "GENERATING"
      BY <3>1 DEF CInv, Visited
    <3>3. s # turn => w.slot[s] = slot[s]
      BY <2>3
    <3> HIDE DEF s
    <3>4. pc = "gen" => s < turn /\ w.slot[s].state = "GENERATING"
      BY <1>1, <2>3, <3>2, <3>3
    <3>5. pc = "prompt" => s < turn + 1 \/ w.slot[s].state = "GENERATING"
      BY <1>1, <2>3, <3>2, <3>3
    <3>6. /\ pc' = "gen" => s < turn' /\ w.slot[s].state = "GENERATING"
          /\ pc' = "prompt" => s < turn' \/ w.slot[s].state = "GENERATING"
      BY <1>1, <1>2, <2>3, <3>4, <3>5
    <3> QED BY <2>2, <3>6 DEF s
  <2>5. CASE j \in Len(batch) + 1 .. Len(batch')
    <3>1. s = turn /\ (pc = "gen" => w.slot[s].state = "GENERATING")
      BY <2>5
    <3> HIDE DEF s
    <3>2. /\ pc' = "gen" => s < turn' /\ w.slot[s].state = "GENERATING"
          /\ pc' = "prompt" => s < turn' \/ w.slot[s].state = "GENERATING"
      BY <1>1, <1>2, <2>3, <3>1
    <3> QED BY <2>2, <3>2 DEF s
  <2> QED BY <1>1, <2>4, <2>5
<1> QED BY <1>3, <1>4, <1>5, <1>6

\* Before the batch is decoded none of it is done.
LEMMA BeforeDecode ==
    ASSUME CInv, pc \in {"gen", "prompt"}
    PROVE  /\ Content(Now, batch, 0) /\ turn \in Slots /\ turn \in Nat /\ batch \in Seq(TokType) /\ Now \in Work /\ Now.slot = slot
           /\ Len(batch) \in Nat /\ slot[turn] \in SlotType
           /\ ~(slot[turn].state = "GENERATING" /\ pc = "prompt") => Clean(turn, batch, 0)
<1>1. off = 0 /\ turn \in Slots /\ batch \in Seq(TokType) /\ Now \in Work /\ Now.slot = slot
  BY DEF CInv, IInv, Typed, Flow, Now
<1>2. Done = 0 /\ Len(batch) \in Nat /\ turn \in Nat
  BY <1>1 DEF Done, Slots
<1>3. slot[turn] \in SlotType
  BY <1>1, WorkParts
<1>4. ASSUME ~(slot[turn].state = "GENERATING" /\ pc = "prompt")
      PROVE  Clean(turn, batch, 0)
  <2>1. \A j \in 1 .. Len(batch) : batch[j].slot # turn
    BY <1>1, <1>2, <1>4 DEF CInv, Visited
  <2> QED BY <1>2, <2>1 DEF Clean
<1> QED BY <1>1, <1>2, <1>3, <1>4 DEF CInv

\* Nothing is done for the slot.
LEMMA SkipCells ==
    ASSUME CInv, Skip
    PROVE  Counts' /\ Visited' /\ Content(Now', batch', Done')
<1>1. pc \in {"gen", "prompt"} /\ batch' = batch /\ AfterPrompts(batch) /\ UNCHANGED <<off, view, n_batch>> /\ Becomes(Now)
  BY DEF Skip, Becomes, Now
<1>2. /\ Content(Now, batch, 0) /\ batch \in Seq(TokType) /\ Len(batch) \in Nat /\ Now.slot = slot
      /\ \A j \in Len(batch) + 1 .. Len(batch) : FALSE
  BY <1>1, BeforeDecode
<1> QED BY <1>1, <1>2, TurnCells

\* The slot is released.
LEMMA ReleasedTurnCells ==
    ASSUME CInv, pc \in {"gen", "prompt"}, Becomes(Release(Now, turn)), AfterPrompts(batch),
           UNCHANGED <<batch, off, view, n_batch>>
    PROVE  Counts' /\ Visited' /\ Content(Now', batch', Done')
<1>1. /\ Content(Now, batch, 0) /\ batch \in Seq(TokType) /\ Len(batch) \in Nat /\ Now.slot = slot /\ turn \in Slots /\ Now \in Work
      /\ \A j \in Len(batch) + 1 .. Len(batch) : FALSE
  BY BeforeDecode
<1>2. Content(Release(Now, turn), batch, 0)
  BY <1>1, ContentRelease
<1>3. \A s \in Slots \ {turn} : Release(Now, turn).slot[s] = slot[s]
  BY <1>1, ReleaseIs
<1> QED BY <1>1, <1>2, <1>3, TurnCells

LEMMA ShiftRefusedCells ==
    ASSUME CInv, NEW s \in Slots, ShiftRefused(s)
    PROVE  Counts' /\ Visited' /\ Content(Now', batch', Done')
BY ReleasedTurnCells DEF ShiftRefused

LEMMA PromptRefusedCells ==
    ASSUME CInv, NEW s \in Slots, PromptRefused(s)
    PROVE  Counts' /\ Visited' /\ Content(Now', batch', Done')
BY ReleasedTurnCells DEF PromptRefused, Wanted

\* The server is aborted.
LEMMA AbortCells ==
    ASSUME CInv, NEW s \in Slots, Abort(s)
    PROVE  Counts' /\ Visited' /\ Content(Now', batch', Done')
<1>1. pc = "prompt" /\ pc' = "aborted" /\ Now' = Now /\ UNCHANGED <<batch, off, view, n_batch>>
  BY DEF Abort, Wanted, Now
<1>2. Done' = Done
  BY <1>1 DEF Done
<1>3. Counts'
  BY <1>1 DEF CInv, Counts
<1>4. Visited'
  BY <1>1 DEF Visited
<1> QED BY <1>1, <1>2, <1>3, <1>4 DEF CInv

-----------------------------------------------------------------------------
(* The context shift, and the sampled token.                               *)

\* What a shift keeps of n tokens, and what it drops after that.
KeptFirst == Min({NCtx - Margin, NKeep})
Dropped(n) == Max({0, Min({(n - KeptFirst) \div 2, n - KeptFirst - 1})})
Shortened(tokens) ==
    SubSeq(tokens, 1, KeptFirst) \o SubSeq(tokens, KeptFirst + Dropped(Len(tokens)) + 1, Len(tokens))

\* Of a full context something is dropped, and not the last token.
LEMMA SomeDropped ==
    ASSUME NEW n \in Nat, n + 1 >= NCtx
    PROVE  /\ KeptFirst \in Nat /\ Dropped(n) \in Nat /\ Dropped(n) >= 1
           /\ KeptFirst + Dropped(n) < n
<1>1. NCtx \in Nat /\ Margin \in Nat /\ NKeep \in Nat /\ Margin >= 3 /\ Margin <= NCtx
  BY SizesAssumption
<1>2. KeptFirst = IF NCtx - Margin <= NKeep THEN NCtx - Margin ELSE NKeep
  BY <1>1, MinOfTwo DEF KeptFirst
<1>3. KeptFirst \in Nat /\ KeptFirst + 2 <= n
  BY <1>1, <1>2
<1> DEFINE a == (n - KeptFirst) \div 2
           b == n - KeptFirst - 1
           m == Min({a, b})
<1>4. a \in Int /\ b \in Int /\ a >= 1 /\ b >= 1
  BY <1>3
<1>5. Dropped(n) = Max({0, m})
  BY DEF Dropped
<1> HIDE DEF a
<1>6. m = IF a <= b THEN a ELSE b
  BY <1>4, MinOfTwo
<1> HIDE DEF m
<1>7. m \in Nat /\ m >= 1 /\ m <= b
  BY <1>4, <1>6
<1>8. Dropped(n) = m
  BY <1>5, <1>7, MaxOfTwo
<1> QED BY <1>3, <1>7, <1>8

\* One sequence after the other.
LEMMA ConcatIs ==
    ASSUME NEW T, NEW a \in Seq(T), NEW b \in Seq(T)
    PROVE  /\ a \o b \in Seq(T) /\ Len(a \o b) = Len(a) + Len(b) /\ Len(a) \in Nat /\ Len(b) \in Nat
           /\ \A j \in 1 .. Len(a) : (a \o b)[j] = a[j]
           /\ \A j \in 1 .. Len(b) : (a \o b)[Len(a) + j] = b[j]
<1>1. a \o b \in Seq(T) /\ Len(a \o b) = Len(a) + Len(b) /\ Len(a) \in Nat /\ Len(b) \in Nat
  OBVIOUS
<1>2. ASSUME NEW j \in 1 .. Len(a)
      PROVE  (a \o b)[j] = a[j]
  OBVIOUS
<1>3. ASSUME NEW j \in 1 .. Len(b)
      PROVE  (a \o b)[Len(a) + j] = b[j]
  OBVIOUS
<1> QED BY <1>1, <1>2, <1>3

\* The tokens that are left, each where it was or moved to the front.
LEMMA ShortenedIs ==
    ASSUME NEW tokens \in Seq(Token), Len(tokens) + 1 >= NCtx
    PROVE  LET n == Len(tokens) IN
           /\ Shortened(tokens) \in Seq(Token) /\ Len(Shortened(tokens)) = n - Dropped(n)
           /\ \A p \in Nat : p < KeptFirst => Shortened(tokens)[p + 1] = tokens[p + 1]
           /\ \A p \in Nat : KeptFirst <= p /\ p < n - Dropped(n) => Shortened(tokens)[p + 1] = tokens[p + Dropped(n) + 1]
<1> DEFINE n == Len(tokens)
           k == KeptFirst
           d == Dropped(n)
           a == SubSeq(tokens, 1, k)
           b == SubSeq(tokens, k + d + 1, n)
<1>1. n \in Nat /\ k \in Nat /\ d \in Nat /\ k + d < n
  BY SomeDropped
<1>2. Shortened(tokens) = a \o b
  BY DEF Shortened
<1> HIDE DEF n, k, d
<1>3. a \in Seq(Token) /\ Len(a) = k /\ \A i \in 1 .. k : a[i] = tokens[i]
  BY <1>1, StartOf DEF n
<1>4. b \in Seq(Token) /\ Len(b) = n - (k + d) /\ \A i \in 1 .. n - (k + d) : b[i] = tokens[k + d + i]
  <2> DEFINE m == k + d + 1
  <2>1. m \in Nat /\ m >= 1 /\ n \in Int /\ n <= Len(tokens) /\ m <= n
    BY <1>1 DEF n
  <2> HIDE DEF m
  <2>2. /\ SubSeq(tokens, m, n) \in Seq(Token)
        /\ Len(SubSeq(tokens, m, n)) = IF m <= n THEN n - m + 1 ELSE 0
        /\ \A i \in 1 .. n - m + 1 : SubSeq(tokens, m, n)[i] = tokens[m + i - 1]
    BY <2>1, PartOf
  <2>3. n - m + 1 = n - (k + d) /\ \A i \in Nat : m + i - 1 = k + d + i
    BY <1>1 DEF m
  <2>4. b = SubSeq(tokens, m, n)
    BY DEF m
  <2> HIDE DEF b
  <2> QED BY <1>1, <2>1, <2>2, <2>3, <2>4
<1> HIDE DEF a, b
<1>5. /\ a \o b \in Seq(Token) /\ Len(a \o b) = Len(a) + Len(b)
      /\ \A j \in 1 .. Len(a) : (a \o b)[j] = a[j]
      /\ \A j \in 1 .. Len(b) : (a \o b)[Len(a) + j] = b[j]
  <2>1. a \in Seq(Token) /\ b \in Seq(Token)
    BY <1>3, <1>4
  <2> QED BY <2>1, ConcatIs
<1> DEFINE q == a \o b
<1>6. q \in Seq(Token) /\ Len(q) = n - d
  BY <1>1, <1>3, <1>4, <1>5
<1>7. ASSUME NEW p \in Nat, p < k
      PROVE  q[p + 1] = tokens[p + 1]
  <2>1. p + 1 \in 1 .. k
    BY <1>1, <1>7
  <2> QED BY <1>3, <1>5, <2>1
<1>8. ASSUME NEW p \in Nat, k <= p, p < n - d
      PROVE  q[p + 1] = tokens[p + d + 1]
  <2> DEFINE i == p - k + 1
  <2>1. i \in 1 .. n - (k + d) /\ k + i = p + 1 /\ k + d + i = p + d + 1
    BY <1>1, <1>8
  <2> HIDE DEF i
  <2> QED BY <1>3, <1>4, <1>5, <2>1
<1>9. q = Shortened(tokens)
  BY <1>2
<1> HIDE DEF q
<1>10. /\ Shortened(tokens) \in Seq(Token) /\ Len(Shortened(tokens)) = n - d
       /\ \A p \in Nat : p < k => Shortened(tokens)[p + 1] = tokens[p + 1]
       /\ \A p \in Nat : k <= p /\ p < n - d => Shortened(tokens)[p + 1] = tokens[p + d + 1]
  BY <1>6, <1>7, <1>8, <1>9
<1> QED BY <1>10, Zenon DEF n, k, d

\* What is shifted.
LEMMA ShiftedParts ==
    ASSUME NEW w \in Work, NEW s \in Slots, Len(w.slot[s].tokens) + 1 >= NCtx
    PROVE  LET v      == Shifted(w, s)
               tokens == w.slot[s].tokens
               n      == Len(tokens)
               from   == KeptFirst + Dropped(n)
           IN  /\ v \in Work /\ v.saved = w.saved /\ v.spoiled = w.spoiled \cup Sharers(w.cells, s, from, n)
               /\ v.cells = SeqAdd(SeqRm(w.cells, s, KeptFirst, from), s, from, n, - Dropped(n))
               /\ v.slot[s] = [w.slot[s] EXCEPT !.tokens = Shortened(tokens), !.truncated = TRUE]
               /\ \A t \in Slots \ {s} : v.slot[t] = w.slot[t]
<1> DEFINE n    == Len(w.slot[s].tokens)
           from == KeptFirst + Dropped(n)
           left == Shortened(w.slot[s].tokens)
           c    == SeqAdd(SeqRm(w.cells, s, KeptFirst, from), s, from, n, - Dropped(n))
           sp   == w.spoiled \cup Sharers(w.cells, s, from, n)
           v    == Shifted(w, s)
<1>1. v = [w EXCEPT !.slot[s].tokens = left, !.slot[s].truncated = TRUE, !.cells = c, !.spoiled = sp]
  BY DEF Shifted, KeptFirst, Dropped, Shortened
<1>2. v \in Work /\ \A t \in Slots \ {s} : v.slot[t] = w.slot[t]
  BY ShiftedIs
<1>3. w.slot[s] \in SlotType
  BY WorkParts
<1> HIDE DEF left, c, sp, v
<1>4. /\ v.saved = w.saved /\ v.spoiled = sp /\ v.cells = c
      /\ v.slot[s] = [w.slot[s] EXCEPT !.tokens = left, !.truncated = TRUE]
  BY <1>1, <1>3 DEF Work, SlotType
<1> QED BY <1>2, <1>4 DEF left, c, sp, v

\* Cells that lose the sequence have no sharers of it.
LEMMA SharersLeft ==
    ASSUME NEW all \in SUBSET CellType, NEW s \in Slots, NEW p0, NEW p1, NEW q0, NEW q1
    PROVE  Sharers(SeqRm(all, s, p0, p1), s, q0, q1) \subseteq Sharers(all, s, q0, q1)
<1>1. \A c \in SeqRm(all, s, p0, p1) : s \in c.seqs => c \in all
  <2>1. Within(all, s, p0, p1) \in SUBSET all
    BY CellsType
  <2>2. \A c \in Within(all, s, p0, p1) : s \notin [c EXCEPT !.seqs = @ \ {s}].seqs
    BY <2>1 DEF CellType
  <2> QED BY <2>1, <2>2 DEF SeqRm
<1>2. Within(SeqRm(all, s, p0, p1), s, q0, q1) \subseteq Within(all, s, q0, q1)
  BY <1>1 DEF Within
<1> DEFINE A == Within(SeqRm(all, s, p0, p1), s, q0, q1)
           B == Within(all, s, q0, q1)
<1> HIDE DEF A, B
<1>3. (UNION {c.seqs : c \in A}) \ {s} \subseteq (UNION {c.seqs : c \in B}) \ {s}
  BY <1>2 DEF A, B
<1> QED BY <1>3 DEF A, B, Sharers

\* What the memory does, one operation and one sequence at a time.
LEMMA RmOwn ==
    ASSUME NEW all \in SUBSET CellType, NEW s \in Slots, NEW p0, NEW p1
    PROVE  /\ SeqRm(all, s, p0, p1) \in SUBSET CellType /\ (Sound(all) => Sound(SeqRm(all, s, p0, p1)))
           /\ \A d : d \in Data(SeqRm(all, s, p0, p1), s) <=> d \in Data(all, s) /\ ~In(d, p0, p1)
<1>1. SeqRm(all, s, p0, p1) \in SUBSET CellType
  BY CellsType, Zenon
<1>2. Sound(all) => Sound(SeqRm(all, s, p0, p1))
  BY SoundCells, Zenon
<1>3. \A d : d \in Data(SeqRm(all, s, p0, p1), s) <=> d \in Data(all, s) /\ ~In(d, p0, p1)
  BY DataSeqRm
<1> QED BY <1>1, <1>2, <1>3, Zenon

LEMMA RmOthers ==
    ASSUME NEW all \in SUBSET CellType, NEW s \in Slots, NEW p0, NEW p1, NEW t \in Slots \ {s}
    PROVE  Data(SeqRm(all, s, p0, p1), t) = Data(all, t)
BY DataSeqRm

LEMMA AddOwn ==
    ASSUME NEW all \in SUBSET CellType, NEW s \in Slots, NEW p0, NEW p1, NEW delta \in Int
    PROVE  /\ SeqAdd(all, s, p0, p1, delta) \in SUBSET CellType
           /\ Sound(all) /\ delta <= 0 => Sound(SeqAdd(all, s, p0, p1, delta))
           /\ \A d : d \in Data(SeqAdd(all, s, p0, p1, delta), s) <=>
                 \/ d \in Data(all, s) /\ ~In(d, p0, p1)
                 \/ \E e \in Data(all, s) : In(e, p0, p1) /\ e.pos + delta >= 0 /\ d = [tok |-> e.tok, pos |-> e.pos + delta]
<1>1. SeqAdd(all, s, p0, p1, delta) \in SUBSET CellType
  BY CellsType, Zenon
<1>2. Sound(all) /\ delta <= 0 => Sound(SeqAdd(all, s, p0, p1, delta))
  BY SoundCells, Zenon
<1>3. \A d : d \in Data(SeqAdd(all, s, p0, p1, delta), s) <=>
                 \/ d \in Data(all, s) /\ ~In(d, p0, p1)
                 \/ \E e \in Data(all, s) : In(e, p0, p1) /\ e.pos + delta >= 0 /\ d = [tok |-> e.tok, pos |-> e.pos + delta]
  BY DataAddOwn
<1> QED BY <1>1, <1>2, <1>3, Zenon

\* The cells that are left of a full context are those of the tokens that are left.
LEMMA ShiftedData ==
    ASSUME NEW all \in SUBSET CellType, NEW s \in Slots, NEW tokens \in Seq(Token), Len(tokens) + 1 >= NCtx,
           Data(all, s) = Firsts(tokens, Len(tokens)), NEW from, from = KeptFirst + Dropped(Len(tokens))
    PROVE  Data(SeqAdd(SeqRm(all, s, KeptFirst, from), s, from, Len(tokens), - Dropped(Len(tokens))), s)
             = Firsts(Shortened(tokens), Len(Shortened(tokens)))
<1> DEFINE n     == Len(tokens)
           k     == KeptFirst
           d     == Dropped(n)
           short == Shortened(tokens)
           A     == SeqRm(all, s, k, from)
           B     == SeqAdd(A, s, from, n, -d)
<1>1. n \in Nat /\ k \in Nat /\ d \in Nat /\ d >= 1 /\ k + d < n /\ from = k + d
  BY SomeDropped
<1>2. short \in Seq(Token) /\ Len(short) = n - d /\ n - d \in Nat
  <2>1. short \in Seq(Token) /\ Len(short) = n - d
    BY ShortenedIs
  <2> HIDE DEF d, n, short
  <2> QED BY <1>1, <2>1
<1>3. /\ \A p \in Nat : p < k => short[p + 1] = tokens[p + 1]
      /\ \A p \in Nat : k <= p /\ p < n - d => short[p + 1] = tokens[p + d + 1]
  BY ShortenedIs, Zenon
<1>4. A \in SUBSET CellType /\ -d \in Int
  <2> HIDE DEF k, d
  <2> QED BY <1>1, RmOwn
<1> HIDE DEF n, k, d, short
<1>5. \A e : e \in Data(A, s) <=> e \in Data(all, s) /\ ~In(e, k, from)
  BY RmOwn
<1> HIDE DEF A
<1>6. ASSUME NEW e
      PROVE  e \in Data(B, s) <=> \/ e \in Data(A, s) /\ ~In(e, from, n)
                                  \/ \E g \in Data(A, s) : In(g, from, n) /\ g.pos + (-d) >= 0 /\ e = [tok |-> g.tok, pos |-> g.pos + (-d)]
  <2> DEFINE m == -d
  <2>1. m \in Int
    BY <1>4
  <2> HIDE DEF m
  <2>2. e \in Data(SeqAdd(A, s, from, n, m), s) <=>
           \/ e \in Data(A, s) /\ ~In(e, from, n)
           \/ \E g \in Data(A, s) : In(g, from, n) /\ g.pos + m >= 0 /\ e = [tok |-> g.tok, pos |-> g.pos + m]
    BY <1>4, <2>1, AddOwn
  <2> QED BY <2>2 DEF m
<1> HIDE DEF B
<1>7. /\ \A e \in Data(all, s) : e.pos \in Nat /\ e.pos < n /\ e = [tok |-> tokens[e.pos + 1], pos |-> e.pos]
      /\ \A p \in Nat : p < n => [tok |-> tokens[p + 1], pos |-> p] \in Data(all, s)
  BY <1>1, FirstsAre DEF n
<1>8. /\ \A e \in Firsts(short, n - d) : e.pos \in Nat /\ e.pos < n - d /\ e = [tok |-> short[e.pos + 1], pos |-> e.pos]
      /\ \A p \in Nat : p < n - d => [tok |-> short[p + 1], pos |-> p] \in Firsts(short, n - d)
  BY <1>2, FirstsAre
<1>9. ASSUME NEW e \in Data(A, s), ~In(e, from, n)
      PROVE  e \in Firsts(short, n - d)
  <2>1. e.pos \in Nat /\ e.pos < n /\ e = [tok |-> tokens[e.pos + 1], pos |-> e.pos] /\ ~In(e, k, from)
    BY <1>5, <1>7
  <2>2. e.pos < k
    BY <1>1, <1>9, <2>1 DEF In
  <2>3. e.pos < n - d /\ e = [tok |-> short[e.pos + 1], pos |-> e.pos]
    BY <1>1, <1>3, <2>1, <2>2
  <2> QED BY <1>8, <2>1, <2>3
<1>10. ASSUME NEW g \in Data(A, s), In(g, from, n), NEW e, e = [tok |-> g.tok, pos |-> g.pos + (-d)]
       PROVE  e \in Firsts(short, n - d)
  <2>1. g.pos \in Nat /\ g.pos < n /\ g = [tok |-> tokens[g.pos + 1], pos |-> g.pos]
    BY <1>5, <1>7
  <2> DEFINE p == g.pos - d
  <2>2. p \in Nat /\ k <= p /\ p < n - d /\ p + d + 1 = g.pos + 1 /\ g.pos + (-d) = p
    BY <1>1, <1>10, <2>1 DEF In
  <2>3. e = [tok |-> tokens[g.pos + 1], pos |-> p]
    BY <1>10, <2>1, <2>2
  <2> HIDE DEF p
  <2>4. short[p + 1] = tokens[p + d + 1]
    BY <1>3, <2>2
  <2> QED BY <1>8, <2>2, <2>3, <2>4
<1>11. ASSUME NEW e \in Firsts(short, n - d)
       PROVE  e \in Data(B, s)
  <2> DEFINE p == e.pos
  <2>1. p \in Nat /\ p < n - d /\ e = [tok |-> short[p + 1], pos |-> p]
    BY <1>8
  <2> HIDE DEF p
  <2>2. CASE p < k
    <3>1. e = [tok |-> tokens[p + 1], pos |-> p] /\ p < n
      BY <1>1, <1>3, <2>1, <2>2
    <3>2. e \in Data(all, s) /\ e.pos = p
      BY <1>7, <2>1, <3>1
    <3>3. ~In(e, k, from) /\ ~In(e, from, n)
      BY <1>1, <2>1, <2>2, <3>2 DEF In
    <3> QED BY <1>5, <1>6, <3>2, <3>3
  <2>3. CASE ~(p < k)
    <3> DEFINE q == p + d
               g == [tok |-> tokens[q + 1], pos |-> q]
    <3>1. q \in Nat /\ q < n /\ q >= from /\ q + (-d) = p /\ p >= 0 /\ k <= p /\ p + d + 1 = q + 1
      BY <1>1, <2>1, <2>3
    <3> HIDE DEF q
    <3>2. g \in Data(all, s) /\ g.pos = q /\ g.tok = tokens[q + 1]
      BY <1>7, <3>1
    <3>3. ~In(g, k, from) /\ In(g, from, n)
      BY <1>1, <3>1, <3>2 DEF In
    <3>4. g \in Data(A, s)
      BY <1>5, <3>2, <3>3
    <3>5. e = [tok |-> g.tok, pos |-> g.pos + (-d)]
      <4>1. short[p + 1] = tokens[q + 1]
        BY <1>3, <2>1, <3>1
      <4> QED BY <2>1, <3>1, <4>1
    <3>6. g.pos + (-d) >= 0
      BY <3>1, <3>2
    <3> HIDE DEF g
    <3> QED BY <1>6, <3>3, <3>4, <3>5, <3>6
  <2> QED BY <2>2, <2>3
<1>12. Data(B, s) = Firsts(short, n - d)
  BY <1>6, <1>9, <1>10, <1>11
<1> QED BY <1>2, <1>12 DEF B, A, n, k, d, short

\* The slot and the cells that the sampled token and the draft are added to: something is
\* free of the context, and the cells are the tokens.
Ready(w, v, s) ==
    /\ v \in Work /\ Leaves(w, v, {s}) /\ Sound(v.cells) /\ v.saved = w.saved
    /\ Len(v.slot[s].tokens) + 1 < NCtx /\ v.slot[s].state = w.slot[s].state /\ v.slot[s].task = w.slot[s].task
    /\ s \notin v.spoiled => Data(v.cells, s) = Firsts(v.slot[s].tokens, Len(v.slot[s].tokens))

\* It is so after a shift.
LEMMA ShiftedReady ==
    ASSUME NEW w \in Work, NEW s \in Slots, Sound(w.cells), Len(w.slot[s].tokens) + 1 >= NCtx, Len(w.slot[s].tokens) < NCtx,
           s \notin w.spoiled => Data(w.cells, s) = Firsts(w.slot[s].tokens, Len(w.slot[s].tokens))
    PROVE  Ready(w, Shifted(w, s), s)
<1> DEFINE v      == Shifted(w, s)
           tokens == w.slot[s].tokens
           n      == Len(tokens)
           from   == KeptFirst + Dropped(n)
           A      == SeqRm(w.cells, s, KeptFirst, from)
<1>1. /\ v \in Work /\ v.saved = w.saved /\ v.spoiled = w.spoiled \cup Sharers(w.cells, s, from, n)
      /\ v.cells = SeqAdd(A, s, from, n, - Dropped(n))
      /\ v.slot[s] = [w.slot[s] EXCEPT !.tokens = Shortened(tokens), !.truncated = TRUE]
      /\ \A t \in Slots \ {s} : v.slot[t] = w.slot[t]
  BY ShiftedParts
<1>2. w.cells \in SUBSET CellType /\ w.slot[s] \in SlotType /\ tokens \in Seq(Token)
  BY WorkParts, SlotParts
<1>3. n \in Nat /\ Dropped(n) \in Nat /\ Dropped(n) >= 1 /\ KeptFirst \in Nat /\ KeptFirst + Dropped(n) < n
  <2>1. n \in Nat /\ n + 1 >= NCtx
    BY <1>2
  <2> HIDE DEF n
  <2> QED BY <2>1, SomeDropped
<1>4. Shortened(tokens) \in Seq(Token) /\ Len(Shortened(tokens)) = n - Dropped(n)
  BY <1>2, ShortenedIs
<1>5. /\ v.slot[s].tokens = Shortened(tokens) /\ v.slot[s].state = w.slot[s].state /\ v.slot[s].task = w.slot[s].task
  <2> HIDE DEF v
  <2> QED BY <1>1, <1>2 DEF SlotType
<1> HIDE DEF v
<1>6. s \notin v.spoiled => Data(v.cells, s) = Firsts(Shortened(tokens), Len(Shortened(tokens)))
  <2>1. SUFFICES ASSUME s \notin v.spoiled
                 PROVE  Data(v.cells, s) = Firsts(Shortened(tokens), Len(Shortened(tokens)))
    OBVIOUS
  <2>2. Data(w.cells, s) = Firsts(tokens, n)
    BY <1>1, <2>1
  <2> QED BY <1>1, <1>2, <2>2, ShiftedData
<1> HIDE DEF n, tokens
<1>7. A \in SUBSET CellType /\ Sound(A) /\ - Dropped(n) \in Int /\ - Dropped(n) <= 0
  <2>1. A \in SUBSET CellType /\ Sound(A)
    BY <1>2, RmOwn
  <2> QED BY <1>3, <2>1
<1>8. Sound(v.cells)
  <2> HIDE DEF A, from
  <2> QED BY <1>1, <1>7, AddOwn
<1>9. Leaves(w, v, {s})
  <2>1. ASSUME NEW t \in Slots \ {s}, t \notin v.spoiled
        PROVE  t \notin w.spoiled /\ Data(v.cells, t) = Data(w.cells, t)
    <3>1. t \notin w.spoiled /\ t \notin Sharers(w.cells, s, from, n)
      BY <1>1, <2>1
    <3>2. t \notin Sharers(A, s, from, n)
      BY <1>2, <3>1, SharersLeft
    <3>3. Data(A, t) = Data(w.cells, t)
      BY <1>2, RmOthers
    <3> HIDE DEF A, from
    <3>4. Data(v.cells, t) = Data(A, t)
      BY <1>1, <1>7, <3>2, AddOthers
    <3> QED BY <3>1, <3>3, <3>4
  <2> QED BY <1>1, <2>1 DEF Leaves
<1>10. Len(Shortened(tokens)) + 1 < NCtx
  <2>1. n < NCtx /\ NCtx \in Nat
    BY SizesAssumption DEF n, tokens
  <2> QED BY <1>3, <1>4, <2>1
<1> QED BY <1>1, <1>5, <1>6, <1>8, <1>9, <1>10 DEF Ready, v

\* Tokens are added to the slot and to the batch.
LEMMA FineAdds ==
    ASSUME NEW s \in Slots, NEW y, NEW old \in Seq(Token), NEW d, NEW bad, NEW m \in Nat,
           NEW b \in Seq(TokType), Clean(s, b, 0), NEW c \in Seq(TokType), Len(c) = Len(b) + m,
           \A j \in 1 .. Len(b) : c[j] = b[j],
           \A j \in 1 .. m : c[Len(b) + j].slot = s /\ c[Len(b) + j].pos = Len(old) + j - 1
                             /\ c[Len(b) + j].tok = y.tokens[Len(old) + j],
           y.tokens \in Seq(Token), Len(y.tokens) = Len(old) + m, \A j \in 1 .. Len(old) : y.tokens[j] = old[j],
           y.state \notin {"STARTED", "WAIT_OTHER"},
           m > 0 /\ y.state \in {"DONE_PROMPT", "GENERATING"} => y.i_batch + Len(y.draft) = Len(b) + m,
           ~bad => d = Firsts(old, Len(old))
    PROVE  Fine(s, y, d, bad, c, 0)
<1> DEFINE lo == Len(b) + 1
           hi == Len(b) + m
           k  == Len(old)
<1>1. Len(b) \in Nat /\ lo \in Nat /\ hi \in Nat /\ k \in Nat /\ hi - lo = m - 1 /\ Len(c) = hi /\ k + m - (hi - lo + 1) = k
  OBVIOUS
<1> HIDE DEF k
<1>2. \A j \in 1 .. Len(c) : c[j].slot = s <=> lo <= j /\ j <= hi
  <2>1. ASSUME NEW j \in 1 .. Len(c), j <= Len(b)
        PROVE  c[j].slot # s
    <3>1. j \in 0 + 1 .. Len(b) /\ c[j] = b[j]
      BY <1>1, <2>1
    <3> QED BY <3>1 DEF Clean
  <2>2. ASSUME NEW j \in 1 .. Len(c), ~(j <= Len(b))
        PROVE  c[j].slot = s
    <3> DEFINE i == j - Len(b)
    <3>1. i \in 1 .. m /\ Len(b) + i = j
      BY <1>1, <2>2
    <3> HIDE DEF i
    <3> QED BY <3>1
  <2> QED BY <1>1, <2>1, <2>2
<1>3. \A j \in lo .. hi : LET i == Len(y.tokens) - (hi - j) IN c[j].pos = i - 1 /\ c[j].tok = y.tokens[i]
  <2>1. ASSUME NEW j \in lo .. hi, NEW p, p = Len(y.tokens) - (hi - j)
        PROVE  c[j].pos = p - 1 /\ c[j].tok = y.tokens[p]
    <3> DEFINE i == j - Len(b)
    <3>1. i \in 1 .. m /\ Len(b) + i = j /\ p = k + i
      <4>1. Len(y.tokens) = k + m
        BY DEF k
      <4>2. i \in 1 .. m /\ Len(b) + i = j
        BY <1>1
      <4>3. hi - j = m - i /\ hi - j \in Int /\ i \in Nat
        BY <1>1
      <4> HIDE DEF i, hi, lo
      <4>4. p = (k + m) - (m - i)
        BY <2>1, <4>1, <4>3
      <4>5. p = k + i
        BY <1>1, <4>3, <4>4
      <4> QED BY <4>2, <4>5
    <3> HIDE DEF i, hi, lo
    <3>2. c[Len(b) + i].pos = k + i - 1 /\ c[Len(b) + i].tok = y.tokens[k + i]
      BY <3>1 DEF k
    <3>3. c[j].pos = k + i - 1 /\ c[j].tok = y.tokens[k + i]
      BY <3>1, <3>2
    <3>4. p = k + i
      BY <3>1
    <3>5. c[j].pos = p - 1
      BY <1>1, <3>1, <3>3, <3>4
    <3>6. c[j].tok = y.tokens[p]
      BY <3>3, <3>4
    <3> QED BY <3>5, <3>6
  <2> HIDE DEF lo, hi
  <2> QED BY <2>1, Zenon
<1>4. Spans(s, y, c, 0, lo, hi)
  <2>1. Len(y.tokens) = k + m
    BY DEF k
  <2> QED BY <1>1, <1>2, <1>3, <2>1 DEF Spans
<1>5. Reaches(y, lo, hi)
  <2>1. hi >= lo => m > 0
    BY <1>1
  <2> QED BY <2>1 DEF Reaches
<1>6. ~bad => HoldsBut(y, d, lo, hi)
  <2>1. SUFFICES ASSUME ~bad
                 PROVE  HoldsBut(y, d, lo, hi)
    OBVIOUS
  <2>2. d = Firsts(old, k) /\ k <= Len(old)
    BY <1>1, <2>1 DEF k
  <2>3. \A j \in 1 .. k : y.tokens[j] = old[j]
    BY DEF k
  <2>4. d = Firsts(y.tokens, k)
    BY <1>1, <2>2, <2>3, FirstsAlike
  <2>5. Holds(d, y.tokens, k)
    <3>1. k <= Len(y.tokens)
      BY <1>1 DEF k
    <3> QED BY <1>1, <2>4, <3>1, FirstsHold
  <2>6. Len(y.tokens) - (hi - lo + 1) = k
    BY <1>1 DEF k
  <2> QED BY <2>4, <2>5, <2>6 DEF HoldsBut
<1> HIDE DEF lo, hi
<1> QED BY <1>1, <1>4, <1>5, <1>6 DEF Fine

\* A slot that works has its tokens in the cache and nothing else, unless it is spoiled.
LEMMA ExactIs ==
    ASSUME NEW w, NEW b \in Seq(TokType), Content(w, b, 0), NEW s \in Slots, Clean(s, b, 0), Strict(w.slot[s])
    PROVE  s \notin w.spoiled => Data(w.cells, s) = Firsts(w.slot[s].tokens, Len(w.slot[s].tokens))
<1>1. Fine(s, w.slot[s], Data(w.cells, s), s \in w.spoiled, b, 0) /\ w \in Work
  BY DEF Content
<1>2. w.slot[s] \in SlotType /\ Data(w.cells, s) \in SUBSET DataType /\ (s \in w.spoiled) \in BOOLEAN
  <2>1. w.slot[s] \in SlotType /\ w.cells \in SUBSET CellType
    BY <1>1, WorkParts
  <2>2. Data(w.cells, s) \in SUBSET DataType
    BY <2>1, CellsType
  <2>3. (s \in w.spoiled) \in BOOLEAN
    OBVIOUS
  <2> QED BY <2>1, <2>2, <2>3
<1>3. Backed(w.slot[s], Data(w.cells, s), s \in w.spoiled)
  BY <1>1, <1>2, FineIsBacked
<1> QED BY <1>3 DEF Backed

\* handle_last_sampled_token.
LEMMA GenerateCells ==
    ASSUME CInv, NEW s \in Slots, Generate(s)
    PROVE  Counts' /\ Visited' /\ Content(Now', batch', Done')
<1> DEFINE x == slot[s]
           w == IF Full(s) THEN Shifted(Now, s) ELSE Now
           n == Len(w.slot[s].tokens)
<1>1. /\ pc = "gen" /\ turn = s /\ x.state = "GENERATING" /\ x \in SlotType /\ Clean(s, batch, 0) /\ Content(Now, batch, 0)
      /\ Now \in Work /\ Now.slot = slot /\ batch \in Seq(TokType) /\ Len(batch) \in Nat /\ UNCHANGED <<off, view, n_batch>>
      /\ AfterPrompts(batch') /\ Sound(cells) /\ (\A i \in DOMAIN saved : Whole(saved[i])) /\ Apt(x)
  <2>1. pc = "gen" /\ turn = s /\ x.state = "GENERATING" /\ AfterPrompts(batch') /\ UNCHANGED <<off, view, n_batch>>
    BY DEF Generate
  <2>2. /\ Content(Now, batch, 0) /\ batch \in Seq(TokType) /\ Now \in Work /\ Now.slot = slot /\ Len(batch) \in Nat
        /\ x \in SlotType /\ Clean(s, batch, 0)
    BY <2>1, BeforeDecode
  <2>3. Sound(cells) /\ (\A i \in DOMAIN saved : Whole(saved[i])) /\ Apt(x)
    BY <2>2 DEF Content, Now
  <2> QED BY <2>1, <2>2, <2>3
<1>2. PICK draft \in Drafts(Min({NCtx - n - 2, MaxOut - Len(slot[s].out) - 1})) :
        LET new == <<Last(slot[s].out)>> \o draft
        IN  /\ batch' = batch \o [j \in DOMAIN new |-> [slot |-> s, tok |-> new[j], pos |-> n + j - 1]]
            /\ Becomes([w EXCEPT !.slot[s].tokens = @ \o new, !.slot[s].draft = draft,
                                 !.slot[s].i_batch = Len(batch) + 1])
  BY DEF Generate
<1> DEFINE new == <<Last(x.out)>> \o draft
           more == [j \in DOMAIN new |-> [slot |-> s, tok |-> new[j], pos |-> n + j - 1]]
           i == Len(batch) + 1
           v == [w EXCEPT !.slot[s].tokens = @ \o new, !.slot[s].draft = draft, !.slot[s].i_batch = i]
           z == [w.slot[s] EXCEPT !.tokens = w.slot[s].tokens \o new, !.draft = draft, !.i_batch = i]
<1>3. batch' = batch \o more /\ Becomes(v)
  BY <1>2
<1>4. Ready(Now, w, s)
  <2>1. Sound(Now.cells) /\ Len(Now.slot[s].tokens) < NCtx
    BY <1>1 DEF Now, Apt
  <2>2. s \notin Now.spoiled => Data(Now.cells, s) = Firsts(Now.slot[s].tokens, Len(Now.slot[s].tokens))
    BY <1>1, ExactIs DEF Strict
  <2>3. CASE Full(s)
    <3>1. Len(Now.slot[s].tokens) + 1 >= NCtx
      BY <1>1, <2>3 DEF Full
    <3> QED BY <1>1, <2>1, <2>2, <2>3, <3>1, ShiftedReady
  <2>4. CASE ~Full(s)
    <3>1. ~(Len(Now.slot[s].tokens) + 1 >= NCtx)
      BY <1>1, <2>4 DEF Full
    <3>2. Len(Now.slot[s].tokens) \in Nat /\ NCtx \in Nat
      BY <1>1, SlotParts, LenProperties, SizesAssumption
    <3>3. Len(Now.slot[s].tokens) + 1 < NCtx
      BY <3>1, <3>2
    <3>4. Leaves(Now, Now, {s})
      BY DEF Leaves
    <3>5. Ready(Now, Now, s)
      BY <1>1, <2>1, <2>2, <3>3, <3>4 DEF Ready
    <3> QED BY <2>4, <3>5
  <2> QED BY <2>3, <2>4
<1> HIDE DEF w
<1>5. /\ w \in Work /\ Leaves(Now, w, {s}) /\ Sound(w.cells) /\ w.saved = saved /\ w.slot[s].state = "GENERATING"
      /\ s \notin w.spoiled => Data(w.cells, s) = Firsts(w.slot[s].tokens, n)
      /\ w.slot[s] \in SlotType /\ w.slot[s].tokens \in Seq(Token) /\ n \in Nat /\ n + 1 < NCtx
      /\ \A t \in Slots \ {s} : w.slot[t] = slot[t]
  <2>1. w \in Work /\ Leaves(Now, w, {s}) /\ Sound(w.cells) /\ w.saved = saved /\ w.slot[s].state = "GENERATING"
    BY <1>1, <1>4 DEF Ready, Now
  <2>2. w.slot[s] \in SlotType /\ w.slot[s].tokens \in Seq(Token)
    BY <2>1, WorkParts, SlotParts
  <2>3. n \in Nat
    BY <2>2, LenProperties
  <2>4. \A t \in Slots \ {s} : w.slot[t] = slot[t]
    BY <1>1, <2>1 DEF Leaves
  <2> QED BY <1>4, <2>1, <2>2, <2>3, <2>4 DEF Ready
<1>6. draft \in Seq(Sampled) /\ Len(draft) \in Nat /\ Len(draft) <= NCtx - n - 2
  <2> DEFINE r == Min({NCtx - n - 2, MaxOut - Len(slot[s].out) - 1})
             q == Max({0, Min({MaxDraft, r})})
  <2>1. NCtx - n - 2 \in Nat /\ MaxOut - Len(slot[s].out) - 1 \in Int /\ MaxDraft \in Nat
    <3>1. Len(slot[s].out) \in Nat /\ MaxOut \in Nat /\ NCtx \in Nat /\ MaxDraft \in Nat
      BY <1>1, SlotParts, LenProperties, SizesAssumption
    <3> HIDE DEF n
    <3> QED BY <1>5, <3>1
  <2>2. r \in Int /\ r <= NCtx - n - 2
    <3> HIDE DEF n
    <3> QED BY <2>1, MinOfTwo
  <2>3. q = Max({0, Min({MaxDraft, r})}) /\ draft \in UNION {[1 .. k -> Sampled] : k \in 0 .. q}
    BY <1>2 DEF Drafts
  <2> HIDE DEF q, r
  <2> DEFINE m == Min({MaxDraft, r})
  <2>4. m \in Int /\ m <= r
    BY <2>1, <2>2, MinOfTwo
  <2> HIDE DEF m
  <2>5. q = IF 0 >= m THEN 0 ELSE m
    <3>1. q = Max({0, m})
      BY <2>3 DEF m
    <3> QED BY <2>4, <3>1, MaxOfTwo
  <2>6. q \in Nat /\ q <= NCtx - n - 2
    <3> HIDE DEF n
    <3> QED BY <2>1, <2>2, <2>4, <2>5
  <2>7. PICK k \in 0 .. q : draft \in [1 .. k -> Sampled]
    BY <2>3
  <2>8. draft \in Seq(Sampled) /\ Len(draft) = k
    BY <2>7
  <2> HIDE DEF n
  <2> QED BY <2>1, <2>6, <2>8
<1>7. /\ new \in Seq(Token) /\ Len(new) = Len(draft) + 1 /\ \A j \in 1 .. Len(draft) : new[1 + j] = draft[j]
  <2>1. x.out \in Seq(Sampled) /\ x.out # <<>> /\ Sampled \subseteq Token
    <3>1. IInv /\ ~(s < s)
      BY DEF CInv, Slots
    <3>2. Rested(x)
      BY <1>1, <3>1 DEF IInv, Flow
    <3> QED BY <1>1, <3>2, SlotParts DEF Rested, Token
  <2>2. Last(x.out) \in Token
    BY <2>1, FrontLast
  <2> DEFINE a == <<Last(x.out)>>
  <2>3. a \in Seq(Token) /\ Len(a) = 1 /\ draft \in Seq(Token)
    BY <1>6, <2>1, <2>2
  <2> HIDE DEF a
  <2>4. /\ a \o draft \in Seq(Token) /\ Len(a \o draft) = Len(a) + Len(draft)
        /\ \A j \in 1 .. Len(draft) : (a \o draft)[Len(a) + j] = draft[j]
    <3>1. a \in Seq(Token) /\ draft \in Seq(Token)
      BY <2>3
    <3> QED BY <3>1, ConcatIs
  <2> QED BY <1>6, <2>3, <2>4 DEF a
<1> HIDE DEF new
<1> DEFINE m == Len(draft) + 1
<1>8. /\ batch' \in Seq(TokType) /\ Len(batch') = Len(batch) + m /\ m \in Nat /\ n + m < NCtx
      /\ \A j \in 1 .. Len(batch) : batch'[j] = batch[j]
      /\ \A j \in 1 .. m : batch'[Len(batch) + j] = [slot |-> s, tok |-> new[j], pos |-> n + j - 1]
  <2>1. m \in Nat /\ n + m < NCtx
    <3> HIDE DEF n
    <3> QED BY <1>5, <1>6, SizesAssumption, SMTT(60)
  <2>2. DOMAIN new = 1 .. m /\ \A j \in 1 .. m : new[j] \in Token
    BY <1>7
  <2>3. \A j \in 1 .. m : n + j - 1 \in Nat
    <3> HIDE DEF n
    <3> QED BY <1>5
  <2> HIDE DEF m, n
  <2>4. more \in Seq(TokType) /\ Len(more) = m /\ \A j \in 1 .. m : more[j] = [slot |-> s, tok |-> new[j], pos |-> n + j - 1]
    <3>1. \A j \in 1 .. m : [slot |-> s, tok |-> new[j], pos |-> n + j - 1] \in TokType
      BY <2>2, <2>3 DEF TokType
    <3>2. more \in [1 .. m -> TokType]
      BY <2>2, <3>1
    <3> QED BY <2>1, <2>2, <3>2
  <2> HIDE DEF more
  <2>5. /\ batch \o more \in Seq(TokType) /\ Len(batch \o more) = Len(batch) + Len(more)
        /\ \A j \in 1 .. Len(batch) : (batch \o more)[j] = batch[j]
        /\ \A j \in 1 .. Len(more) : (batch \o more)[Len(batch) + j] = more[j]
    <3>1. batch \in Seq(TokType) /\ more \in Seq(TokType)
      BY <1>1, <2>4
    <3> QED BY <3>1, ConcatIs
  <2> QED BY <1>3, <2>1, <2>4, <2>5
<1> HIDE DEF more
<1>9. /\ w.slot[s].tokens \o new \in Seq(Token) /\ Len(w.slot[s].tokens \o new) = n + m
      /\ \A j \in 1 .. n : (w.slot[s].tokens \o new)[j] = w.slot[s].tokens[j]
      /\ \A j \in 1 .. m : (w.slot[s].tokens \o new)[n + j] = new[j]
  <2> DEFINE tk == w.slot[s].tokens
  <2>1. tk \in Seq(Token) /\ n = Len(tk) /\ new \in Seq(Token) /\ m = Len(new)
    BY <1>5, <1>7
  <2> HIDE DEF tk, n, m
  <2>2. /\ tk \o new \in Seq(Token) /\ Len(tk \o new) = Len(tk) + Len(new)
        /\ \A j \in 1 .. Len(tk) : (tk \o new)[j] = tk[j]
        /\ \A j \in 1 .. Len(new) : (tk \o new)[Len(tk) + j] = new[j]
    <3>1. tk \in Seq(Token) /\ new \in Seq(Token)
      BY <2>1
    <3> QED BY <3>1, ConcatIs
  <2> QED BY <2>1, <2>2 DEF tk
<1>10. i \in Nat /\ z \in SlotType
  <2>1. i \in Nat
    BY <1>1
  <2> HIDE DEF i, n, m
  <2> QED BY <1>5, <1>6, <1>9, <2>1 DEF SlotType
<1>11. v = [w EXCEPT !.slot[s] = z]
  <2> HIDE DEF i
  <2> QED BY <1>5 DEF Work, SlotType
<1>12. v \in Work /\ v.slot[s] = z /\ (\A t \in Slots \ {s} : v.slot[t] = w.slot[t]) /\ v.cells = w.cells /\ v.saved = w.saved /\ v.spoiled = w.spoiled
  <2> HIDE DEF v, z
  <2> QED BY <1>5, <1>10, <1>11 DEF Work
<1>13. z.tokens = w.slot[s].tokens \o new /\ z.draft = draft /\ z.i_batch = i /\ z.state = "GENERATING"
  <2> HIDE DEF i
  <2> QED BY <1>5 DEF SlotType
<1> HIDE DEF v, z
<1>14. Leaves(Now, v, {s})
  BY <1>5, <1>12 DEF Leaves
<1>15. Apt(z)
  <2>1. \A j \in 1 .. Len(draft) : z.tokens[n + m - Len(draft) + j] = draft[j]
    <3>1. ASSUME NEW j \in 1 .. Len(draft)
          PROVE  z.tokens[n + m - Len(draft) + j] = draft[j]
      <4>1. n + m - Len(draft) + j = n + (1 + j) /\ 1 + j \in 1 .. m
        <5> HIDE DEF n
        <5> QED BY <1>5, <1>6
      <4> HIDE DEF n, m
      <4> QED BY <1>7, <1>9, <1>13, <4>1
    <3> QED BY <3>1
  <2>2. Len(z.tokens) = n + m /\ Len(draft) <= n + m
    <3> HIDE DEF n
    <3> QED BY <1>5, <1>6, <1>9, <1>13
  <2> HIDE DEF n, m
  <2>3. \A j \in 1 .. Len(z.draft) : z.tokens[Len(z.tokens) - Len(z.draft) + j] = z.draft[j]
    <3>1. ASSUME NEW j \in 1 .. Len(draft), NEW p, p = Len(z.tokens) - Len(draft) + j
          PROVE  z.tokens[p] = draft[j]
      <4>1. p = n + m - Len(draft) + j
        BY <1>5, <1>6, <1>8, <2>2, <3>1
      <4> QED BY <2>1, <4>1
    <3> QED BY <1>13, <3>1, Zenon
  <2>4. Len(z.draft) <= Len(z.tokens) /\ Len(z.tokens) < NCtx
    BY <1>8, <1>13, <2>2
  <2> QED BY <1>13, <2>3, <2>4 DEF Apt
<1>16. Fine(s, z, Data(w.cells, s), s \in w.spoiled, batch', 0)
  <2> DEFINE old == w.slot[s].tokens
  <2>1. old \in Seq(Token) /\ n = Len(old) /\ (s \notin w.spoiled => Data(w.cells, s) = Firsts(old, Len(old)))
    BY <1>5
  <2>2. z.i_batch + Len(z.draft) = Len(batch) + m
    BY <1>1, <1>6, <1>13
  <2> HIDE DEF old, n, m
  <2>3. \A j \in 1 .. m : /\ batch'[Len(batch) + j].slot = s /\ batch'[Len(batch) + j].pos = Len(old) + j - 1
                          /\ batch'[Len(batch) + j].tok = z.tokens[Len(old) + j]
    <3>1. ASSUME NEW j \in 1 .. m
          PROVE  /\ batch'[Len(batch) + j].slot = s /\ batch'[Len(batch) + j].pos = n + j - 1
                 /\ batch'[Len(batch) + j].tok = z.tokens[n + j]
      <4>1. batch'[Len(batch) + j] = [slot |-> s, tok |-> new[j], pos |-> n + j - 1]
        BY <1>8
      <4>2. z.tokens[n + j] = new[j]
        BY <1>9, <1>13
      <4> QED BY <4>1, <4>2
    <3> QED BY <2>1, <3>1
  <2>4. z.tokens \in Seq(Token) /\ Len(z.tokens) = Len(old) + m /\ \A j \in 1 .. Len(old) : z.tokens[j] = old[j]
    BY <1>9, <1>13, <2>1 DEF old
  <2> QED BY <1>1, <1>8, <1>13, <2>1, <2>2, <2>3, <2>4, FineAdds, ZenonT(60)
<1> HIDE DEF n, m, i
<1>17. \A j \in Len(batch) + 1 .. Len(batch') : /\ batch'[j].slot = s /\ batch'[j].pos < NCtx
  <2>1. ASSUME NEW j \in Len(batch) + 1 .. Len(batch')
        PROVE  batch'[j].slot = s /\ batch'[j].pos < NCtx
    <3> DEFINE k == j - Len(batch)
    <3>1. k \in 1 .. m /\ Len(batch) + k = j
      BY <1>1, <1>8
    <3> HIDE DEF k
    <3>2. n + k - 1 < NCtx
      BY <1>5, <1>8, <3>1, SizesAssumption, SMTT(60)
    <3>3. batch'[Len(batch) + k] = [slot |-> s, tok |-> new[k], pos |-> n + k - 1]
      BY <1>8, <3>1
    <3>4. batch'[Len(batch) + k].slot = s /\ batch'[Len(batch) + k].pos = n + k - 1
      BY <3>3
    <3> QED BY <3>1, <3>2, <3>4
  <2> QED BY <2>1
<1>18. Len(batch) <= Len(batch')
  BY <1>1, <1>8
<1>19. Content(v, batch', 0)
  <2>1. \A j \in DOMAIN v.saved : Whole(v.saved[j])
    BY <1>1, <1>5, <1>12
  <2>2. Sound(v.cells) /\ Apt(v.slot[s]) /\ Fine(s, v.slot[s], Data(v.cells, s), s \in v.spoiled, batch', 0)
    BY <1>5, <1>12, <1>15, <1>16
  <2> QED BY <1>1, <1>8, <1>12, <1>14, <1>17, <1>18, <2>1, <2>2, ContentGrows
<1> QED BY <1>1, <1>3, <1>5, <1>8, <1>12, <1>13, <1>17, <1>18, <1>19, TurnCells

-----------------------------------------------------------------------------
(* The chunks that are reused.                                             *)

\* The cells d have the token of position p and nothing else there.
At(d, tokens, p) == \A e : e \in d /\ e.pos = p <=> e = [tok |-> tokens[p + 1], pos |-> p]

\* Holding the first n is having each of them.
LEMMA HoldsAt ==
    ASSUME NEW d \in SUBSET DataType, NEW tokens \in Seq(Token), NEW n \in Nat, n <= Len(tokens)
    PROVE  Holds(d, tokens, n) <=> \A p \in Nat : p < n => At(d, tokens, p)
<1>1. \A e \in d : e.pos \in Nat
      BY DEF DataType
<1>2. Holds(d, tokens, n) <=> {e \in d : e.pos < n} = Firsts(tokens, n)
      BY HoldsIs
<1>3. /\ \A e \in Firsts(tokens, n) : e.pos \in Nat /\ e.pos < n /\ e = [tok |-> tokens[e.pos + 1], pos |-> e.pos]
      /\ \A p \in Nat : p < n => [tok |-> tokens[p + 1], pos |-> p] \in Firsts(tokens, n)
      BY FirstsAre
<1>4. ASSUME {e \in d : e.pos < n} = Firsts(tokens, n), NEW p \in Nat, p < n
      PROVE  At(d, tokens, p)
      <2>1. ASSUME NEW e, e \in d, e.pos = p
            PROVE  e = [tok |-> tokens[p + 1], pos |-> p]
            <3>1. e \in Firsts(tokens, n)
                  BY <1>4, <2>1
            <3> QED
                  BY <1>3, <2>1, <3>1
      <2>2. [tok |-> tokens[p + 1], pos |-> p] \in {e \in d : e.pos < n}
            BY <1>3, <1>4
      <2> QED
            BY <2>1, <2>2 DEF At
<1>5. ASSUME \A p \in Nat : p < n => At(d, tokens, p)
      PROVE  {e \in d : e.pos < n} = Firsts(tokens, n)
      <2>1. ASSUME NEW e \in d, e.pos < n
            PROVE  e \in Firsts(tokens, n)
            <3>1. e = [tok |-> tokens[e.pos + 1], pos |-> e.pos]
                  BY <1>1, <1>5, <2>1 DEF At
            <3>2. e.pos \in Nat
                  BY <1>1
            <3> QED
                  BY <1>3, <2>1, <3>1, <3>2
      <2>2. ASSUME NEW e \in Firsts(tokens, n)
            PROVE  e \in d /\ e.pos < n
            <3>1. e.pos \in Nat /\ e.pos < n /\ e = [tok |-> tokens[e.pos + 1], pos |-> e.pos]
                  BY <1>3
            <3> QED
                  BY <1>5, <3>1 DEF At
      <2> QED
            BY <2>1, <2>2
<1> QED
      BY <1>2, <1>4, <1>5

\* The cells d are the tokens up to "past", and from "next" on.
Gathered(d, tokens, past, next) ==
    \A p \in Nat : p < past \/ (next <= p /\ p < Len(tokens)) => At(d, tokens, p)

\* A move of cells, and the tokens that are where they are moved to.
Moved(all, s, past, c, n) == SeqAdd(SeqRm(all, s, past, c), s, c, c + n, past - c)

\* What becomes of the cells "data" of the sequence that is moved.
Becoming(d, data, past, c, n) ==
    \/ d \in data /\ (d.pos < past \/ d.pos >= c + n)
    \/ \E e \in data : c <= e.pos /\ e.pos < c + n /\ d = [tok |-> e.tok, pos |-> e.pos + (past - c)]

\* What is moved, one cell at a time.
LEMMA MovedData ==
    ASSUME NEW all \in SUBSET CellType, NEW s \in Slots, NEW past \in Nat, NEW c \in Nat, NEW n \in Nat, past <= c
    PROVE  /\ Moved(all, s, past, c, n) \in SUBSET CellType /\ (Sound(all) => Sound(Moved(all, s, past, c, n)))
           /\ \A d : d \in Data(Moved(all, s, past, c, n), s) <=> Becoming(d, Data(all, s), past, c, n)
<1> DEFINE left == SeqRm(all, s, past, c)
<1>1. /\ left \in SUBSET CellType /\ (Sound(all) => Sound(left))
      /\ \A d : d \in Data(left, s) <=> d \in Data(all, s) /\ ~In(d, past, c)
      BY RmOwn
<1>2. past - c \in Int /\ past - c <= 0 /\ c # -1 /\ c + n # -1
      OBVIOUS
<1>3. Data(all, s) \in SUBSET DataType
      BY CellsType
<1>4. \A d \in Data(all, s) : d.pos \in Nat
      BY <1>3 DEF DataType
<1> HIDE DEF left
<1>5. /\ SeqAdd(left, s, c, c + n, past - c) \in SUBSET CellType
      /\ (Sound(left) => Sound(SeqAdd(left, s, c, c + n, past - c)))
      /\ \A d : d \in Data(SeqAdd(left, s, c, c + n, past - c), s) <=>
            \/ d \in Data(left, s) /\ ~In(d, c, c + n)
            \/ \E e \in Data(left, s) : In(e, c, c + n) /\ e.pos + (past - c) >= 0
                                        /\ d = [tok |-> e.tok, pos |-> e.pos + (past - c)]
      BY <1>1, <1>2, AddOwn
<1>6. \A d \in Data(all, s) : /\ In(d, past, c) <=> past <= d.pos /\ d.pos < c
                              /\ In(d, c, c + n) <=> c <= d.pos /\ d.pos < c + n
      BY <1>2, <1>4 DEF In
<1>7. Moved(all, s, past, c, n) = SeqAdd(left, s, c, c + n, past - c)
      BY DEF Moved, left
<1>8. ASSUME NEW d
      PROVE  d \in Data(left, s) /\ ~In(d, c, c + n) <=> d \in Data(all, s) /\ (d.pos < past \/ d.pos >= c + n)
      BY <1>1, <1>4, <1>6
<1>9. ASSUME NEW e
      PROVE  e \in Data(left, s) /\ In(e, c, c + n) /\ e.pos + (past - c) >= 0
                <=> e \in Data(all, s) /\ c <= e.pos /\ e.pos < c + n
      BY <1>1, <1>4, <1>6
<1> QED
      <2>1. ASSUME NEW d
            PROVE  d \in Data(SeqAdd(left, s, c, c + n, past - c), s) <=> Becoming(d, Data(all, s), past, c, n)
            BY <1>5, <1>8, <1>9 DEF Becoming
      <2> QED
            BY <1>1, <1>5, <1>7, <2>1

\* A chunk more.
LEMMA GatheredMore ==
    ASSUME NEW all \in SUBSET CellType, NEW s \in Slots, NEW tokens \in Seq(Token), NEW prompt \in Seq(Token),
           NEW past \in Nat, NEW next \in Nat, NEW c \in Nat, past <= next, next <= c, c <= Len(tokens),
           past <= Len(prompt), \A j \in 1 .. past : tokens[j] = prompt[j],
           Gathered(Data(all, s), tokens, past, next), NEW n, n = Chunk(tokens, prompt, past, c)
    PROVE  Gathered(Data(Moved(all, s, past, c, n), s), InPlace(tokens, prompt, past, c), past + n, c + n)
<1> DEFINE new == InPlace(tokens, prompt, past, c)
           old == Data(all, s)
           d   == Data(Moved(all, s, past, c, n), s)
<1>0. past <= c /\ Len(tokens) \in Nat
      OBVIOUS
<1>1. n \in Nat /\ c + n <= Len(tokens) /\ past <= c /\ Len(tokens) \in Nat /\ Len(new) = Len(tokens)
      BY <1>0, ChunkTokens
<1>2. DOMAIN tokens = 1 .. Len(tokens)
      OBVIOUS
<1>3. /\ \A p \in Nat : p < past \/ (c + n <= p /\ p < Len(tokens)) => new[p + 1] = tokens[p + 1]
      /\ \A p \in Nat : past <= p /\ p < past + n => new[p + 1] = tokens[p + (c - past) + 1]
  <2>1. \A j \in 1 .. Len(tokens) : new[j] = IF j \in past + 1 .. past + n THEN tokens[c + j - past] ELSE tokens[j]
    BY <1>2 DEF InPlace
  <2> HIDE DEF new
  <2>2. ASSUME NEW p \in Nat, p < past \/ (c + n <= p /\ p < Len(tokens))
        PROVE  new[p + 1] = tokens[p + 1]
    <3>1. p + 1 \in 1 .. Len(tokens) /\ p + 1 \notin past + 1 .. past + n
      BY <1>1, <2>2
    <3> QED BY <2>1, <3>1
  <2>3. ASSUME NEW p \in Nat, past <= p, p < past + n
        PROVE  new[p + 1] = tokens[p + (c - past) + 1]
    <3>1. p + 1 \in 1 .. Len(tokens) /\ p + 1 \in past + 1 .. past + n /\ c + (p + 1) - past = p + (c - past) + 1
      BY <1>1, <2>3
    <3>2. new[p + 1] = tokens[c + (p + 1) - past]
      BY <2>1, <3>1
    <3> QED BY <3>1, <3>2
  <2> QED BY <2>2, <2>3
<1>4. \A e : e \in d <=> \/ e \in old /\ (e.pos < past \/ e.pos >= c + n)
                         \/ \E x \in old : c <= x.pos /\ x.pos < c + n /\ e = [tok |-> x.tok, pos |-> x.pos + (past - c)]
      <2>1. \A e : e \in Data(Moved(all, s, past, c, n), s) <=> Becoming(e, Data(all, s), past, c, n)
            BY <1>1, MovedData
      <2> QED
            BY <2>1 DEF Becoming
<1>5. old \in SUBSET DataType
      BY CellsType
<1>6. \A e \in old : e.pos \in Nat
      BY <1>5 DEF DataType
<1>7. \A p \in Nat : p < past \/ (c <= p /\ p < Len(tokens)) => At(old, tokens, p)
      BY <1>1 DEF Gathered
<1> HIDE DEF new, old, d
<1>8. ASSUME NEW p \in Nat, p < past
      PROVE  At(d, new, p)
      <2>1. At(old, tokens, p) /\ new[p + 1] = tokens[p + 1]
            BY <1>3, <1>7, <1>8
      <2>2. ASSUME NEW e
            PROVE  e \in d /\ e.pos = p <=> e \in old /\ e.pos = p
            BY <1>1, <1>4, <1>6, <1>8
      <2> QED
            BY <2>1, <2>2 DEF At
<1>9. ASSUME NEW p \in Nat, c + n <= p, p < Len(tokens)
      PROVE  At(d, new, p)
      <2>1. At(old, tokens, p) /\ new[p + 1] = tokens[p + 1]
            BY <1>1, <1>3, <1>7, <1>9
      <2>2. ASSUME NEW e
            PROVE  e \in d /\ e.pos = p <=> e \in old /\ e.pos = p
            BY <1>1, <1>4, <1>6, <1>9
      <2> QED
            BY <2>1, <2>2 DEF At
<1>10. ASSUME NEW p \in Nat, past <= p, p < past + n
       PROVE  At(d, new, p)
      <2> DEFINE q == p + (c - past)
      <2>1. q \in Nat /\ c <= q /\ q < c + n /\ q < Len(tokens) /\ p = q + (past - c)
            BY <1>1, <1>10
      <2>2. new[p + 1] = tokens[q + 1]
            BY <1>3, <1>10
      <2> HIDE DEF q
      <2>3. At(old, tokens, q)
            BY <1>7, <2>1
      <2>4. ASSUME NEW e, e \in d, e.pos = p
            PROVE  e = [tok |-> tokens[q + 1], pos |-> p]
            <3>1. PICK x \in old : c <= x.pos /\ x.pos < c + n /\ e = [tok |-> x.tok, pos |-> x.pos + (past - c)]
                  BY <1>1, <1>4, <1>10, <2>4
            <3>2. x.pos = q
                  BY <1>6, <2>1, <2>4, <3>1
            <3>3. x = [tok |-> tokens[q + 1], pos |-> q]
                  BY <2>3, <3>2 DEF At
            <3> QED
                  BY <2>1, <3>1, <3>3
      <2>5. [tok |-> tokens[q + 1], pos |-> p] \in d
            <3>1. [tok |-> tokens[q + 1], pos |-> q] \in old
                  BY <2>3 DEF At
            <3> QED
                  BY <1>4, <2>1, <3>1
      <2> QED
            BY <2>2, <2>4, <2>5 DEF At
<1> QED
      BY <1>1, <1>8, <1>9, <1>10 DEF Gathered, new, d

\* The parts of what a chunk changes.
LEMMA ReuseChunkParts ==
    ASSUME NEW w \in Work, NEW s \in Slots, NEW acc \in Chunks(w, s), NEW c \in Nat, c <= Len(w.slot[s].tokens),
           NEW tokens, tokens = acc.w.slot[s].tokens, NEW prompt, prompt = w.slot[s].task.prompt,
           NEW n, n = Chunk(tokens, prompt, acc.past, c),
           NEW r, r = ReuseChunk(s, w.slot[s].task, acc, c), r # acc
    PROVE  /\ acc.next <= c /\ r.past = acc.past + n /\ r.next = c + n
           /\ r.w.saved = acc.w.saved /\ r.w.cells = Moved(acc.w.cells, s, acc.past, c, n)
           /\ r.w.spoiled = acc.w.spoiled \cup
                 (IF c = acc.past THEN {} ELSE Sharers(SeqRm(acc.w.cells, s, acc.past, c), s, c, c + n))
           /\ r.w.slot[s].tokens = InPlace(tokens, prompt, acc.past, c)
           /\ \A y \in Slots \ {s} : r.w.slot[y] = acc.w.slot[y]
<1> DEFINE new == InPlace(tokens, prompt, acc.past, c)
           cl  == Moved(acc.w.cells, s, acc.past, c, n)
           sp  == acc.w.spoiled \cup
                     (IF c = acc.past THEN {} ELSE Sharers(SeqRm(acc.w.cells, s, acc.past, c), s, c, c + n))
           v   == [acc.w EXCEPT !.slot[s].tokens = new, !.cells = cl, !.spoiled = sp]
<1>1. ~(c < acc.next) /\ r = [w |-> v, past |-> acc.past + n, next |-> c + n]
      BY ZenonT(60) DEF ReuseChunk, Chunk, InPlace, Moved
<1>2. acc.w \in Work /\ acc.next \in Nat /\ acc.w.slot[s] \in SlotType
  <2>1. acc.w \in Work /\ acc.next \in Nat
    BY DEF Chunks
  <2> QED BY <2>1, WorkParts
<1> HIDE DEF new, cl, sp
<1>3. v.saved = acc.w.saved /\ v.cells = cl /\ v.spoiled = sp
  BY <1>2 DEF Work
<1>4. v.slot = [acc.w.slot EXCEPT ![s] = [acc.w.slot[s] EXCEPT !.tokens = new]]
  BY <1>2 DEF Work
<1>5. [acc.w.slot[s] EXCEPT !.tokens = new].tokens = new
  BY <1>2 DEF SlotType
<1>6. v.slot[s].tokens = new /\ \A y \in Slots \ {s} : v.slot[y] = acc.w.slot[y]
  <2> DEFINE x == [acc.w.slot[s] EXCEPT !.tokens = new]
  <2>1. acc.w.slot \in [Slots -> SlotType]
    BY <1>2, WorkParts
  <2> HIDE DEF x
  <2>2. [acc.w.slot EXCEPT ![s] = x][s] = x /\ \A y \in Slots \ {s} : [acc.w.slot EXCEPT ![s] = x][y] = acc.w.slot[y]
    BY <2>1
  <2> QED BY <1>4, <1>5, <2>2 DEF x
<1> HIDE DEF v
<1>7. acc.next <= c
  BY <1>1, <1>2
<1>8. r.w = v /\ r.past = acc.past + n /\ r.next = c + n
  BY <1>1
<1>9. r.w.saved = acc.w.saved /\ r.w.cells = Moved(acc.w.cells, s, acc.past, c, n)
  BY <1>3, <1>8 DEF cl
<1>10. r.w.spoiled = acc.w.spoiled \cup
          (IF c = acc.past THEN {} ELSE Sharers(SeqRm(acc.w.cells, s, acc.past, c), s, c, c + n))
  BY <1>3, <1>8 DEF sp
<1>11. /\ r.w.slot[s].tokens = InPlace(tokens, prompt, acc.past, c)
       /\ \A y \in Slots \ {s} : r.w.slot[y] = acc.w.slot[y]
  BY <1>6, <1>8 DEF new
<1> QED BY <1>7, <1>8, <1>9, <1>10, <1>11

\* What may have been reused when a chunk is looked at, with the cells.
Reuses(w, s) ==
    {acc \in Chunks(w, s) :
        /\ Leaves(w, acc.w, {s}) /\ Sound(acc.w.cells) /\ acc.w.saved = w.saved
        /\ s \notin acc.w.spoiled => Gathered(Data(acc.w.cells, s), acc.w.slot[s].tokens, acc.past, acc.next)}

\* An operation after another one.
LEMMA LeavesMore ==
    ASSUME NEW w, NEW v, NEW u, NEW S, Leaves(w, v, S), Leaves(v, u, S)
    PROVE  Leaves(w, u, S)
BY DEF Leaves

\* A chunk more.
LEMMA ReusesMore ==
    ASSUME NEW w \in Work, NEW s \in Slots, NEW acc \in Reuses(w, s), NEW c \in Nat, c <= Len(w.slot[s].tokens)
    PROVE  ReuseChunk(s, w.slot[s].task, acc, c) \in Reuses(w, s)
<1> DEFINE r      == ReuseChunk(s, w.slot[s].task, acc, c)
           tokens == acc.w.slot[s].tokens
           prompt == w.slot[s].task.prompt
           past   == acc.past
           n      == Chunk(tokens, prompt, past, c)
           left   == SeqRm(acc.w.cells, s, past, c)
<1>1. /\ acc \in Chunks(w, s) /\ Leaves(w, acc.w, {s}) /\ Sound(acc.w.cells) /\ acc.w.saved = w.saved
      /\ s \notin acc.w.spoiled => Gathered(Data(acc.w.cells, s), tokens, past, acc.next)
  BY DEF Reuses
<1>2. r \in Chunks(w, s)
  BY <1>1, ReuseChunkIs
<1>3. SUFFICES ASSUME r # acc
               PROVE  r \in Reuses(w, s)
  BY <1>3
<1>4. /\ acc.next <= c /\ r.past = past + n /\ r.next = c + n
      /\ r.w.saved = acc.w.saved /\ r.w.cells = Moved(acc.w.cells, s, past, c, n)
      /\ r.w.spoiled = acc.w.spoiled \cup (IF c = past THEN {} ELSE Sharers(left, s, c, c + n))
      /\ r.w.slot[s].tokens = InPlace(tokens, prompt, past, c)
      /\ \A y \in Slots \ {s} : r.w.slot[y] = acc.w.slot[y]
  BY <1>1, <1>3, ReuseChunkParts
<1> HIDE DEF r
<1>5. /\ acc.w \in Work /\ past \in Nat /\ acc.next \in Nat /\ past <= acc.next /\ past <= Len(prompt) /\ tokens \in Seq(Token)
      /\ Len(tokens) = Len(w.slot[s].tokens) /\ \A j \in 1 .. past : tokens[j] = prompt[j]
  BY <1>1 DEF Chunks, Found
<1>6. prompt \in Seq(Token) /\ acc.w.cells \in SUBSET CellType
  <2>1. w.slot[s] \in SlotType /\ acc.w.cells \in SUBSET CellType
    BY <1>5, WorkParts
  <2> QED BY <2>1, SlotParts DEF TaskType
<1>7. past <= c /\ n \in Nat
  <2>1. past <= c
    BY <1>4, <1>5
  <2>2. c <= Len(tokens)
    BY <1>5
  <2> HIDE DEF tokens, prompt, past, n
  <2>3. Chunk(tokens, prompt, past, c) \in Nat
    BY <1>5, <1>6, <2>1, <2>2, ChunkTokens
  <2> QED BY <2>1, <2>3 DEF n
<1>8. Sound(r.w.cells)
  <2> HIDE DEF n, past
  <2> QED BY <1>1, <1>4, <1>5, <1>6, <1>7, MovedData
<1>9. Leaves(acc.w, r.w, {s})
  <2>1. left \in SUBSET CellType
    BY <1>6, RmOwn
  <2> DEFINE delta == past - c
  <2>2. delta \in Int /\ Moved(acc.w.cells, s, past, c, n) = SeqAdd(left, s, c, c + n, delta)
    BY <1>5 DEF Moved
  <2> HIDE DEF left, n, past, tokens, prompt
  <2>3. ASSUME NEW y \in Slots \ {s}, y \notin r.w.spoiled
        PROVE  y \notin acc.w.spoiled /\ Data(r.w.cells, y) = Data(acc.w.cells, y)
    <3>1. Data(left, y) = Data(acc.w.cells, y)
      BY <1>6, RmOthers DEF left
    <3>2. CASE c = past
      <4>1. delta = 0
        BY <1>5, <3>2
      <4> HIDE DEF delta
      <4>2. SeqAdd(left, s, c, c + n, 0) = left
        BY <2>1, AddNothing
      <4> QED BY <1>4, <2>2, <2>3, <3>1, <4>1, <4>2
    <3>3. CASE c # past
      <4>1. y \notin acc.w.spoiled /\ y \notin Sharers(left, s, c, c + n)
        BY <1>4, <2>3, <3>3
      <4> HIDE DEF delta
      <4>2. Data(SeqAdd(left, s, c, c + n, delta), y) = Data(left, y)
        BY <2>1, <2>2, <4>1, AddOthers
      <4> QED BY <1>4, <2>2, <3>1, <4>1, <4>2
    <3> QED BY <3>2, <3>3
  <2> QED BY <1>4, <2>3 DEF Leaves
<1>10. Leaves(w, r.w, {s})
  BY <1>1, <1>9, LeavesMore
<1>11. ASSUME s \notin r.w.spoiled
       PROVE  Gathered(Data(r.w.cells, s), r.w.slot[s].tokens, r.past, r.next)
  <2>1. Gathered(Data(acc.w.cells, s), tokens, past, acc.next)
    BY <1>1, <1>4, <1>11
  <2> DEFINE next == acc.next
             all  == acc.w.cells
  <2>2. /\ next \in Nat /\ past <= next /\ next <= c /\ c <= Len(tokens)
        /\ n = Chunk(tokens, prompt, past, c)
    BY <1>4, <1>5
  <2>3. past \in Nat /\ tokens \in Seq(Token) /\ prompt \in Seq(Token) /\ past <= Len(prompt)
        /\ (\A j \in 1 .. past : tokens[j] = prompt[j]) /\ all \in SUBSET CellType
        /\ Gathered(Data(all, s), tokens, past, next)
    BY <1>5, <1>6, <2>1
  <2> HIDE DEF tokens, prompt, past, n, all, next
  <2>4. Gathered(Data(Moved(all, s, past, c, n), s), InPlace(tokens, prompt, past, c), past + n, c + n)
    BY <2>2, <2>3, GatheredMore
  <2> QED BY <1>4, <2>4 DEF all
<1>12. r.w.saved = w.saved
  BY <1>1, <1>4
<1> QED BY <1>2, <1>8, <1>10, <1>11, <1>12 DEF Reuses

\* What the slot s of w can use is in the cache.
Has(w, s, acc) ==
    /\ Found(w, s, acc) /\ Leaves(w, acc.w, {s}) /\ Sound(acc.w.cells) /\ acc.w.saved = w.saved
    /\ s \notin acc.w.spoiled => Holds(Data(acc.w.cells, s), acc.w.slot[s].tokens, acc.past)

\* The chunks that the prompt has closer to its start.
LEMMA ReusedHas ==
    ASSUME NEW w \in Work, NEW s \in Slots, Sound(w.cells),
           s \notin w.spoiled => Holds(Data(w.cells, s), w.slot[s].tokens, Len(w.slot[s].tokens))
    PROVE  Has(w, s, Reused(w, s, w.slot[s].task))
<1> DEFINE t      == w.slot[s].task
           tokens == w.slot[s].tokens
           from   == Common(tokens, t.prompt)
           base   == [w |-> w, past |-> from, next |-> from]
           V      == Reuses(w, s)
<1>1. w.slot[s] \in SlotType /\ tokens \in Seq(Token) /\ t.prompt \in Seq(Token) /\ w.cells \in SUBSET CellType
  <2>1. w.slot[s] \in SlotType /\ w.cells \in SUBSET CellType
    BY WorkParts
  <2> QED BY <2>1, SlotParts DEF TaskType
<1>2. Data(w.cells, s) \in SUBSET DataType /\ Len(tokens) \in Nat
  <2>1. Data(w.cells, s) \in SUBSET DataType
    BY <1>1, CellsType
  <2> QED BY <1>1, <2>1, LenProperties
<1>3. from \in Nat /\ from <= Len(tokens) /\ from <= Len(t.prompt) /\ \A j \in 1 .. from : tokens[j] = t.prompt[j]
  BY <1>1, CommonTokens, SMTT(30)
<1> HIDE DEF from
<1>4. base \in Chunks(w, s)
  <2>1. SameBut(w, w, {s})
    <3>1. SameBut(w, w, {}) /\ {} \in SUBSET Slots /\ {s} \in SUBSET Slots /\ {} \subseteq {s}
      BY DEF SameBut
    <3> QED BY <3>1, SameButWhat
  <2> QED BY <1>1, <1>3, <2>1 DEF Chunks, Found
<1>5. base \in V
  <2>1. Leaves(w, w, {s})
    BY DEF Leaves
  <2>2. s \notin w.spoiled => Gathered(Data(w.cells, s), tokens, from, from)
    <3>1. SUFFICES ASSUME s \notin w.spoiled
                   PROVE  Gathered(Data(w.cells, s), tokens, from, from)
      OBVIOUS
    <3> DEFINE n == Len(tokens)
               d == Data(w.cells, s)
    <3>2. Holds(d, tokens, n) /\ n \in Nat /\ n <= Len(tokens) /\ d \in SUBSET DataType
      BY <1>2, <3>1
    <3> HIDE DEF n, d, tokens
    <3>3. \A p \in Nat : p < n => At(d, tokens, p)
      BY <1>1, <3>2, HoldsAt
    <3> QED BY <1>2, <1>3, <3>3 DEF Gathered, d, n
  <2>3. base.w = w /\ base.past = from /\ base.next = from
    OBVIOUS
  <2> HIDE DEF base
  <2> QED BY <1>4, <2>1, <2>2, <2>3 DEF Reuses
<1> HIDE DEF V
<1>6. \A acc \in V : \A c \in Nat : c <= Len(w.slot[s].tokens) => ReuseChunk(s, w.slot[s].task, acc, c) \in V
  BY ReusesMore DEF V
<1>7. Reused(w, s, t) \in V
  BY <1>5, <1>6, ReusedRule DEF from
<1> DEFINE r == Reused(w, s, t)
<1> HIDE DEF r
<1>8. /\ r \in Chunks(w, s) /\ Leaves(w, r.w, {s}) /\ Sound(r.w.cells) /\ r.w.saved = w.saved
      /\ s \notin r.w.spoiled => Gathered(Data(r.w.cells, s), r.w.slot[s].tokens, r.past, r.next)
  BY <1>7 DEF V, Reuses, r
<1>9. Found(w, s, r) /\ r.past \in Nat /\ r.past <= Len(r.w.slot[s].tokens) /\ r.w.slot[s].tokens \in Seq(Token) /\ r.w \in Work
  BY <1>8 DEF Chunks, Found
<1>10. ASSUME s \notin r.w.spoiled
       PROVE  Holds(Data(r.w.cells, s), r.w.slot[s].tokens, r.past)
  <2>1. Data(r.w.cells, s) \in SUBSET DataType
    BY <1>9, WorkParts, CellsType
  <2>2. \A p \in Nat : p < r.past => At(Data(r.w.cells, s), r.w.slot[s].tokens, p)
    BY <1>8, <1>10 DEF Gathered
  <2> QED BY <1>9, <2>1, <2>2, HoldsAt
<1> QED BY <1>8, <1>9, <1>10 DEF Has, r

\* What the slot has that its task can use.
LEMMA MatchedHas ==
    ASSUME NEW w \in Work, NEW s \in Slots, Sound(w.cells),
           s \notin w.spoiled => Holds(Data(w.cells, s), w.slot[s].tokens, Len(w.slot[s].tokens))
    PROVE  Has(w, s, Matched(w, s))
<1> DEFINE tokens == w.slot[s].tokens
           n      == Common(tokens, w.slot[s].task.prompt)
<1>1. Found(w, s, Matched(w, s)) /\ Leaves(w, w, {s})
  BY MatchedIs DEF Leaves
<1>2. tokens \in Seq(Token) /\ w.slot[s].task.prompt \in Seq(Token) /\ Data(w.cells, s) \in SUBSET DataType /\ Len(tokens) \in Nat
  <2>1. w.slot[s] \in SlotType /\ w.cells \in SUBSET CellType
    BY WorkParts
  <2>2. Data(w.cells, s) \in SUBSET DataType
    BY <2>1, CellsType
  <2> QED BY <2>1, <2>2, SlotParts, LenProperties DEF TaskType
<1>3. n \in Nat /\ n <= Len(tokens)
  BY <1>2, CommonTokens, SMTT(30)
<1>4. \A m \in Nat : m <= Len(tokens) /\ s \notin w.spoiled => Holds(Data(w.cells, s), tokens, m)
  <2> DEFINE k == Len(tokens)
             d == Data(w.cells, s)
  <2>1. k \in Nat /\ k <= Len(tokens) /\ d \in SUBSET DataType /\ (s \notin w.spoiled => Holds(d, tokens, k))
    BY <1>2
  <2> HIDE DEF k, d, tokens
  <2>2. \A m \in Nat : m <= k /\ s \notin w.spoiled => Holds(d, tokens, m)
    BY <1>2, <2>1, HoldsLess
  <2> QED BY <2>2 DEF k, d
<1>5. ASSUME NEW r, Found(w, s, r), r.w = w, r.past \in Nat, r.past <= Len(tokens)
      PROVE  Has(w, s, r)
  BY <1>1, <1>4, <1>5 DEF Has
<1>6. CASE ~w.slot[s].task.cache
  <2>1. Matched(w, s).w = w /\ Matched(w, s).past = 0
    BY <1>6 DEF Matched
  <2> QED BY <1>1, <1>2, <1>5, <2>1
<1>7. CASE w.slot[s].task.cache /\ w.slot[s].task.reuse > 0
  BY <1>7, ReusedHas DEF Matched
<1>8. CASE w.slot[s].task.cache /\ ~(w.slot[s].task.reuse > 0)
  <2>1. Matched(w, s).w = w /\ Matched(w, s).past = n
    BY <1>8 DEF Matched
  <2> HIDE DEF n
  <2> QED BY <1>1, <1>3, <1>5, <2>1
<1> QED BY <1>6, <1>7, <1>8

\* What is kept of the slot when its task starts is in the cache.
LEMMA KeptHas ==
    ASSUME NEW w \in Work, NEW s \in Slots, Sound(w.cells),
           s \notin w.spoiled => Holds(Data(w.cells, s), w.slot[s].tokens, Len(w.slot[s].tokens)),
           NEW v, v = Kept(w, s)
    PROVE  /\ Leaves(w, v, {s}) /\ Sound(v.cells) /\ v.saved = w.saved
           /\ s \notin v.spoiled => Holds(Data(v.cells, s), v.slot[s].tokens, Len(v.slot[s].tokens))
<1> DEFINE acc    == Matched(w, s)
           prompt == w.slot[s].task.prompt
           whole  == acc.past = Len(w.slot[s].task.prompt)
           reset  == SeqPosMin(acc.w.cells, s) >= acc.past - (IF whole THEN 1 ELSE 0)
           past   == IF reset THEN 0 ELSE IF whole THEN acc.past - 1 ELSE acc.past
           old    == acc.w.slot[s].tokens
           tokens == SubSeq(old, 1, past)
           x      == [acc.w.slot[s] EXCEPT !.tokens = tokens, !.state = "PROCESSING_PROMPT"]
<1>1. Has(w, s, acc)
  BY MatchedHas
<1>2. v = [acc.w EXCEPT !.slot[s].tokens = tokens, !.slot[s].state = "PROCESSING_PROMPT"]
  BY DEF Kept
<1> HIDE DEF acc
<1>3. acc.w \in Work /\ acc.past \in Nat /\ acc.past <= Len(old) /\ old \in Seq(Token)
  BY <1>1 DEF Has, Found, SameBut
<1>4. acc.w.slot[s] \in SlotType /\ acc.w.cells \in SUBSET CellType /\ acc.w.slot \in [Slots -> SlotType]
  BY <1>3, WorkParts
<1>5. SeqPosMin(acc.w.cells, s) \in Nat
  <2> DEFINE P == {c.pos : c \in Within(acc.w.cells, s, 0, -1)} \cup {NCtx}
  <2>2. Within(acc.w.cells, s, 0, -1) \subseteq CellType
    BY <1>4, CellsType
  <2>3. P \in SUBSET Nat /\ P # {}
    BY <2>2, SizesAssumption DEF CellType
  <2> HIDE DEF P
  <2>4. Min(P) \in Nat
    BY <2>3, MinIs
  <2> QED BY <2>4 DEF SeqPosMin, P
<1>6. past \in Nat /\ past <= acc.past
  BY <1>3, <1>5
<1> HIDE DEF past
<1>7. past <= Len(old)
  BY <1>3, <1>6
<1>8. tokens \in Seq(Token) /\ Len(tokens) = past /\ \A j \in 1 .. past : tokens[j] = old[j]
  BY <1>3, <1>6, <1>7, StartOf
<1> HIDE DEF tokens
<1>9. v.cells = acc.w.cells /\ v.saved = acc.w.saved /\ v.spoiled = acc.w.spoiled /\ v.slot = [acc.w.slot EXCEPT ![s] = x]
  BY <1>2, <1>3, <1>4, ZenonT(60) DEF Work
<1>10. x.tokens = tokens
  BY <1>4 DEF SlotType
<1> HIDE DEF x
<1>11. v.slot[s].tokens = tokens /\ \A y \in Slots \ {s} : v.slot[y] = acc.w.slot[y]
  BY <1>4, <1>9, <1>10
<1>12. ASSUME s \notin v.spoiled
       PROVE  Holds(Data(v.cells, s), tokens, past)
  <2> DEFINE d == Data(acc.w.cells, s)
             m == acc.past
  <2>1. d \in SUBSET DataType
    BY <1>4, CellsType
  <2>2. Holds(d, old, m) /\ m \in Nat /\ m <= Len(old) /\ past <= m
    BY <1>1, <1>3, <1>6, <1>9, <1>12 DEF Has
  <2> HIDE DEF d, m, old
  <2>3. Holds(d, old, past)
    BY <1>3, <1>6, <2>1, <2>2, HoldsLess
  <2>4. Holds(d, tokens, past)
    BY <1>6, <1>8, <2>3, FirstsAlike
  <2> QED BY <1>9, <2>4 DEF d
<1>13. Leaves(w, v, {s})
  BY <1>1, <1>9, <1>11 DEF Has, Leaves
<1> QED BY <1>1, <1>8, <1>9, <1>11, <1>12, <1>13 DEF Has

\* What the cache has beyond the tokens goes.
LEMMA TruncatedHas ==
    ASSUME NEW w \in Work, NEW s \in Slots, Sound(w.cells), NEW tokens, tokens = w.slot[s].tokens,
           s \notin w.spoiled => Holds(Data(w.cells, s), tokens, Len(tokens)),
           NEW v, v = Truncated(w, s)
    PROVE  /\ Leaves(w, v, {s}) /\ Sound(v.cells) /\ v.saved = w.saved
           /\ s \notin v.spoiled => Data(v.cells, s) = Firsts(tokens, Len(tokens))
<1> DEFINE n == Len(tokens)
<1>1. w.cells \in SUBSET CellType /\ tokens \in Seq(Token) /\ n \in Nat
  <2>1. w.slot[s] \in SlotType /\ w.cells \in SUBSET CellType
    BY WorkParts
  <2>2. tokens \in Seq(Token)
    BY <2>1, SlotParts
  <2> QED BY <2>1, <2>2, LenProperties
<1>2. /\ v.cells = SeqRm(w.cells, s, n, -1) /\ v.saved = w.saved /\ v.slot = w.slot
      /\ v.spoiled = IF tokens = <<>> THEN w.spoiled \ {s} ELSE w.spoiled
  BY DEF Truncated, Work
<1> HIDE DEF n
<1>3. Leaves(w, v, {s})
  <2>1. \A t \in Slots \ {s} : Data(v.cells, t) = Data(w.cells, t)
    BY <1>1, <1>2, RmOthers
  <2> QED BY <1>2, <2>1 DEF Leaves
<1>4. Sound(v.cells)
  BY <1>1, <1>2, RmOwn
<1>5. Data(w.cells, s) \in SUBSET DataType
  BY <1>1, CellsType
<1>6. Data(v.cells, s) = {e \in Data(w.cells, s) : e.pos < n}
  <2>1. \A d : d \in Data(v.cells, s) <=> d \in Data(w.cells, s) /\ ~In(d, n, -1)
    BY <1>1, <1>2, RmOwn
  <2>2. \A d \in Data(w.cells, s) : ~In(d, n, -1) <=> d.pos < n
    BY <1>1, <1>5 DEF In, DataType
  <2> QED BY <2>1, <2>2
<1>7. ASSUME s \notin v.spoiled
      PROVE  Data(v.cells, s) = Firsts(tokens, n)
  <2>1. CASE tokens = <<>>
    <3>1. n = 0
      BY <2>1 DEF n
    <3>2. Data(v.cells, s) = {}
      BY <1>5, <1>6, <3>1 DEF DataType
    <3> QED BY <1>5, <2>1, <3>1, <3>2, HoldsNothing
  <2>2. CASE tokens # <<>>
    <3>1. Holds(Data(w.cells, s), tokens, n)
      BY <1>2, <1>7, <2>2 DEF n
    <3> QED BY <1>6, <3>1, HoldsIs
  <2> QED BY <2>1, <2>2
<1> QED BY <1>2, <1>3, <1>4, <1>7 DEF n

\* v is what Prompt makes of the slot and the cells w, whose tokens are "old": the first "last"
\* tokens of the prompt "all", those that are new in the batch as well.
Prompted(s, w, old, all, last, v) ==
    /\ Becomes(v) /\ v.cells = w.cells /\ v.saved = w.saved /\ v.spoiled = w.spoiled
    /\ \A y \in Slots \ {s} : v.slot[y] = slot[y]
    /\ Len(old) <= last /\ last <= Len(all)
    /\ v.slot[s].tokens \in Seq(Token) /\ Len(v.slot[s].tokens) = last
    /\ \A j \in 1 .. last : v.slot[s].tokens[j] = all[j]
    /\ v.slot[s].task = slot[s].task /\ v.slot[s].draft = <<>> /\ v.slot[s].out = <<>>
    /\ v.slot[s].state \in {"DONE_PROMPT", "PROCESSING_PROMPT"}
    /\ v.slot[s].state = "DONE_PROMPT" => v.slot[s].tokens = all
    /\ v.slot[s].state = "DONE_PROMPT" => v.slot[s].i_batch = Len(batch) + (last - Len(old))
    /\ batch' \in Seq(TokType) /\ Len(batch') = Len(batch) + (last - Len(old))
    /\ \A j \in 1 .. Len(batch) : batch'[j] = batch[j]
    /\ \A j \in 1 .. last - Len(old) :
          batch'[Len(batch) + j] = [slot |-> s, tok |-> all[Len(old) + j], pos |-> Len(old) + j - 1]

\* The parts of what goes to the slot and to the batch, when w is the slot and the cells without
\* what is not kept.
LEMMA PromptParts ==
    ASSUME IInv, NEW s \in Slots, Prompt(s),
           NEW w, w = Truncated(IF slot[s].state = "STARTED" THEN Kept(Now, s) ELSE Now, s),
           NEW old, old = w.slot[s].tokens, NEW all, all = slot[s].task.prompt
    PROVE  /\ pc = "prompt" /\ turn = s /\ slot[s].state \in {"STARTED", "PROCESSING_PROMPT"}
           /\ AfterPrompts(batch') /\ UNCHANGED <<off, view, n_batch>> /\ w \in Work
           /\ \A y \in Slots \ {s} : w.slot[y] = slot[y]
           /\ old \in Seq(Token) /\ all \in Seq(Token) /\ IsPrefix(old, all)
           /\ \E last \in Nat, v \in Work : Prompted(s, w, old, all, last, v)
<1> DEFINE x   == slot[s]
           u   == IF x.state = "STARTED" THEN Kept(Now, s) ELSE Now
           n   == Len(w.slot[s].tokens)
           room == NBatch - Len(batch)
           last == Min({Len(all), n + room})
           done == last = Len(all)
           more == [j \in 1 .. last - n |-> [slot |-> s, tok |-> all[n + j], pos |-> n + j - 1]]
           part == SubSeq(all, n + 1, last)
           state == IF done THEN "DONE_PROMPT" ELSE "PROCESSING_PROMPT"
           i   == IF done THEN Len(batch) + last - n ELSE 0
           v   == [w EXCEPT !.slot[s].tokens = @ \o part, !.slot[s].state = state, !.slot[s].i_batch = i]
           z   == [w.slot[s] EXCEPT !.tokens = w.slot[s].tokens \o part, !.state = state, !.i_batch = i]
<1>0. w = Truncated(u, s) /\ all = x.task.prompt
  OBVIOUS
<1>1. /\ pc = "prompt" /\ turn = s /\ x.state \in {"STARTED", "PROCESSING_PROMPT"} /\ Len(batch) < NBatch
      /\ AfterPrompts(batch') /\ UNCHANGED <<off, view, n_batch>>
  BY DEF Prompt, Wanted
<1>2. batch' = batch \o more /\ Becomes(v)
  <2>1. n + room = n + NBatch - Len(batch)
    <3>1. n \in Int /\ NBatch \in Int /\ Len(batch) \in Int
      <4>1. /\ w \in Work /\ batch \in Seq(TokType)
        <5>1. Now \in Work
          BY CalmNow
        <5>2. u \in Work
          BY <5>1, KeptIs
        <5> HIDE DEF u
        <5> QED BY <1>0, <5>2, TruncatedIs DEF IInv, Typed
      <4>2. w.slot[s] \in SlotType
        BY <4>1, WorkParts
      <4>3. w.slot[s].tokens \in Seq(Token)
        BY <4>2, SlotParts
      <4> QED BY <4>1, <4>3, SizesAssumption, LenProperties
    <3> HIDE DEF n
    <3> QED BY <3>1
  <2> QED BY <1>0, <2>1 DEF Prompt
<1>3. Now \in Work /\ Now.slot = slot /\ x \in SlotType /\ all \in Seq(Token) /\ batch \in Seq(TokType) /\ Coherent(x)
  <2>1. Now \in Work /\ Now.slot = slot
    BY CalmNow
  <2>2. x \in SlotType
    BY <2>1, WorkParts
  <2>3. x.task \in TaskType
    BY <2>2, SlotParts
  <2> QED BY <2>1, <2>2, <2>3 DEF IInv, Typed, TaskType
<1>4. /\ u \in Work /\ \A y \in Slots \ {s} : u.slot[y] = slot[y]
      /\ \E tokens \in Seq(Token) :
            IsPrefix(tokens, all) /\ u.slot[s] = [x EXCEPT !.tokens = tokens, !.state = "PROCESSING_PROMPT"]
  <2>1. CASE x.state = "STARTED"
    <3>1. /\ Kept(Now, s) \in Work
          /\ \A y \in Slots \ {s} : Kept(Now, s).slot[y] = Now.slot[y]
          /\ \E tokens \in Seq(Token) :
                 /\ IsPrefix(tokens, Now.slot[s].task.prompt)
                 /\ Kept(Now, s).slot[s] = [Now.slot[s] EXCEPT !.tokens = tokens, !.state = "PROCESSING_PROMPT"]
      BY <1>3, KeptIs
    <3>2. u = Kept(Now, s)
      BY <2>1
    <3> HIDE DEF u
    <3> QED BY <1>3, <3>1, <3>2
  <2>2. CASE x.state # "STARTED"
    <3>1. x.state = "PROCESSING_PROMPT" /\ IsPrefix(x.tokens, all) /\ x.tokens \in Seq(Token)
      BY <1>1, <1>3, <2>2, SlotParts DEF Coherent
    <3>2. x = [x EXCEPT !.tokens = x.tokens, !.state = "PROCESSING_PROMPT"]
      BY <1>3, <3>1 DEF SlotType
    <3>3. u = Now
      BY <2>2
    <3> HIDE DEF u
    <3> QED BY <1>3, <3>1, <3>2, <3>3
  <2> QED BY <2>1, <2>2
<1> HIDE DEF u
<1>5. w \in Work /\ w.slot = u.slot
  BY <1>0, <1>4, TruncatedIs
<1>6. PICK tokens \in Seq(Token) :
        IsPrefix(tokens, all) /\ w.slot[s] = [x EXCEPT !.tokens = tokens, !.state = "PROCESSING_PROMPT"]
  BY <1>4, <1>5
<1>7. w.slot[s] \in SlotType /\ w.slot[s].tokens = tokens /\ n = Len(tokens) /\ n \in Nat
  <2>1. w.slot[s] \in SlotType
    BY <1>5, WorkParts
  <2>2. w.slot[s].tokens = tokens
    BY <1>3, <1>6 DEF SlotType
  <2> QED BY <2>1, <2>2
<1>8. n <= Len(all) /\ Len(all) \in Nat /\ \A j \in 1 .. n : tokens[j] = all[j]
  <2>1. Len(tokens) <= Len(all) /\ \A j \in 1 .. Len(tokens) : tokens[j] = all[j]
    BY <1>3, <1>6, PrefixIs
  <2> QED BY <1>3, <1>7, <2>1
<1>9. room \in Nat /\ last \in Nat /\ n <= last /\ last <= Len(all)
  <2>1. Len(batch) \in Nat /\ NBatch \in Nat
    BY <1>3, SizesAssumption
  <2>2. room \in Nat
    BY <1>1, <2>1
  <2> HIDE DEF n, room
  <2>3. last = IF Len(all) <= n + room THEN Len(all) ELSE n + room
    BY <1>7, <1>8, <2>2, MinOfTwo, SMTT(60)
  <2> HIDE DEF last
  <2> QED BY <1>7, <1>8, <2>2, <2>3
<1> HIDE DEF room, last
<1>10. part \in Seq(Token) /\ Len(part) = last - n /\ \A j \in 1 .. last - n : part[j] = all[n + j]
  <2> HIDE DEF n
  <2>1. /\ SubSeq(all, n + 1, last) \in Seq(Token)
        /\ Len(SubSeq(all, n + 1, last)) = IF n + 1 <= last THEN last - (n + 1) + 1 ELSE 0
        /\ \A j \in 1 .. last - (n + 1) + 1 : SubSeq(all, n + 1, last)[j] = all[n + 1 + j - 1]
    <3>1. n + 1 \in Nat /\ last \in Int /\ n + 1 >= 1
      BY <1>7, <1>9
    <3> QED BY <1>3, <1>9, <3>1, PartOf, SMTT(30)
  <2>2. last - (n + 1) + 1 = last - n /\ (~ (n + 1 <= last) => last - n = 0) /\ \A j \in 1 .. last - n : n + 1 + j - 1 = n + j
    BY <1>7, <1>9
  <2> QED BY <2>1, <2>2
<1> HIDE DEF part
<1>11. batch' \in Seq(TokType) /\ Len(batch') = Len(batch) + (last - n) /\ Len(batch) \in Nat
  <2>1. last - n \in Nat /\ \A j \in 1 .. last - n : n + j - 1 \in Nat /\ n + j \in 1 .. Len(all)
    <3> HIDE DEF n
    <3> QED BY <1>7, <1>8, <1>9
  <2>2. \A j \in 1 .. Len(all) : all[j] \in Token
    BY <1>3
  <2>3. more \in [1 .. last - n -> TokType]
    <3> HIDE DEF n
    <3> QED BY <2>1, <2>2 DEF TokType
  <2> HIDE DEF more, n
  <2> QED BY <1>2, <1>3, <2>1, <2>3, BatchGrows
<1>12. /\ tokens \o part \in Seq(Token) /\ IsPrefix(tokens \o part, all)
       /\ done => tokens \o part = all
  <2> DEFINE new == tokens \o part
  <2>1. new \in Seq(Token) /\ Len(new) = last /\ \A j \in 1 .. last : new[j] = IF j <= n THEN tokens[j] ELSE part[j - n]
    <3> HIDE DEF n
    <3>0. /\ new \in Seq(Token) /\ Len(new) = Len(tokens) + Len(part)
          /\ \A j \in 1 .. Len(tokens) + Len(part) : new[j] = IF j <= Len(tokens) THEN tokens[j] ELSE part[j - Len(tokens)]
      BY <1>10, ConcatProperties
    <3> HIDE DEF new
    <3>1. Len(new) = n + (last - n) /\ new \in Seq(Token)
      BY <1>7, <1>10, <3>0
    <3>2. \A j \in 1 .. n + (last - n) : new[j] = IF j <= n THEN tokens[j] ELSE part[j - n]
      BY <1>7, <1>10, <3>0
    <3>3. n + (last - n) = last
      BY <1>7, <1>9
    <3> QED BY <3>1, <3>2, <3>3
  <2> HIDE DEF new, n
  <2>2. ASSUME NEW j \in 1 .. last
        PROVE  new[j] = all[j]
    <3>1. CASE j <= n
      BY <1>7, <1>8, <1>9, <2>1, <3>1
    <3>2. CASE ~ (j <= n)
      <4>1. j - n \in 1 .. last - n /\ n + (j - n) = j
        BY <1>7, <1>9, <3>2
      <4> QED BY <1>10, <2>1, <3>2, <4>1
    <3> QED BY <3>1, <3>2
  <2>3. IsPrefix(new, all)
    BY <1>3, <1>9, <2>1, <2>2, PrefixIs
  <2>4. last = Len(all) => new = all
    BY <1>3, <2>1, <2>2, SeqEqual
  <2> QED BY <2>1, <2>3, <2>4 DEF new
<1>13. i \in Nat /\ state \in States /\ state \in {"DONE_PROMPT", "PROCESSING_PROMPT"}
  <2>1. Len(batch) + last - n \in Nat
    <3> HIDE DEF n
    <3> QED BY <1>7, <1>9, <1>11
  <2> QED BY <2>1 DEF States
<1>14. (state = "DONE_PROMPT") <=> done
  OBVIOUS
<1> HIDE DEF i, state, done
<1>15. z \in SlotType
  BY <1>7, <1>12, <1>13 DEF SlotType
<1>16. v = [w EXCEPT !.slot[s] = z]
  <2>1. w \in Work /\ w.slot[s] \in SlotType
    BY <1>5, <1>7
  <2> HIDE DEF n, x, u
  <2> QED BY ONLY <2>1, s \in Slots DEF Work, SlotType, v, z
<1>17. v \in Work /\ v.slot[s] = z /\ \A y \in Slots \ {s} : v.slot[y] = slot[y]
  <2> HIDE DEF v, z
  <2> QED BY <1>4, <1>5, <1>15, <1>16 DEF Work
<1>18. z.state = state /\ z.tokens = tokens \o part /\ z.task.prompt = all /\ z.out = x.out /\ z.draft = x.draft
  BY <1>3, <1>6, <1>7 DEF SlotType
<1>19. x.out = <<>> /\ x.draft = <<>> /\ z.task = x.task
  <2>1. x.out = <<>> /\ x.draft = <<>>
    BY <1>1, <1>3 DEF Coherent
  <2>2. z.task = x.task
    BY <1>6, <1>7, <1>3 DEF SlotType
  <2> QED BY <2>1, <2>2
<1>20. v.cells = w.cells /\ v.saved = w.saved /\ v.spoiled = w.spoiled
  <2> HIDE DEF z
  <2> QED BY <1>5, <1>16 DEF Work
<1>21. z.i_batch = i /\ (state = "DONE_PROMPT" => i = Len(batch) + (last - n))
  <2>1. z.i_batch = i
    BY <1>7 DEF SlotType
  <2>2. last - n \in Int /\ Len(batch) + last - n = Len(batch) + (last - n)
    <3> HIDE DEF n
    <3> QED BY <1>7, <1>9, <1>11
  <2> HIDE DEF n
  <2> QED BY <1>14, <2>1, <2>2 DEF i
<1> HIDE DEF z, v
<1>22. /\ \A j \in 1 .. Len(batch) : batch'[j] = batch[j]
       /\ \A j \in 1 .. last - n : batch'[Len(batch) + j] = [slot |-> s, tok |-> all[n + j], pos |-> n + j - 1]
  <2>1. last - n \in Nat /\ \A j \in 1 .. last - n : n + j - 1 \in Nat /\ n + j \in 1 .. Len(all)
    <3> HIDE DEF n
    <3> QED BY <1>7, <1>8, <1>9
  <2>2. \A j \in 1 .. last - n : [slot |-> s, tok |-> all[n + j], pos |-> n + j - 1] \in TokType
    <3> HIDE DEF n
    <3> QED BY <1>3, <2>1 DEF TokType
  <2> HIDE DEF n
  <2>3. more \in Seq(TokType) /\ Len(more) = last - n /\ \A j \in 1 .. last - n : more[j] = [slot |-> s, tok |-> all[n + j], pos |-> n + j - 1]
    BY <2>1, <2>2
  <2> HIDE DEF more
  <2>4. /\ \A j \in 1 .. Len(batch) : (batch \o more)[j] = batch[j]
        /\ \A j \in 1 .. Len(more) : (batch \o more)[Len(batch) + j] = more[j]
    <3>1. batch \in Seq(TokType) /\ more \in Seq(TokType)
      BY <1>3, <2>3
    <3> QED BY <3>1, ConcatIs
  <2> QED BY <1>2, <2>3, <2>4
<1>23. Len(z.tokens) = last /\ \A j \in 1 .. last : z.tokens[j] = all[j]
  <2>1. z.tokens \in Seq(Token) /\ \A j \in 1 .. Len(z.tokens) : z.tokens[j] = all[j]
    <3>1. z.tokens \in Seq(Token) /\ IsPrefix(z.tokens, all)
      BY <1>12, <1>18
    <3> QED BY <1>3, <3>1, PrefixIs
  <2>2. Len(z.tokens) = last
    <3>1. Len(tokens \o part) = Len(tokens) + Len(part)
      BY <1>10, ConcatProperties
    <3> HIDE DEF n
    <3> QED BY <1>7, <1>9, <1>10, <1>18, <3>1
  <2> QED BY <2>1, <2>2
<1>24. n = Len(old) /\ old = tokens
  BY <1>7
<1> HIDE DEF n, x
<1>25. /\ Becomes(v) /\ v.cells = w.cells /\ v.saved = w.saved /\ v.spoiled = w.spoiled
       /\ \A y \in Slots \ {s} : v.slot[y] = slot[y]
       /\ Len(old) <= last /\ last <= Len(all)
       /\ v.slot[s].tokens \in Seq(Token) /\ Len(v.slot[s].tokens) = last
       /\ \A j \in 1 .. last : v.slot[s].tokens[j] = all[j]
       /\ v.slot[s].task = slot[s].task /\ v.slot[s].draft = <<>> /\ v.slot[s].out = <<>>
       /\ v.slot[s].state \in {"DONE_PROMPT", "PROCESSING_PROMPT"}
       /\ v.slot[s].state = "DONE_PROMPT" => v.slot[s].tokens = all
       /\ v.slot[s].state = "DONE_PROMPT" => v.slot[s].i_batch = Len(batch) + (last - Len(old))
  <2>1. Becomes(v) /\ v.cells = w.cells /\ v.saved = w.saved /\ v.spoiled = w.spoiled /\ v.slot[s] = z
        /\ \A y \in Slots \ {s} : v.slot[y] = slot[y]
    BY <1>2, <1>17, <1>20
  <2>2. Len(old) <= last /\ last <= Len(all) /\ z.tokens \in Seq(Token)
    BY <1>9, <1>12, <1>18, <1>24
  <2>3. z.task = slot[s].task /\ z.draft = <<>> /\ z.out = <<>>
    BY <1>18, <1>19 DEF x
  <2>4. /\ z.state \in {"DONE_PROMPT", "PROCESSING_PROMPT"}
        /\ z.state = "DONE_PROMPT" => z.tokens = all /\ z.i_batch = Len(batch) + (last - Len(old))
    BY <1>12, <1>13, <1>14, <1>18, <1>21, <1>24
  <2> QED BY <1>23, <2>1, <2>2, <2>3, <2>4
<1>26. /\ batch' \in Seq(TokType) /\ Len(batch') = Len(batch) + (last - Len(old))
       /\ \A j \in 1 .. Len(batch) : batch'[j] = batch[j]
       /\ \A j \in 1 .. last - Len(old) :
             batch'[Len(batch) + j] = [slot |-> s, tok |-> all[Len(old) + j], pos |-> Len(old) + j - 1]
  BY <1>11, <1>22, <1>24
<1>27. \A y \in Slots \ {s} : w.slot[y] = slot[y]
  BY <1>4, <1>5
<1>28. old \in Seq(Token) /\ all \in Seq(Token) /\ IsPrefix(old, all)
  BY <1>3, <1>6, <1>24
<1>29. Prompted(s, w, old, all, last, v)
  BY <1>25, <1>26 DEF Prompted
<1> QED BY <1>1, <1>5, <1>9, <1>17, <1>27, <1>28, <1>29 DEF x

\* What was kept is in the cache, exactly.
LEMMA PromptReady ==
    ASSUME CInv, NEW s \in Slots, Prompt(s),
           NEW w, w = Truncated(IF slot[s].state = "STARTED" THEN Kept(Now, s) ELSE Now, s)
    PROVE  /\ Leaves(Now, w, {s}) /\ Sound(w.cells) /\ w.saved = saved
           /\ s \notin w.spoiled => Data(w.cells, s) = Firsts(w.slot[s].tokens, Len(w.slot[s].tokens))
           /\ Len(slot[s].task.prompt) < NCtx
<1> DEFINE x == slot[s]
           u == IF x.state = "STARTED" THEN Kept(Now, s) ELSE Now
<1>1. pc = "prompt" /\ turn = s /\ x.state \in {"STARTED", "PROCESSING_PROMPT"} /\ (x.state = "STARTED" => ~TooLong(s))
  BY DEF Prompt, Wanted
<1>2. /\ Content(Now, batch, 0) /\ batch \in Seq(TokType) /\ Now \in Work /\ Now.slot = slot /\ x \in SlotType /\ Clean(s, batch, 0)
      /\ Now.saved = saved
  BY <1>1, BeforeDecode DEF Now
<1>3. Sound(Now.cells) /\ Apt(x) /\ Fine(s, x, Data(Now.cells, s), s \in Now.spoiled, batch, 0)
  BY <1>2 DEF Content
<1>4. s \notin Now.spoiled => Holds(Data(Now.cells, s), x.tokens, Len(x.tokens))
  <2>1. Data(Now.cells, s) \in SUBSET DataType /\ (s \in Now.spoiled) \in BOOLEAN
    <3>1. Now.cells \in SUBSET CellType
      BY <1>2, WorkParts
    <3>2. Data(Now.cells, s) \in SUBSET DataType
      BY <3>1, CellsType
    <3>3. (s \in Now.spoiled) \in BOOLEAN
      OBVIOUS
    <3> QED BY <3>2, <3>3
  <2>2. Backed(x, Data(Now.cells, s), s \in Now.spoiled)
    BY <1>2, <1>3, <2>1, FineIsBacked
  <2> QED BY <2>2 DEF Backed
<1>5. Len(x.task.prompt) < NCtx
  <2>1. x.task \in TaskType
    BY <1>2, SlotParts
  <2>2. x.task.prompt \in Seq(Token)
    BY <2>1 DEF TaskType
  <2>3. Len(x.task.prompt) \in Nat /\ NCtx \in Nat
    BY <2>2, LenProperties, SizesAssumption
  <2> HIDE DEF x
  <2>4. CASE x.state = "STARTED"
    <3>1. ~(Len(x.task.prompt) >= NCtx)
      BY <1>1, <2>4 DEF TooLong, x
    <3> QED BY <2>3, <3>1
  <2>5. CASE x.state = "PROCESSING_PROMPT"
    BY <1>3, <2>5 DEF Apt
  <2> QED BY <1>1, <2>4, <2>5
<1>6. /\ u \in Work /\ Leaves(Now, u, {s}) /\ Sound(u.cells) /\ u.saved = saved
      /\ s \notin u.spoiled => Holds(Data(u.cells, s), u.slot[s].tokens, Len(u.slot[s].tokens))
  <2>1. CASE x.state = "STARTED"
    <3>1. u = Kept(Now, s)
      BY <2>1
    <3>2. u \in Work
      BY <1>2, <3>1, KeptIs
    <3> HIDE DEF u
    <3>3. s \notin Now.spoiled => Holds(Data(Now.cells, s), Now.slot[s].tokens, Len(Now.slot[s].tokens))
      BY <1>2, <1>4
    <3> QED BY <1>2, <1>3, <3>1, <3>2, <3>3, KeptHas
  <2>2. CASE x.state # "STARTED"
    <3>1. u = Now
      BY <2>2
    <3>2. Leaves(Now, Now, {s})
      BY DEF Leaves
    <3> HIDE DEF u
    <3> QED BY <1>2, <1>3, <1>4, <3>1, <3>2
  <2> QED BY <2>1, <2>2
<1>7. w = Truncated(u, s)
  OBVIOUS
<1> HIDE DEF u
<1>8. /\ Leaves(u, w, {s}) /\ Sound(w.cells) /\ w.saved = u.saved
      /\ s \notin w.spoiled => Data(w.cells, s) = Firsts(u.slot[s].tokens, Len(u.slot[s].tokens))
  <2> DEFINE tokens == u.slot[s].tokens
  <2>1. tokens = u.slot[s].tokens /\ (s \notin u.spoiled => Holds(Data(u.cells, s), tokens, Len(tokens)))
    BY <1>6
  <2> HIDE DEF tokens
  <2>2. /\ Leaves(u, w, {s}) /\ Sound(w.cells) /\ w.saved = u.saved
        /\ s \notin w.spoiled => Data(w.cells, s) = Firsts(tokens, Len(tokens))
    BY <1>6, <1>7, <2>1, TruncatedHas
  <2> QED BY <2>2 DEF tokens
<1>9. w.slot = u.slot
  BY <1>6, <1>7, TruncatedIs
<1>10. Leaves(Now, w, {s})
  BY <1>6, <1>8, LeavesMore
<1> QED BY <1>5, <1>6, <1>8, <1>9, <1>10

\* As many tokens of the prompt as the batch has room for.
LEMMA PromptCells ==
    ASSUME CInv, NEW s \in Slots, Prompt(s)
    PROVE  Counts' /\ Visited' /\ Content(Now', batch', Done')
<1> DEFINE w   == Truncated(IF slot[s].state = "STARTED" THEN Kept(Now, s) ELSE Now, s)
           old == w.slot[s].tokens
           all == slot[s].task.prompt
<1>1. IInv
  BY DEF CInv
<1>2. /\ Leaves(Now, w, {s}) /\ Sound(w.cells) /\ w.saved = saved
      /\ s \notin w.spoiled => Data(w.cells, s) = Firsts(old, Len(old))
      /\ Len(all) < NCtx
  BY PromptReady
<1>3. /\ pc = "prompt" /\ turn = s /\ slot[s].state \in {"STARTED", "PROCESSING_PROMPT"}
      /\ AfterPrompts(batch') /\ UNCHANGED <<off, view, n_batch>> /\ w \in Work
      /\ \A y \in Slots \ {s} : w.slot[y] = slot[y]
      /\ old \in Seq(Token) /\ all \in Seq(Token) /\ IsPrefix(old, all)
      /\ \E last \in Nat, v \in Work : Prompted(s, w, old, all, last, v)
  <2>1. /\ w = Truncated(IF slot[s].state = "STARTED" THEN Kept(Now, s) ELSE Now, s)
        /\ old = w.slot[s].tokens /\ all = slot[s].task.prompt
    OBVIOUS
  <2> HIDE DEF w, old, all
  <2> QED BY <1>1, <2>1, PromptParts
<1> HIDE DEF w, old, all
<1>4. PICK last \in Nat, v \in Work : Prompted(s, w, old, all, last, v)
  BY <1>3
<1>p. /\ Becomes(v) /\ v.cells = w.cells /\ v.saved = w.saved /\ v.spoiled = w.spoiled
      /\ \A y \in Slots \ {s} : v.slot[y] = slot[y]
      /\ Len(old) <= last /\ last <= Len(all)
      /\ v.slot[s].tokens \in Seq(Token) /\ Len(v.slot[s].tokens) = last
      /\ \A j \in 1 .. last : v.slot[s].tokens[j] = all[j]
      /\ v.slot[s].task = slot[s].task /\ v.slot[s].draft = <<>> /\ v.slot[s].out = <<>>
      /\ v.slot[s].state \in {"DONE_PROMPT", "PROCESSING_PROMPT"}
      /\ v.slot[s].state = "DONE_PROMPT" => v.slot[s].tokens = all
      /\ v.slot[s].state = "DONE_PROMPT" => v.slot[s].i_batch = Len(batch) + (last - Len(old))
      /\ batch' \in Seq(TokType) /\ Len(batch') = Len(batch) + (last - Len(old))
      /\ \A j \in 1 .. Len(batch) : batch'[j] = batch[j]
      /\ \A j \in 1 .. last - Len(old) :
            batch'[Len(batch) + j] = [slot |-> s, tok |-> all[Len(old) + j], pos |-> Len(old) + j - 1]
  BY <1>4 DEF Prompted
<1> DEFINE z == v.slot[s]
           m == last - Len(old)
           n == Len(old)
<1>5. /\ Content(Now, batch, 0) /\ batch \in Seq(TokType) /\ Len(batch) \in Nat /\ Clean(s, batch, 0)
      /\ Now.slot = slot /\ Now.saved = saved
  BY <1>3, BeforeDecode DEF Now
<1>6. /\ n \in Nat /\ m \in Nat /\ n + m = last /\ last < NCtx /\ Len(all) \in Nat /\ NCtx \in Nat
      /\ \A j \in 1 .. n : j \in 1 .. last /\ j \in 1 .. Len(old)
      /\ \A j \in 1 .. m : n + j \in 1 .. last /\ n + j - 1 < NCtx
  <2>1. n \in Nat /\ Len(all) \in Nat /\ NCtx \in Nat
    BY <1>3, LenProperties, SizesAssumption
  <2>2. n <= last /\ last <= Len(all) /\ Len(all) < NCtx
    BY <1>2, <1>p DEF all
  <2>3. m = last - n
    OBVIOUS
  <2> HIDE DEF m
  <2>4. \A j \in 1 .. n : j \in 1 .. Len(old)
    OBVIOUS
  <2> HIDE DEF n
  <2> QED BY <2>1, <2>2, <2>3, <2>4
<1>7. Len(old) <= Len(all) /\ \A j \in 1 .. Len(old) : old[j] = all[j]
  BY <1>3, PrefixIs
<1>8. z.tokens \in Seq(Token) /\ Len(z.tokens) = n + m /\ \A j \in 1 .. n : z.tokens[j] = old[j]
  <2>1. z.tokens \in Seq(Token) /\ Len(z.tokens) = last /\ \A j \in 1 .. last : z.tokens[j] = all[j]
    BY <1>p
  <2> HIDE DEF n, m, z
  <2> QED BY <1>6, <1>7, <2>1
<1>9. /\ Len(batch') = Len(batch) + m /\ batch' \in Seq(TokType) /\ \A j \in 1 .. Len(batch) : batch'[j] = batch[j]
      /\ \A j \in 1 .. m : batch'[Len(batch) + j] = [slot |-> s, tok |-> all[n + j], pos |-> n + j - 1]
  BY <1>p
<1>10. \A j \in 1 .. m : /\ batch'[Len(batch) + j].slot = s /\ batch'[Len(batch) + j].pos = n + j - 1
                         /\ batch'[Len(batch) + j].tok = z.tokens[n + j]
  <2>1. \A j \in 1 .. last : z.tokens[j] = all[j]
    BY <1>p
  <2> HIDE DEF n, m, z
  <2>2. ASSUME NEW j \in 1 .. m
        PROVE  /\ batch'[Len(batch) + j].slot = s /\ batch'[Len(batch) + j].pos = n + j - 1
               /\ batch'[Len(batch) + j].tok = z.tokens[n + j]
    <3>1. batch'[Len(batch) + j] = [slot |-> s, tok |-> all[n + j], pos |-> n + j - 1]
      BY <1>9
    <3>2. z.tokens[n + j] = all[n + j]
      BY <1>6, <2>1
    <3> QED BY <3>1, <3>2
  <2> QED BY <2>2
<1>11. z.state \in {"DONE_PROMPT", "PROCESSING_PROMPT"} /\ z.draft = <<>> /\ Len(z.draft) = 0 /\ z.task = slot[s].task
  BY <1>p
<1>12. z.state = "DONE_PROMPT" => z.i_batch + Len(z.draft) = Len(batch) + m
  BY <1>p, <1>5, <1>6, <1>11
<1>13. s \notin v.spoiled => Data(v.cells, s) = Firsts(old, Len(old))
  BY <1>2, <1>p DEF old
<1>14. v.saved = saved /\ Sound(v.cells) /\ Leaves(Now, v, {s})
  <2>1. v.saved = saved /\ Sound(v.cells)
    BY <1>2, <1>p
  <2>2. \A t \in Slots \ {s} : v.slot[t] = Now.slot[t]
    BY <1>p, <1>5
  <2> QED BY <1>2, <1>p, <2>1, <2>2 DEF Leaves
<1> HIDE DEF m, z
<1>15. Fine(s, z, Data(v.cells, s), s \in v.spoiled, batch', 0)
  <2>0. n = Len(old)
    OBVIOUS
  <2> HIDE DEF n
  <2>1. z.state \notin {"STARTED", "WAIT_OTHER"} /\ z.state # "GENERATING"
    BY <1>11
  <2>2. m > 0 /\ z.state \in {"DONE_PROMPT", "GENERATING"} => z.i_batch + Len(z.draft) = Len(batch) + m
    BY <1>12, <2>1
  <2>3. /\ \A j \in 1 .. m : /\ batch'[Len(batch) + j].slot = s /\ batch'[Len(batch) + j].pos = Len(old) + j - 1
                             /\ batch'[Len(batch) + j].tok = z.tokens[Len(old) + j]
        /\ z.tokens \in Seq(Token) /\ Len(z.tokens) = Len(old) + m /\ \A j \in 1 .. Len(old) : z.tokens[j] = old[j]
    BY <1>8, <1>10, <2>0
  <2>4. /\ old \in Seq(Token) /\ m \in Nat /\ batch \in Seq(TokType) /\ Clean(s, batch, 0) /\ batch' \in Seq(TokType)
        /\ Len(batch') = Len(batch) + m /\ \A j \in 1 .. Len(batch) : batch'[j] = batch[j]
    BY <1>3, <1>5, <1>6, <1>9
  <2>5. /\ z.state \notin {"STARTED", "WAIT_OTHER"}
        /\ ~(s \in v.spoiled) => Data(v.cells, s) = Firsts(old, Len(old))
    BY <1>13, <2>1
  <2> QED BY <2>2, <2>3, <2>4, <2>5, FineAdds
<1>16. Apt(z)
  <2>1. z.state # "GENERATING" /\ Len(z.task.prompt) < NCtx
    BY <1>2, <1>11 DEF all
  <2>2. Len(z.tokens) < NCtx
    BY <1>6, <1>8
  <2> QED BY <2>1, <2>2 DEF Apt
<1>17. \A j \in Len(batch) + 1 .. Len(batch') : batch'[j].slot = s /\ batch'[j].pos < NCtx
  <2>1. ASSUME NEW j \in Len(batch) + 1 .. Len(batch')
        PROVE  batch'[j].slot = s /\ batch'[j].pos < NCtx
    <3> DEFINE k == j - Len(batch)
    <3>1. k \in 1 .. m /\ Len(batch) + k = j
      BY <1>5, <1>6, <1>9
    <3> HIDE DEF k, n
    <3>2. n + k - 1 < NCtx
      BY <1>6, <3>1
    <3>3. batch'[Len(batch) + k].slot = s /\ batch'[Len(batch) + k].pos = n + k - 1
      BY <1>10, <3>1
    <3> QED BY <3>1, <3>2, <3>3
  <2> QED BY <2>1
<1>18. Len(batch) <= Len(batch')
  <2> HIDE DEF n
  <2> QED BY <1>5, <1>6, <1>9
<1>19. Content(v, batch', 0)
  <2>1. \A j \in DOMAIN v.saved : Whole(v.saved[j])
    BY <1>5, <1>14 DEF Content
  <2>2. Apt(v.slot[s]) /\ Fine(s, v.slot[s], Data(v.cells, s), s \in v.spoiled, batch', 0)
    BY <1>15, <1>16 DEF z
  <2> QED BY <1>5, <1>9, <1>14, <1>17, <1>18, <2>1, <2>2, ContentGrows
<1>20. Becomes(v) /\ \A y \in Slots \ {turn} : v.slot[y] = slot[y]
  BY <1>3, <1>p
<1> HIDE DEF n
<1> QED BY <1>3, <1>9, <1>17, <1>18, <1>19, <1>20, TurnCells

-----------------------------------------------------------------------------
(* decode.                                                                 *)

\* When a view is decoded.
LEMMA InDecode ==
    ASSUME CInv, pc = "decode"
    PROVE  /\ batch \in Seq(TokType) /\ Len(batch) \in Nat /\ off \in Nat /\ off <= Len(batch) /\ Content(Now, batch, off)
           /\ Now \in Work /\ Now.slot = slot /\ Now.cells = cells /\ Now.saved = saved /\ Now.spoiled = spoiled
           /\ n_batch \in Nat /\ n_batch >= 1 /\ n_batch <= NBatch /\ \A j \in 1 .. Len(batch) : batch[j].pos < NCtx
<1>1. IInv /\ Counts /\ Content(Now, batch, Done)
  BY DEF CInv
<1>2. Now \in Work /\ Now.slot = slot /\ Now.cells = cells /\ Now.spoiled = spoiled /\ Now.saved = saved
  BY <1>1, CalmNow DEF Now
<1>3. batch \in Seq(TokType) /\ off \in Nat /\ n_batch \in Nat /\ DOMAIN batch = 1 .. Len(batch) /\ Len(batch) \in Nat
  BY <1>1 DEF IInv, Typed
<1>4. view = 0 /\ Done = off
  BY <1>1 DEF Counts, Done
<1> QED BY <1>1, <1>2, <1>3, <1>4 DEF Counts

\* All the slots of S are released.
LEMMA ContentReleaseAll ==
    ASSUME NEW w, NEW b, NEW o, Content(w, b, o), NEW S \in SUBSET Slots
    PROVE  Content(ReleaseAll(w, S), b, o) /\ Released(w, ReleaseAll(w, S), S)
<1> DEFINE K == {p \in (SUBSET Slots) \X Work : Content(p[2], b, o)}
<1>1. w \in Work
  BY DEF Content
<1>2. <<{}, w>> \in K
  BY <1>1
<1>3. ASSUME NEW T \in SUBSET S, NEW x \in T, NEW v \in Work, <<T \ {x}, v>> \in K
      PROVE  <<T, Release(v, x)>> \in K
  <2>1. Content(v, b, o) /\ x \in Slots
    BY <1>3
  <2>2. Content(Release(v, x), b, o)
    BY <2>1, ContentRelease
  <2>3. Release(v, x) \in Work
    BY <2>2 DEF Content
  <2> QED BY <2>2, <2>3
<1> HIDE DEF K
<1>4. <<S, ReleaseAll(w, S)>> \in K
  BY <1>1, <1>2, <1>3, ReleaseAllRule
<1>5. Released(w, ReleaseAll(w, S), S)
  BY <1>1, ReleaseAllIs
<1> QED BY <1>4, <1>5 DEF K

\* All the slots of S, when none is at work, are cleared.
LEMMA ContentClearAll ==
    ASSUME NEW w, NEW b, NEW o, Content(w, b, o), \A s \in Slots : w.slot[s].state = "IDLE", NEW S \in SUBSET Slots
    PROVE  Content(ClearAll(w, S), b, o) /\ \A s \in Slots : ClearAll(w, S).slot[s].state = "IDLE"
<1> DEFINE K == {p \in (SUBSET Slots) \X Work : Content(p[2], b, o) /\ \A s \in Slots : p[2].slot[s].state = "IDLE"}
<1>1. w \in Work
  BY DEF Content
<1>2. <<{}, w>> \in K
  BY <1>1
<1>3. ASSUME NEW T \in SUBSET S, NEW x \in T, NEW v \in Work, <<T \ {x}, v>> \in K
      PROVE  <<T, Clear(v, x)>> \in K
  <2>1. Content(v, b, o) /\ x \in Slots /\ \A s \in Slots : v.slot[s].state = "IDLE"
    BY <1>3
  <2>2. Content(Clear(v, x), b, o)
    BY <2>1, ContentClear
  <2>3. Clear(v, x) \in Work
    BY <2>2 DEF Content
  <2>4. \A s \in Slots : Clear(v, x).slot[s].state = "IDLE"
    <3>1. Leaves(v, Clear(v, x), {x}) /\ Clear(v, x).slot[x] = [v.slot[x] EXCEPT !.tokens = <<>>]
      BY <2>1, ClearParts
    <3>2. v.slot[x] \in SlotType
      BY <2>1, WorkParts
    <3>3. [v.slot[x] EXCEPT !.tokens = <<>>].state = v.slot[x].state
      BY <3>2 DEF SlotType
    <3> QED BY <2>1, <3>1, <3>3 DEF Leaves
  <2> QED BY <2>2, <2>3, <2>4
<1> HIDE DEF K
<1>4. <<S, ClearAll(w, S)>> \in K
  BY <1>1, <1>2, <1>3, ClearAllRule
<1> QED BY <1>4 DEF K

\* The batch is given up: what it has of a slot is not decoded any more.
LEMMA GivenUpCells ==
    ASSUME CInv, pc = "decode", NEW n \in Nat, NEW w, Content(w, batch, n), \A s \in Slots : w.slot[s].state = "IDLE",
           GivenUp(w, n)
    PROVE  Counts' /\ Visited' /\ Content(Now', batch', Done')
<1> DEFINE lost == {s \in Rest(n) : w.slot[s].tokens # <<>>}
           sp   == w.spoiled \cup lost
           v    == [w EXCEPT !.spoiled = sp]
<1>1. /\ batch \in Seq(TokType) /\ Len(batch) \in Nat /\ n_batch >= 1 /\ n_batch <= NBatch
  BY InDecode
<1>2. w \in Work
  BY DEF Content
<1>3. \A j \in n + 1 .. Len(batch) : batch[j].slot \in Slots
  <2>1. \A j \in n + 1 .. Len(batch) : batch[j] \in TokType
    BY <1>1
  <2> QED BY <2>1 DEF TokType
<1>4. sp \in SUBSET Slots
  BY <1>2, <1>3, WorkParts DEF Rest
<1>5. Becomes(v) /\ pc' = "tasks" /\ batch' = <<>> /\ off' = 0 /\ view' = 0 /\ n_batch' = n_batch
  BY <1>2 DEF GivenUp, Work
<1> HIDE DEF sp
<1>6. v \in Work /\ v.slot = w.slot /\ v.cells = w.cells /\ v.saved = w.saved /\ v.spoiled = sp
  BY <1>2, <1>4 DEF Work
<1> HIDE DEF v
<1>7. ASSUME NEW s \in Slots
      PROVE  Apt(v.slot[s]) /\ Fine(s, v.slot[s], Data(v.cells, s), s \in v.spoiled, <<>>, 0)
  <2> DEFINE x == w.slot[s]
             d == Data(w.cells, s)
  <2>1. Apt(x) /\ Fine(s, x, d, s \in w.spoiled, batch, n)
    BY DEF Content
  <2>2. x \in SlotType /\ d \in SUBSET DataType /\ (s \in w.spoiled) \in BOOLEAN
    <3>1. x \in SlotType /\ w.cells \in SUBSET CellType
      BY <1>2, WorkParts
    <3>2. d \in SUBSET DataType
      BY <3>1, CellsType
    <3> QED BY <3>1, <3>2
  <2>3. x.state = "IDLE"
    OBVIOUS
  <2> HIDE DEF x, d
  <2>4. Backed(x, d, s \in sp)
    <3>1. CASE s \in sp
      BY <3>1 DEF Backed
    <3>2. CASE s \notin sp /\ s \notin Rest(n)
      <4>1. Clean(s, batch, n)
        BY <3>2 DEF Clean, Rest
      <4>2. Backed(x, d, s \in w.spoiled)
        BY <1>1, <2>1, <2>2, <4>1, FineIsBacked
      <4> QED BY <3>2, <4>2 DEF Backed, sp
    <3>3. CASE s \notin sp /\ s \in Rest(n)
      <4>1. x.tokens = <<>>
        BY <3>3 DEF sp, x
      <4>2. Len(x.tokens) = 0 /\ Holds(d, <<>>, 0)
        BY <2>2, <4>1, HoldsNothing
      <4> QED BY <2>3, <4>1, <4>2 DEF Backed, Strict
    <3> QED BY <3>1, <3>2, <3>3
  <2>5. Backed(v.slot[s], Data(v.cells, s), s \in v.spoiled)
    BY <1>6, <2>4 DEF x, d
  <2>6. Fine(s, v.slot[s], Data(v.cells, s), s \in v.spoiled, <<>>, 0)
    BY <1>6, <2>5, RestIs
  <2> QED BY <1>6, <2>1, <2>6 DEF x
<1>8. Content(v, <<>>, 0)
  BY <1>6, <1>7 DEF Content
<1>9. Now' = v
  BY <1>5, <1>6, NowIs
<1>10. Counts'
  BY <1>1, <1>5 DEF Counts
<1>11. Visited'
  BY <1>5 DEF Visited
<1>12. Done' = 0
  BY <1>5 DEF Done
<1> QED BY <1>5, <1>8, <1>9, <1>10, <1>11, <1>12

\* When the slots at work are released none is.
LEMMA AllReleased ==
    ASSUME NEW w, w.slot = slot, NEW v, Released(w, v, {s \in Slots : Processing(s)})
    PROVE  \A s \in Slots : v.slot[s].state = "IDLE"
<1>1. ASSUME NEW s \in Slots, Processing(s)
      PROVE  v.slot[s].state = "IDLE"
  <2>1. PICK tokens \in Seq(Token) : v.slot[s] = [Fresh EXCEPT !.tokens = tokens]
    BY <1>1 DEF Released
  <2> QED BY <2>1 DEF Fresh
<1>2. ASSUME NEW s \in Slots, ~Processing(s)
      PROVE  v.slot[s].state = "IDLE"
  BY <1>2 DEF Released, Processing
<1> QED BY <1>1, <1>2

\* The batch cannot be decoded.
LEMMA DecodeFatalCells ==
    ASSUME CInv, DecodeFatal
    PROVE  Counts' /\ Visited' /\ Content(Now', batch', Done')
<1> DEFINE S == {s \in Slots : Processing(s)}
           v == ReleaseAll(Now, S)
           u == ClearAll(v, S)
<1>1. pc = "decode" /\ GivenUp(u, off)
  BY DEF DecodeFatal
<1>2. Content(Now, batch, off) /\ Now.slot = slot /\ off \in Nat
  BY <1>1, InDecode
<1>3. S \in SUBSET Slots
  OBVIOUS
<1>4. Content(v, batch, off) /\ Released(Now, v, S)
  BY <1>2, <1>3, ContentReleaseAll
<1>5. \A s \in Slots : v.slot[s].state = "IDLE"
  BY <1>2, <1>4, AllReleased
<1> HIDE DEF v, S
<1>6. Content(u, batch, off) /\ \A s \in Slots : u.slot[s].state = "IDLE"
  BY <1>3, <1>4, <1>5, ContentClearAll
<1> HIDE DEF u
<1> QED BY <1>1, <1>2, <1>6, GivenUpCells

\* There are no cells for the view.
LEMMA DecodeNoSpaceCells ==
    ASSUME CInv, DecodeNoSpace
    PROVE  Counts' /\ Visited' /\ Content(Now', batch', Done')
<1>1. pc = "decode" /\ UNCHANGED <<pc, turn, batch, off, view>> /\ n_batch # 1
  BY DEF DecodeNoSpace
<1>2. Content(Now, batch, off) /\ Now.slot = slot /\ n_batch \in Nat /\ n_batch >= 1 /\ n_batch <= NBatch /\ NBatch \in Nat
  BY <1>1, InDecode, SizesAssumption
<1>3. Done' = off /\ Done = off
  <2>1. Done = off /\ pc' = "decode" /\ off' = off
    BY <1>1 DEF Done
  <2> QED BY <2>1 DEF Done
<1>4. Visited'
  BY <1>1 DEF Visited
<1>5. ASSUME NEW w, Content(w, batch, off), Becomes(w), n_batch' >= 1, n_batch' <= NBatch
      PROVE  Counts' /\ Visited' /\ Content(Now', batch', Done')
  <2>1. Now' = w
    BY <1>5, NowIs DEF Content
  <2>2. Counts'
    BY <1>1, <1>5 DEF CInv, Counts
  <2> QED BY <1>1, <1>3, <1>4, <1>5, <2>1, <2>2
<1>6. CASE Cleared # {}
  <2>1. Becomes(Clear(Now, Min(Cleared))) /\ n_batch' = n_batch
    BY <1>6 DEF DecodeNoSpace
  <2>2. Cleared \in SUBSET Nat
    BY DEF Cleared, Slots
  <2>3. Min(Cleared) \in Cleared
    BY <1>6, <2>2, MinIs
  <2>4. Min(Cleared) \in Slots /\ Now.slot[Min(Cleared)].state = "IDLE"
    BY <1>2, <2>3 DEF Cleared, Processing
  <2>5. Content(Clear(Now, Min(Cleared)), batch, off)
    BY <1>2, <2>4, ContentClear
  <2> QED BY <1>2, <1>5, <2>1, <2>5
<1>7. CASE ~(Cleared # {})
  <2>1. Becomes(Now) /\ n_batch' = n_batch \div 2
    BY <1>7 DEF DecodeNoSpace, Becomes, Now
  <2>2. n_batch' >= 1 /\ n_batch' <= NBatch
    BY <1>1, <1>2, <2>1
  <2> QED BY <1>2, <1>5, <2>1, <2>2
<1> QED BY <1>6, <1>7

\* The last tokens are in the batch, from lo to hi.
Placed(tokens, b, lo, hi) ==
    \A j \in lo .. hi : LET i == Len(tokens) - (hi - j) IN b[j].pos = i - 1 /\ b[j].tok = tokens[i]

\* e has the cells of d, and those of b from lo to m.
Adds(e, d, b, lo, m) == \A c : c \in e <=> c \in d \/ \E j \in lo .. m : c = [tok |-> b[j].tok, pos |-> b[j].pos]

\* The cells of the tokens of b that are done, those in lo .. m, come after those of the first tokens.
LEMMA FirstsMore ==
    ASSUME NEW tokens \in Seq(Token), NEW lo \in Nat, NEW hi \in Nat, NEW m \in Int, lo <= m + 1, m <= hi,
           hi - lo < Len(tokens), NEW b, Placed(tokens, b, lo, hi),
           NEW n, n = Len(tokens) - (hi - lo + 1), NEW k, k = Len(tokens) - (hi - m), NEW e,
           Adds(e, Firsts(tokens, n), b, lo, m)
    PROVE  e = Firsts(tokens, k) /\ k \in Nat /\ k <= Len(tokens)
<1> DEFINE L == Len(tokens)
<1>1. L \in Nat /\ n \in Nat /\ k \in Nat /\ n <= k /\ k <= L /\ n <= L /\ k = n + (m - lo) + 1
  OBVIOUS
<1>2. ASSUME NEW j \in lo .. m
      PROVE  /\ n + (j - lo) + 1 \in n + 1 .. k
             /\ b[j].tok = tokens[n + (j - lo) + 1] /\ b[j].pos = (n + (j - lo) + 1) - 1
  <2>1. ASSUME NEW i, i = L - (hi - j)
        PROVE  b[j].pos = i - 1 /\ b[j].tok = tokens[i]
    <3>1. j \in lo .. hi
      OBVIOUS
    <3> QED BY <2>1, <3>1, Zenon DEF Placed
  <2>2. n + (j - lo) + 1 = L - (hi - j) /\ n + (j - lo) + 1 \in n + 1 .. k
    BY <1>1
  <2> HIDE DEF L
  <2> QED BY <2>1, <2>2
<1> HIDE DEF L
<1>3. /\ \A c : c \in Firsts(tokens, n) <=> \E q \in 1 .. n : c = [tok |-> tokens[q], pos |-> q - 1]
      /\ \A c : c \in Firsts(tokens, k) <=> \E q \in 1 .. k : c = [tok |-> tokens[q], pos |-> q - 1]
  BY DEF Firsts
<1>a. \A c : c \in e <=> c \in Firsts(tokens, n) \/ \E j \in lo .. m : c = [tok |-> b[j].tok, pos |-> b[j].pos]
  BY DEF Adds
<1>4. ASSUME NEW c \in e
      PROVE  c \in Firsts(tokens, k)
  <2>1. CASE c \in Firsts(tokens, n)
    <3>1. PICK q \in 1 .. n : c = [tok |-> tokens[q], pos |-> q - 1]
      BY <1>3, <2>1
    <3>2. q \in 1 .. k
      BY <1>1
    <3> QED BY <1>3, <3>1, <3>2
  <2>2. CASE c \notin Firsts(tokens, n)
    <3>1. PICK j \in lo .. m : c = [tok |-> b[j].tok, pos |-> b[j].pos]
      BY <1>a, <1>4, <2>2
    <3> DEFINE q == n + (j - lo) + 1
    <3>2. q \in 1 .. k /\ b[j].tok = tokens[q] /\ b[j].pos = q - 1
      BY <1>1, <1>2
    <3> HIDE DEF q
    <3> QED BY <1>3, <3>1, <3>2
  <2> QED BY <2>1, <2>2
<1>5. ASSUME NEW c \in Firsts(tokens, k)
      PROVE  c \in e
  <2>1. PICK q \in 1 .. k : c = [tok |-> tokens[q], pos |-> q - 1]
    BY <1>3
  <2>2. CASE q <= n
    <3>1. q \in 1 .. n
      BY <1>1, <2>2
    <3>2. c \in Firsts(tokens, n)
      BY <1>3, <2>1, <3>1
    <3> QED BY <1>a, <3>2
  <2>3. CASE ~(q <= n)
    <3> DEFINE j == lo + (q - n) - 1
    <3>1. j \in lo .. m /\ n + (j - lo) + 1 = q
      BY <1>1, <2>3, SMTT(60)
    <3> HIDE DEF j
    <3>2. c = [tok |-> b[j].tok, pos |-> b[j].pos]
      BY <1>2, <2>1, <3>1
    <3> QED BY <1>a, <3>1, <3>2
  <2> QED BY <2>2, <2>3
<1> QED BY <1>1, <1>4, <1>5 DEF L

\* e has the cells of d, and those of the tokens of s in b from lo to hi.
Decodes(e, d, b, s, lo, hi) ==
    \A c : c \in e <=> c \in d \/ \E j \in lo .. hi : b[j].slot = s /\ c = [tok |-> b[j].tok, pos |-> b[j].pos]

\* More of the batch is done: the cells are there.
LEMMA FineDecoded ==
    ASSUME NEW s \in Slots, NEW x \in SlotType, NEW d \in SUBSET DataType, NEW bad \in BOOLEAN,
           NEW b \in Seq(TokType), NEW o \in Nat, NEW k \in Nat, o + k <= Len(b), Fine(s, x, d, bad, b, o),
           NEW e \in SUBSET DataType,
           Decodes(e, d, b, s, o + 1, o + k)
    PROVE  Fine(s, x, e, bad, b, o + k)
<1>0. x.tokens \in Seq(Token) /\ Len(x.tokens) \in Nat /\ Len(b) \in Nat /\ o + k \in Nat
  BY SlotParts, LenProperties
<1>1. CASE x.state = "IDLE" /\ x.tokens = <<>>
  BY <1>1 DEF Fine
<1>2. CASE ~(x.state = "IDLE" /\ x.tokens = <<>>)
  <2>1. PICK lo, hi \in Nat : Spans(s, x, b, o, lo, hi) /\ Reaches(x, lo, hi) /\ (~bad => HoldsBut(x, d, lo, hi))
    BY <1>2 DEF Fine
  <2>2. /\ o < lo /\ lo <= hi + 1 /\ hi - lo < Len(x.tokens) /\ (hi >= lo => hi <= Len(b))
        /\ \A j \in o + 1 .. Len(b) : b[j].slot = s <=> lo <= j /\ j <= hi
        /\ \A j \in lo .. hi : LET i == Len(x.tokens) - (hi - j) IN b[j].pos = i - 1 /\ b[j].tok = x.tokens[i]
    BY <2>1 DEF Spans
  <2>3. ASSUME hi < lo
        PROVE  Fine(s, x, e, bad, b, o + k)
    <3>1. \A j \in o + 1 .. Len(b) : b[j].slot # s
      BY <1>0, <2>2, <2>3
    <3>2. Clean(s, b, o) /\ Clean(s, b, o + k)
      BY <1>0, <3>1 DEF Clean
    <3>3. \A j \in o + 1 .. o + k : b[j].slot # s
      BY <1>0, <3>1
    <3>4. e = d
      BY <3>3 DEF Decodes
    <3>5. Backed(x, e, bad)
      BY <1>0, <3>2, <3>4, FineIsBacked
    <3> QED BY <1>0, <3>2, <3>5, FineIsBacked
  <2>4. ASSUME hi >= lo
        PROVE  Fine(s, x, e, bad, b, o + k)
    <3> DEFINE m == IF hi <= o + k THEN hi ELSE IF lo <= o + k THEN o + k ELSE lo - 1
               n == Len(x.tokens) - (hi - lo + 1)
               r == Len(x.tokens) - (hi - m)
    <3>1. m \in Int /\ lo <= m + 1 /\ m <= hi /\ hi <= Len(b)
      BY <1>0, <2>2, <2>4
    <3>2. \A j \in o + 1 .. o + k : b[j].slot = s <=> j \in lo .. m
      <4>1. \A j \in o + 1 .. o + k : b[j].slot = s <=> lo <= j /\ j <= hi
        BY <1>0, <2>2
      <4>2. \A j \in o + 1 .. o + k : lo <= j /\ j <= hi <=> j \in lo .. m
        BY <1>0, <2>2, <2>4
      <4> HIDE DEF m
      <4> QED BY <4>1, <4>2
    <3>3. \A j \in lo .. m : j \in o + 1 .. o + k
      BY <1>0, <2>2, <2>4
    <3> HIDE DEF m
    <3>4. \A c : c \in e <=> c \in d \/ \E j \in lo .. m : c = [tok |-> b[j].tok, pos |-> b[j].pos]
      BY <3>2, <3>3 DEF Decodes
    <3>5. ~bad => d = Firsts(x.tokens, n)
      BY <2>1, <2>4 DEF HoldsBut
    <3>6. n = Len(x.tokens) - (hi - lo + 1) /\ r = Len(x.tokens) - (hi - m)
      OBVIOUS
    <3> HIDE DEF n, r
    <3>7. ~bad => e = Firsts(x.tokens, r) /\ r \in Nat /\ r <= Len(x.tokens)
      <4>1. SUFFICES ASSUME ~bad
                     PROVE  e = Firsts(x.tokens, r) /\ r \in Nat /\ r <= Len(x.tokens)
        OBVIOUS
      <4>2. \A c : c \in e <=> c \in Firsts(x.tokens, n) \/ \E j \in lo .. m : c = [tok |-> b[j].tok, pos |-> b[j].pos]
        BY <3>4, <3>5, <4>1
      <4> DEFINE tokens == x.tokens
      <4>3. tokens \in Seq(Token) /\ hi - lo < Len(tokens) /\ n = Len(tokens) - (hi - lo + 1) /\ r = Len(tokens) - (hi - m)
        BY <1>0, <2>2, <3>6
      <4>p. Placed(tokens, b, lo, hi)
        BY <2>2, Zenon DEF Placed
      <4>4. Adds(e, Firsts(tokens, n), b, lo, m)
        BY <4>2 DEF Adds
      <4> HIDE DEF tokens
      <4>5. e = Firsts(tokens, r) /\ r \in Nat /\ r <= Len(tokens)
        BY <3>1, <4>3, <4>4, <4>p, FirstsMore
      <4> QED BY <4>5 DEF tokens
    <3>8. ~bad => Holds(e, x.tokens, r)
      BY <1>0, <3>7, FirstsHold
    <3>9. CASE hi <= o + k
      <4>1. m = hi
        BY <3>9 DEF m
      <4>2. r = Len(x.tokens)
        BY <1>0, <3>6, <4>1
      <4>3. Backed(x, e, bad)
        BY <3>7, <3>8, <4>2 DEF Backed
      <4>4. Clean(s, b, o + k)
        <5>1. \A j \in o + k + 1 .. Len(b) : b[j].slot # s
          BY <1>0, <2>2, <3>9
        <5> QED BY <5>1 DEF Clean
      <4> QED BY <1>0, <4>3, <4>4, FineIsBacked
    <3>10. CASE ~(hi <= o + k)
      <4> DEFINE lo1 == m + 1
      <4>1. lo1 = (IF lo <= o + k THEN o + k + 1 ELSE lo) /\ lo1 \in Nat /\ o + k < lo1 /\ lo <= lo1 /\ lo1 <= hi
        BY <1>0, <2>2, <2>4, <3>10 DEF m
      <4>2. r = Len(x.tokens) - (hi - lo1 + 1)
        BY <1>0, <3>1, <3>6
      <4> HIDE DEF lo1
      <4>3. ASSUME NEW j \in o + k + 1 .. Len(b)
            PROVE  b[j].slot = s <=> lo1 <= j /\ j <= hi
        <5>1. j \in o + 1 .. Len(b) /\ (lo <= j <=> lo1 <= j)
          BY <1>0, <3>10, <4>1
        <5> QED BY <2>2, <5>1
      <4>4. \A j \in lo1 .. hi : j \in lo .. hi
        BY <4>1
      <4>5. \A j \in lo1 .. hi : LET i == Len(x.tokens) - (hi - j) IN b[j].pos = i - 1 /\ b[j].tok = x.tokens[i]
        BY <2>2, <4>4, Zenon
      <4>6. hi - lo1 < Len(x.tokens) /\ lo1 <= hi + 1 /\ hi >= lo1
        BY <1>0, <2>2, <4>1
      <4>7. Spans(s, x, b, o + k, lo1, hi)
        BY <3>1, <4>1, <4>3, <4>5, <4>6 DEF Spans
      <4>8. Reaches(x, lo1, hi)
        BY <2>1, <2>4 DEF Reaches
      <4>9. ~bad => HoldsBut(x, e, lo1, hi)
        BY <3>7, <3>8, <4>2 DEF HoldsBut
      <4> QED BY <4>1, <4>7, <4>8, <4>9 DEF Fine
    <3> QED BY <3>9, <3>10
  <2> QED BY <2>3, <2>4
<1> QED BY <1>1, <1>2

\* The view.
LEMMA ViewIs ==
    ASSUME CInv, pc = "decode", NEW k, k = Len(View)
    PROVE  /\ View \in Seq(TokType) /\ k \in Nat /\ off + k \in Nat /\ off + k <= Len(batch)
           /\ \A j \in 1 .. k : View[j] = batch[off + j]
<1>1. batch \in Seq(TokType) /\ Len(batch) \in Nat /\ off \in Nat /\ off <= Len(batch) /\ n_batch \in Nat /\ n_batch >= 1
  BY InDecode
<1> DEFINE m == Min({off + n_batch, Len(batch)})
<1>2. m = IF off + n_batch <= Len(batch) THEN off + n_batch ELSE Len(batch)
  <2>1. off + n_batch \in Int /\ Len(batch) \in Int
    BY <1>1
  <2> QED BY <2>1, MinOfTwo
<1> HIDE DEF m
<1>3. m \in Nat /\ off <= m /\ m <= Len(batch) /\ off + 1 \in Nat /\ off + 1 >= 1
  BY <1>1, <1>2
<1>4. View = SubSeq(batch, off + 1, m)
  BY DEF View, m
<1>5. /\ View \in Seq(TokType)
      /\ k = IF off + 1 <= m THEN m - (off + 1) + 1 ELSE 0
      /\ \A j \in 1 .. m - (off + 1) + 1 : View[j] = batch[off + 1 + j - 1]
  BY <1>1, <1>3, <1>4, PartOf, SMTT(30)
<1>6. k = m - off /\ m - (off + 1) + 1 = m - off
  BY <1>1, <1>3, <1>5
<1>7. ASSUME NEW j \in 1 .. k
      PROVE  View[j] = batch[off + j]
  <2>1. j \in 1 .. m - (off + 1) + 1 /\ off + 1 + j - 1 = off + j
    BY <1>1, <1>3, <1>6
  <2> QED BY <1>5, <2>1
<1> QED BY <1>1, <1>3, <1>5, <1>6, <1>7, SMTT(60)

\* The cells of the view.
ViewCells == {[tok |-> t.tok, pos |-> t.pos, seqs |-> {t.slot}] : t \in Range(View)}

\* What the cache has with them.
LEMMA DecodedParts ==
    ASSUME CInv, pc = "decode", NEW k, k = Len(View)
    PROVE  /\ Decoded \in Work /\ Decoded.slot = slot /\ Decoded.saved = saved /\ Decoded.spoiled = spoiled
           /\ Decoded.cells = cells \cup ViewCells
           /\ \A c : c \in ViewCells <=>
                 \E j \in off + 1 .. off + k : c = [tok |-> batch[j].tok, pos |-> batch[j].pos, seqs |-> {batch[j].slot}]
<1>1. IInv /\ Now \in Work /\ off \in Nat
  BY InDecode DEF CInv
<1>2. Decoded \in Work /\ Decoded.slot = slot
  BY <1>1, DecodedIs
<1>3. Decoded.saved = saved /\ Decoded.spoiled = spoiled /\ Decoded.cells = cells \cup ViewCells
  BY DEF Decoded, Now, ViewCells
<1>4. /\ View \in Seq(TokType) /\ k \in Nat
      /\ \A j \in 1 .. k : View[j] = batch[off + j]
  BY ViewIs
<1>5. DOMAIN View = 1 .. k
  BY <1>4
<1>6. ASSUME NEW c \in ViewCells
      PROVE  \E j \in off + 1 .. off + k : c = [tok |-> batch[j].tok, pos |-> batch[j].pos, seqs |-> {batch[j].slot}]
  <2>1. PICK i \in 1 .. k : c = [tok |-> View[i].tok, pos |-> View[i].pos, seqs |-> {View[i].slot}]
    BY <1>5 DEF ViewCells, Range
  <2>2. off + i \in off + 1 .. off + k /\ View[i] = batch[off + i]
    BY <1>1, <1>4
  <2> QED BY <2>1, <2>2
<1>7. ASSUME NEW j \in off + 1 .. off + k
      PROVE  [tok |-> batch[j].tok, pos |-> batch[j].pos, seqs |-> {batch[j].slot}] \in ViewCells
  <2> DEFINE i == j - off
  <2>1. i \in 1 .. k /\ off + i = j
    BY <1>1, <1>4
  <2> HIDE DEF i
  <2>2. View[i] = batch[j] /\ View[i] \in Range(View)
    BY <1>4, <1>5, <2>1 DEF Range
  <2> QED BY <2>2 DEF ViewCells
<1> QED BY <1>2, <1>3, <1>6, <1>7

\* What the cache has of a slot with them.
LEMMA DecodedData ==
    ASSUME CInv, pc = "decode", NEW k, k = Len(View), NEW s \in Slots
    PROVE  Decodes(Data(Decoded.cells, s), Data(cells, s), batch, s, off + 1, off + k)
<1>1. /\ Decoded \in Work /\ Decoded.cells = cells \cup ViewCells
      /\ \A c : c \in ViewCells <=>
            \E j \in off + 1 .. off + k : c = [tok |-> batch[j].tok, pos |-> batch[j].pos, seqs |-> {batch[j].slot}]
  BY DecodedParts
<1>2. cells \in SUBSET CellType /\ Decoded.cells \in SUBSET CellType
  <2>1. Now \in Work /\ Now.cells = cells
    BY InDecode
  <2> QED BY <1>1, <2>1, WorkParts
<1> DEFINE all == Decoded.cells
<1>3. \A c : c \in all <=> c \in cells \/ c \in ViewCells
  BY <1>1
<1> HIDE DEF all
<1>4. ASSUME NEW d
      PROVE  d \in Data(all, s) <=> d \in Data(cells, s) \/ \E c \in ViewCells : s \in c.seqs /\ d = [tok |-> c.tok, pos |-> c.pos]
  <2>1. /\ d \in Data(all, s) <=> \E c \in all : s \in c.seqs /\ d = [tok |-> c.tok, pos |-> c.pos]
        /\ d \in Data(cells, s) <=> \E c \in cells : s \in c.seqs /\ d = [tok |-> c.tok, pos |-> c.pos]
    BY <1>2, DataHas DEF all
  <2> QED BY <1>3, <2>1
<1>5. ASSUME NEW d
      PROVE  (\E c \in ViewCells : s \in c.seqs /\ d = [tok |-> c.tok, pos |-> c.pos])
                <=> \E j \in off + 1 .. off + k : batch[j].slot = s /\ d = [tok |-> batch[j].tok, pos |-> batch[j].pos]
  <2>1. ASSUME NEW c \in ViewCells, s \in c.seqs, d = [tok |-> c.tok, pos |-> c.pos]
        PROVE  \E j \in off + 1 .. off + k : batch[j].slot = s /\ d = [tok |-> batch[j].tok, pos |-> batch[j].pos]
    <3>1. PICK j \in off + 1 .. off + k : c = [tok |-> batch[j].tok, pos |-> batch[j].pos, seqs |-> {batch[j].slot}]
      BY <1>1
    <3> QED BY <2>1, <3>1
  <2>2. ASSUME NEW j \in off + 1 .. off + k, batch[j].slot = s, d = [tok |-> batch[j].tok, pos |-> batch[j].pos]
        PROVE  \E c \in ViewCells : s \in c.seqs /\ d = [tok |-> c.tok, pos |-> c.pos]
    <3> DEFINE c == [tok |-> batch[j].tok, pos |-> batch[j].pos, seqs |-> {batch[j].slot}]
    <3>1. c \in ViewCells
      BY <1>1
    <3>2. s \in c.seqs /\ d = [tok |-> c.tok, pos |-> c.pos]
      BY <2>2
    <3> QED BY <3>1, <3>2
  <2> QED BY <2>1, <2>2
<1> QED BY <1>4, <1>5 DEF Decodes, all

\* The view is decoded.
LEMMA ContentDecoded ==
    ASSUME CInv, pc = "decode", Fits, NEW k, k = Len(View)
    PROVE  Content(Decoded, batch, off + k)
<1>1. /\ Decoded \in Work /\ Decoded.slot = slot /\ Decoded.saved = saved /\ Decoded.spoiled = spoiled
      /\ Decoded.cells = cells \cup ViewCells
      /\ \A c : c \in ViewCells <=>
            \E j \in off + 1 .. off + k : c = [tok |-> batch[j].tok, pos |-> batch[j].pos, seqs |-> {batch[j].slot}]
  BY DecodedParts
<1>2. /\ batch \in Seq(TokType) /\ Len(batch) \in Nat /\ off \in Nat /\ Content(Now, batch, off) /\ Now \in Work
      /\ Now.slot = slot /\ Now.cells = cells /\ Now.saved = saved /\ Now.spoiled = spoiled
      /\ \A j \in 1 .. Len(batch) : batch[j].pos < NCtx
  BY InDecode
<1>3. k \in Nat /\ off + k <= Len(batch) /\ off + k \in Nat
  BY ViewIs
<1>4. Sound(cells) /\ (\A i \in DOMAIN saved : Whole(saved[i]))
      /\ \A s \in Slots : Apt(slot[s]) /\ Fine(s, slot[s], Data(cells, s), s \in spoiled, batch, off)
  BY <1>2 DEF Content
<1>5. \A j \in off + 1 .. off + k : j \in 1 .. Len(batch)
  BY <1>2, <1>3
<1>6. Sound(cells \cup ViewCells)
  <2> DEFINE V == {[tok |-> batch[j].tok, pos |-> batch[j].pos, seqs |-> {batch[j].slot}] : j \in off + 1 .. off + k}
             f == [j \in off + 1 .. off + k |-> [tok |-> batch[j].tok, pos |-> batch[j].pos, seqs |-> {batch[j].slot}]]
             S == off + 1 .. off + k
  <2>1. f \in [S -> V] /\ \A c \in ViewCells : \E j \in S : c = f[j]
    BY <1>1
  <2>2. IsFiniteSet(S) /\ Cardinality(S) = k
    <3>1. ASSUME NEW a \in Int, NEW c \in Int, c = a - 1 + k
          PROVE  IsFiniteSet(a .. c) /\ Cardinality(a .. c) = k
      <4>1. IsFiniteSet(a .. c) /\ Cardinality(a .. c) = IF a > c THEN 0 ELSE c - a + 1
        BY FS_Interval
      <4> QED BY <1>3, <3>1, <4>1
    <3>2. off + 1 \in Int /\ off + k \in Int /\ off + k = ((off + 1) - 1) + k
      BY <1>2, <1>3
    <3>3. IsFiniteSet(off + 1 .. off + k) /\ Cardinality(off + 1 .. off + k) = k
      BY ONLY <3>1, <3>2, Zenon
    <3> QED BY <3>3
  <2> HIDE DEF f, V, S
  <2>3. IsFiniteSet(ViewCells) /\ Cardinality(ViewCells) \in Nat /\ Cardinality(ViewCells) <= k
    BY <2>1, <2>2, NoMore
  <2>4. IsFiniteSet(cells) /\ Cardinality(cells) \in Nat /\ NumCells \in Nat
    BY <1>4, FS_CardinalityType, SizesAssumption DEF Sound
  <2>5. IsFiniteSet(cells \cup ViewCells)
        /\ Cardinality(cells \cup ViewCells) = Cardinality(cells) + Cardinality(ViewCells) - Cardinality(cells \cap ViewCells)
    BY <2>3, <2>4, FS_Union
  <2>6. Cardinality(cells \cap ViewCells) \in Nat
    <3>1. IsFiniteSet(cells \cap ViewCells)
      BY <2>4, FS_Intersection
    <3> QED BY <3>1, FS_CardinalityType
  <2>7. Cardinality(cells) + k <= NumCells
    BY DEF Fits
  <2>8. Cardinality(cells \cup ViewCells) <= NumCells
    BY <1>3, <2>3, <2>4, <2>5, <2>6, <2>7
  <2>9. ASSUME NEW c \in ViewCells
        PROVE  c.pos < NCtx /\ c.seqs # {}
    <3>1. PICK j \in off + 1 .. off + k : c = [tok |-> batch[j].tok, pos |-> batch[j].pos, seqs |-> {batch[j].slot}]
      BY <1>1
    <3>2. c.pos = batch[j].pos /\ c.seqs = {batch[j].slot}
      BY <3>1
    <3>3. batch[j].pos < NCtx
      BY <1>2, <1>5
    <3> QED BY <3>2, <3>3
  <2> QED BY <1>4, <2>5, <2>8, <2>9 DEF Sound
<1>7. ASSUME NEW s \in Slots
      PROVE  Fine(s, slot[s], Data(Decoded.cells, s), s \in spoiled, batch, off + k)
  <2>1. Decodes(Data(Decoded.cells, s), Data(cells, s), batch, s, off + 1, off + k)
    BY DecodedData
  <2>2. slot[s] \in SlotType /\ cells \in SUBSET CellType /\ Decoded.cells \in SUBSET CellType
    BY <1>1, <1>2, WorkParts
  <2>3. Data(cells, s) \in SUBSET DataType
    BY <2>2, CellsType
  <2>4. Data(Decoded.cells, s) \in SUBSET DataType
    BY <2>2, CellsType
  <2>5. (s \in spoiled) \in BOOLEAN /\ Fine(s, slot[s], Data(cells, s), s \in spoiled, batch, off)
    BY <1>4
  <2> QED BY <1>2, <1>3, <2>1, <2>2, <2>3, <2>4, <2>5, FineDecoded
<1> QED BY <1>1, <1>4, <1>6, <1>7 DEF Content

\* The draft model fails.
LEMMA DecodeAbortedCells ==
    ASSUME CInv, DecodeAborted
    PROVE  Counts' /\ Visited' /\ Content(Now', batch', Done')
<1> DEFINE S == {s \in Slots : Processing(s)}
           v == ReleaseAll(Decoded, S)
           k == Len(View)
<1>1. pc = "decode" /\ Fits /\ GivenUp(v, off + k)
  BY DEF DecodeAborted
<1>2. Decoded.slot = slot /\ off + k \in Nat
  <2>1. k = Len(View)
    OBVIOUS
  <2> HIDE DEF k
  <2> QED BY <1>1, <2>1, DecodedParts, ViewIs
<1>3. Content(Decoded, batch, off + k)
  BY <1>1, ContentDecoded
<1>4. S \in SUBSET Slots
  OBVIOUS
<1> HIDE DEF k
<1>5. Content(v, batch, off + k) /\ Released(Decoded, v, S)
  BY <1>3, <1>4, ContentReleaseAll
<1>6. \A s \in Slots : v.slot[s].state = "IDLE"
  BY <1>2, <1>5, AllReleased
<1> HIDE DEF v
<1> QED BY <1>1, <1>2, <1>5, <1>6, GivenUpCells

\* v is w when copy_state_to has copied the state of p to c.
CopyOf(w, p, c, v) ==
    /\ v \in Work /\ v.saved = w.saved /\ (\A y \in Slots \ {c} : v.slot[y] = w.slot[y])
    /\ v.slot[c].state = "DONE_PROMPT" /\ v.slot[c].tokens = w.slot[p].tokens
    /\ v.spoiled = (IF p \in w.spoiled \cup Rest(off + Len(View)) THEN w.spoiled \cup {c} ELSE w.spoiled \ {c})
    /\ v.cells = SeqCp(SeqRm(w.cells, c, 0, -1), p, c)

\* The parts of what copy_state_to copies.
LEMMA CopyParts ==
    ASSUME NEW w \in Work, NEW p \in Slots, NEW c \in Slots, p # c, NEW v, v = CopyState(w, p, c)
    PROVE  CopyOf(w, p, c, v)
<1> DEFINE cl == SeqCp(SeqRm(w.cells, c, 0, -1), p, c)
           sp == IF p \in w.spoiled \cup Rest(off + Len(View)) THEN w.spoiled \cup {c} ELSE w.spoiled \ {c}
           tk == w.slot[p].tokens
           ib == w.slot[p].i_batch
           x  == [w.slot[c] EXCEPT !.tokens = tk, !.i_batch = ib, !.state = "DONE_PROMPT"]
           u  == [w EXCEPT !.slot[c] = x]
<1>1. /\ w.slot[p] \in SlotType /\ w.slot[c] \in SlotType /\ w.slot \in [Slots -> SlotType]
      /\ w.cells \in SUBSET CellType /\ w.spoiled \in SUBSET Slots
  BY WorkParts
<1>2. x \in SlotType /\ x.state = "DONE_PROMPT" /\ x.tokens = tk
  BY <1>1 DEF SlotType, States
<1>3. cl \in SUBSET CellType /\ sp \in SUBSET Slots
  <2>1. SeqRm(w.cells, c, 0, -1) \in SUBSET CellType
    BY <1>1, CellsType
  <2>2. cl \in SUBSET CellType
    BY <2>1, CellsType
  <2> QED BY <1>1, <2>2
<1>4. v = [u EXCEPT !.cells = cl, !.spoiled = sp]
  <2>1. v = [w EXCEPT !.slot[c].tokens = tk, !.slot[c].i_batch = ib,
                      !.slot[c].state = "DONE_PROMPT", !.cells = cl, !.spoiled = sp]
    BY DEF CopyState
  <2> HIDE DEF cl, sp, tk, ib
  <2>2. [w EXCEPT !.slot[c].tokens = tk, !.slot[c].i_batch = ib, !.slot[c].state = "DONE_PROMPT"] = u
    BY <1>1 DEF Work, SlotType
  <2>3. v = [[w EXCEPT !.slot[c].tokens = tk, !.slot[c].i_batch = ib, !.slot[c].state = "DONE_PROMPT"]
                EXCEPT !.cells = cl, !.spoiled = sp]
    BY <2>1
  <2> HIDE DEF x, u
  <2> QED BY <2>2, <2>3
<1> HIDE DEF x, cl, sp, tk
<1>5. u \in Work /\ u.saved = w.saved /\ u.slot[c] = x /\ \A y \in Slots \ {c} : u.slot[y] = w.slot[y]
  BY <1>1, <1>2 DEF Work
<1> HIDE DEF u
<1>6. v \in Work /\ v.slot = u.slot /\ v.saved = u.saved /\ v.cells = cl /\ v.spoiled = sp
  BY <1>3, <1>4, <1>5 DEF Work
<1> QED BY <1>2, <1>5, <1>6 DEF cl, sp, tk, CopyOf

\* What the child has in the cache, and the others.
LEMMA CopyData ==
    ASSUME NEW all \in SUBSET CellType, NEW p \in Slots, NEW c \in Slots, p # c,
           NEW new, new = SeqCp(SeqRm(all, c, 0, -1), p, c)
    PROVE  /\ Data(new, c) = Data(all, p) /\ (Sound(all) => Sound(new))
           /\ \A t \in Slots \ {c} : Data(new, t) = Data(all, t)
<1> DEFINE mid == SeqRm(all, c, 0, -1)
<1>1. mid \in SUBSET CellType /\ (Sound(all) => Sound(mid))
      /\ \A d : d \in Data(mid, c) <=> d \in Data(all, c) /\ ~In(d, 0, -1)
  BY RmOwn
<1>2. \A t \in Slots \ {c} : Data(mid, t) = Data(all, t)
  BY RmOthers
<1>3. new = SeqCp(mid, p, c)
  OBVIOUS
<1> HIDE DEF mid
<1>4. Data(mid, c) = {}
  <2>1. Data(all, c) \in SUBSET DataType
    BY CellsType
  <2>2. \A d \in Data(all, c) : In(d, 0, -1)
    BY <2>1 DEF DataType, In
  <2> QED BY <1>1, <2>2
<1>5. Data(new, c) = Data(mid, p) \cup Data(mid, c) /\ \A t \in Slots \ {c} : Data(new, t) = Data(mid, t)
  BY <1>1, <1>3, DataSeqCp
<1>6. Sound(all) => Sound(new)
  BY <1>1, <1>3, SoundCells
<1> QED BY <1>2, <1>4, <1>5, <1>6

\* What holds after every copy.
Copies(o) == {w \in Copied : Content(w, batch, o)}

\* A copy more: a child that waits has nothing in the batch, and its parent may have decoded all it has.
LEMMA CopiesMore ==
    ASSUME CInv, pc = "decode", NEW o, o = off + Len(View), NEW f \in Families(Decoded), NEW w \in Copies(o)
    PROVE  CopyState(w, f[1], f[2]) \in Copies(o)
<1> DEFINE p == f[1]
           c == f[2]
           v == CopyState(w, p, c)
<1>1. IInv /\ w \in Copied /\ Content(w, batch, o) /\ w \in Work
  BY DEF CInv, Copies, Content
<1>2. v \in Copied
  BY <1>1, CopyStateIs
<1>3. /\ p \in Slots /\ c \in Slots /\ slot[p].state = "DONE_PROMPT" /\ slot[c].state = "WAIT_OTHER"
  BY <1>1, DecodedIs DEF Families
<1>4. v = CopyState(w, p, c)
  OBVIOUS
<1> HIDE DEF p, c, v
<1>5. w.slot[p] = slot[p]
  BY <1>1, <1>3 DEF Copied
<1>6. p # c
  BY <1>3
<1>7. /\ v \in Work /\ v.saved = w.saved /\ (\A y \in Slots \ {c} : v.slot[y] = w.slot[y])
      /\ v.slot[c].state = "DONE_PROMPT" /\ v.slot[c].tokens = w.slot[p].tokens
      /\ v.spoiled = (IF p \in w.spoiled \cup Rest(off + Len(View)) THEN w.spoiled \cup {c} ELSE w.spoiled \ {c})
      /\ v.cells = SeqCp(SeqRm(w.cells, c, 0, -1), p, c)
  <2>1. CopyOf(w, p, c, v)
    BY <1>1, <1>3, <1>4, <1>6, CopyParts
  <2> QED BY <2>1 DEF CopyOf
<1>8. w.cells \in SUBSET CellType /\ v.cells \in SUBSET CellType /\ v.slot[c] \in SlotType /\ w.slot[p] \in SlotType
  BY <1>1, <1>3, <1>7, WorkParts
<1>9. /\ Data(v.cells, c) = Data(w.cells, p) /\ (Sound(w.cells) => Sound(v.cells))
      /\ \A t \in Slots \ {c} : Data(v.cells, t) = Data(w.cells, t)
  BY <1>3, <1>6, <1>7, <1>8, CopyData
<1>10. Leaves(w, v, {c})
  BY <1>7, <1>9 DEF Leaves
<1>11. /\ Sound(w.cells) /\ (\A i \in DOMAIN w.saved : Whole(w.saved[i])) /\ Apt(w.slot[p])
       /\ Fine(p, w.slot[p], Data(w.cells, p), p \in w.spoiled, batch, o)
  BY <1>1, <1>3 DEF Content
<1>12. Apt(v.slot[c])
  BY <1>7, <1>11 DEF Apt
<1>13. batch \in Seq(TokType) /\ Len(batch) \in Nat /\ off \in Nat /\ o \in Nat /\ off <= o
  <2>1. \A k : k = Len(View) => k \in Nat
    BY ViewIs
  <2> QED BY <2>1, InDecode
<1>14. Clean(c, batch, o)
  <2>1. Fine(c, slot[c], Data(cells, c), c \in spoiled, batch, off)
    BY <1>3, InDecode DEF Content
  <2>2. PICK lo, hi \in Nat : Spans(c, slot[c], batch, off, lo, hi) /\ Reaches(slot[c], lo, hi)
    BY <1>3, <2>1 DEF Fine
  <2>3. ~(hi >= lo)
    BY <1>3, <2>2 DEF Reaches
  <2>4. \A j \in off + 1 .. Len(batch) : batch[j].slot = c <=> lo <= j /\ j <= hi
    BY <2>2 DEF Spans
  <2>5. ASSUME NEW j \in o + 1 .. Len(batch)
        PROVE  batch[j].slot # c
    <3>1. j \in off + 1 .. Len(batch) /\ ~(lo <= j /\ j <= hi)
      BY <1>13, <2>3
    <3> QED BY <2>4, <3>1
  <2> QED BY <2>5 DEF Clean
<1>15. Backed(v.slot[c], Data(v.cells, c), c \in v.spoiled)
  <2>1. SUFFICES ASSUME c \notin v.spoiled
                 PROVE  Backed(v.slot[c], Data(v.cells, c), FALSE)
    BY DEF Backed
  <2>2. p \notin w.spoiled /\ p \notin Rest(o)
    BY <1>7, <2>1
  <2>3. Clean(p, batch, o)
    BY <2>2 DEF Clean, Rest
  <2>4. Data(w.cells, p) \in SUBSET DataType
    BY <1>3, <1>8, CellsType
  <2>7. (p \in w.spoiled) \in BOOLEAN
    OBVIOUS
  <2>5. Backed(w.slot[p], Data(w.cells, p), p \in w.spoiled)
    BY <1>3, <1>8, <1>11, <1>13, <2>3, <2>4, <2>7, FineIsBacked
  <2>6. Strict(w.slot[p])
    BY <1>3, <1>5 DEF Strict
  <2> QED BY <1>7, <1>9, <2>2, <2>5, <2>6 DEF Backed
<1>16. Fine(c, v.slot[c], Data(v.cells, c), c \in v.spoiled, batch, o)
  <2>1. Data(v.cells, c) \in SUBSET DataType
    BY <1>3, <1>8, CellsType
  <2>2. (c \in v.spoiled) \in BOOLEAN
    OBVIOUS
  <2> QED BY <1>3, <1>8, <1>13, <1>14, <1>15, <2>1, <2>2, FineIsBacked
<1>17. Content(v, batch, o)
  <2>1. /\ Sound(v.cells) /\ (\A i \in DOMAIN v.saved : Whole(v.saved[i]))
        /\ \A s \in {c} : Apt(v.slot[s]) /\ Fine(s, v.slot[s], Data(v.cells, s), s \in v.spoiled, batch, o)
    BY <1>7, <1>9, <1>11, <1>12, <1>16
  <2> QED BY <1>1, <1>7, <1>10, <2>1, ContentBy
<1> QED BY <1>2, <1>17 DEF Copies, p, c, v

\* The view is decoded, and the children get what their parents have.
LEMMA DecodeOkCells ==
    ASSUME CInv, DecodeOk
    PROVE  Counts' /\ Visited' /\ Content(Now', batch', Done')
<1> DEFINE w == FoldSet(LAMBDA f, v : CopyState(v, f[1], f[2]), Decoded, Families(Decoded))
           o == off + Len(View)
<1>1. /\ pc = "decode" /\ Fits /\ pc' = "post" /\ view' = Len(View) /\ n_batch' = NBatch /\ batch' = batch
      /\ off' = off /\ Becomes(w)
  BY DEF DecodeOk
<1>2. IInv
  BY DEF CInv
<1>3. Content(Decoded, batch, o) /\ Len(View) \in Nat /\ o <= Len(batch)
  <2>1. \A k : k = Len(View) => Content(Decoded, batch, off + k) /\ k \in Nat /\ off + k <= Len(batch)
    BY <1>1, ContentDecoded, ViewIs
  <2> QED BY <2>1
<1>4. o = off + Len(View)
  OBVIOUS
<1> HIDE DEF o
<1>5. Decoded \in Copies(o)
  <2>1. Decoded \in Work /\ Decoded.slot = slot
    BY <1>2, DecodedIs
  <2>2. \A s \in Slots : Coherent(slot[s])
    BY <1>2 DEF IInv
  <2> QED BY <1>3, <2>1, <2>2 DEF Copies, Copied
<1>6. Families(Decoded) \subseteq Slots \X Slots
  BY DEF Families
<1>7. \A f \in Families(Decoded), v \in Copies(o) : CopyState(v, f[1], f[2]) \in Copies(o)
  BY <1>1, <1>4, CopiesMore
<1>8. w \in Copies(o)
  BY <1>5, <1>6, <1>7, CopiedRule
<1> HIDE DEF w
<1>9. Content(w, batch, o) /\ w \in Work
  BY <1>8 DEF Copies, Content
<1>10. Now' = w
  BY <1>1, <1>9, NowIs
<1>11. Counts'
  <2>1. NBatch \in Nat /\ NBatch >= 1
    BY SizesAssumption
  <2>2. \A j \in DOMAIN batch : batch[j].pos < NCtx
    BY DEF CInv, Counts
  <2> QED BY <1>1, <1>3, <1>4, <2>1, <2>2 DEF Counts
<1>12. Visited'
  <2>1. \A j \in DOMAIN batch : pc # "tasks"
    BY <1>1
  <2> QED BY <1>1 DEF Visited
<1>13. Done' = o
  BY <1>1, <1>4 DEF Done
<1> QED BY <1>1, <1>9, <1>10, <1>11, <1>12, <1>13

-----------------------------------------------------------------------------
(* post_decode.                                                            *)

\* When what was decoded is looked at.
LEMMA InPost ==
    ASSUME CInv, pc = "post"
    PROVE  /\ batch \in Seq(TokType) /\ Len(batch) \in Nat /\ off \in Nat /\ view \in Nat /\ off + view \in Nat
           /\ off + view <= Len(batch) /\ Content(Now, batch, off + view) /\ turn \in Slots
           /\ Now \in Work /\ Now.slot = slot /\ Now.cells = cells /\ Now.saved = saved /\ Now.spoiled = spoiled
           /\ n_batch \in Nat /\ n_batch >= 1 /\ n_batch <= NBatch /\ \A j \in 1 .. Len(batch) : batch[j].pos < NCtx
<1>1. IInv /\ Counts /\ Content(Now, batch, Done)
  BY DEF CInv
<1>2. Now \in Work /\ Now.slot = slot /\ Now.cells = cells /\ Now.spoiled = spoiled /\ Now.saved = saved
  BY <1>1, CalmNow DEF Now
<1>3. /\ batch \in Seq(TokType) /\ off \in Nat /\ view \in Nat /\ n_batch \in Nat /\ DOMAIN batch = 1 .. Len(batch)
      /\ Len(batch) \in Nat /\ turn \in Slots
  BY <1>1 DEF IInv, Typed
<1>4. off + view \in Nat /\ Done = off + view
  BY <1>3 DEF Done
<1> QED BY <1>1, <1>2, <1>3, <1>4 DEF Counts

\* When all of the batch is done it is emptied.
LEMMA ContentEnds ==
    ASSUME NEW b \in Seq(TokType), NEW o \in Nat, o >= Len(b), NEW w, Content(w, b, o)
    PROVE  Content(w, <<>>, 0)
<1>1. /\ w \in Work /\ Sound(w.cells) /\ (\A i \in DOMAIN w.saved : Whole(w.saved[i]))
      /\ \A s \in Slots : Apt(w.slot[s]) /\ Fine(s, w.slot[s], Data(w.cells, s), s \in w.spoiled, b, o)
  BY DEF Content
<1>2. ASSUME NEW s \in Slots
      PROVE  Fine(s, w.slot[s], Data(w.cells, s), s \in w.spoiled, <<>>, 0)
  <2>1. w.cells \in SUBSET CellType /\ w.slot[s] \in SlotType
    BY <1>1, WorkParts
  <2>2. Data(w.cells, s) \in SUBSET DataType
    BY <2>1, CellsType
  <2>3. Clean(s, b, o)
    <3>1. Len(b) \in Nat
      OBVIOUS
    <3> QED BY <3>1 DEF Clean
  <2>4. (s \in w.spoiled) \in BOOLEAN
    OBVIOUS
  <2>5. Backed(w.slot[s], Data(w.cells, s), s \in w.spoiled)
    BY <1>1, <2>1, <2>2, <2>3, <2>4, FineIsBacked
  <2> QED BY <1>1, <2>5, RestIs
<1> QED BY <1>1, <1>2 DEF Content

\* iterate() goes on to the next slot, or to the next view.
LEMMA PostCells ==
    ASSUME CInv, pc = "post", NEW w, Content(w, batch, off + view), Becomes(w), Next_View, n_batch' = n_batch
    PROVE  Counts' /\ Visited' /\ Content(Now', batch', Done')
<1>1. /\ batch \in Seq(TokType) /\ Len(batch) \in Nat /\ off \in Nat /\ view \in Nat /\ off + view \in Nat
      /\ off + view <= Len(batch) /\ n_batch >= 1 /\ n_batch <= NBatch /\ \A j \in 1 .. Len(batch) : batch[j].pos < NCtx
  BY InPost
<1>2. Now' = w
  BY NowIs DEF Content
<1>3. \A j \in DOMAIN batch : batch[j].pos < NCtx
  BY <1>1
<1>4. CASE turn < NumSlots - 1
  <2>1. pc' = "post" /\ batch' = batch /\ off' = off /\ view' = view
    BY <1>4 DEF Next_View
  <2>2. Done' = off + view
    BY <2>1 DEF Done
  <2>3. Counts'
    BY <1>1, <1>3, <2>1 DEF Counts
  <2>4. Visited'
    BY <2>1 DEF Visited
  <2> QED BY <1>2, <2>1, <2>2, <2>3, <2>4
<1>5. CASE ~(turn < NumSlots - 1) /\ off + view < Len(batch)
  <2>1. pc' = "decode" /\ batch' = batch /\ off' = off + view /\ view' = 0
    BY <1>5 DEF Next_View
  <2>2. Done' = off + view
    BY <2>1 DEF Done
  <2>3. Counts'
    BY <1>1, <1>3, <2>1 DEF Counts
  <2>4. Visited'
    BY <2>1 DEF Visited
  <2> QED BY <1>2, <2>1, <2>2, <2>3, <2>4
<1>6. CASE ~(turn < NumSlots - 1) /\ ~(off + view < Len(batch))
  <2>1. pc' = "tasks" /\ batch' = <<>> /\ off' = 0 /\ view' = 0
    BY <1>6 DEF Next_View
  <2>2. Done' = 0
    BY <2>1 DEF Done
  <2>3. Counts'
    BY <1>1, <2>1 DEF Counts
  <2>4. Visited'
    BY <2>1 DEF Visited
  <2>5. Content(w, <<>>, 0)
    <3> DEFINE o == off + view
    <3>1. o \in Nat /\ o >= Len(batch) /\ Content(w, batch, o)
      BY <1>1, <1>6
    <3> HIDE DEF o
    <3> QED BY <1>1, <3>1, ContentEnds
  <2> QED BY <1>2, <2>1, <2>2, <2>3, <2>4, <2>5
<1> QED BY <1>4, <1>5, <1>6

\* The slot at its turn has nothing in the view.
LEMMA PostSkipCells ==
    ASSUME CInv, PostSkip
    PROVE  Counts' /\ Visited' /\ Content(Now', batch', Done')
<1>1. pc = "post" /\ Next_View /\ Becomes(Now) /\ n_batch' = n_batch
  BY DEF PostSkip, Becomes, Now
<1> QED BY <1>1, InPost, PostCells

\* What the slot at its turn sampled cannot be handled.
LEMMA PostThrowsCells ==
    ASSUME CInv, PostThrows
    PROVE  Counts' /\ Visited' /\ Content(Now', batch', Done')
<1>1. pc = "post" /\ Becomes(Release(Now, turn)) /\ Next_View /\ n_batch' = n_batch
  BY DEF PostThrows
<1>2. Content(Now, batch, off + view) /\ turn \in Slots
  BY <1>1, InPost
<1>3. Content(Release(Now, turn), batch, off + view)
  BY <1>2, ContentRelease
<1> QED BY <1>1, <1>3, PostCells

\* A slot whose tokens in the batch are done up to the one it samples next has nothing ahead, and the cache has its
\* tokens and nothing else.
LEMMA NothingAhead ==
    ASSUME NEW s \in Slots, NEW x \in SlotType, x.state \in {"DONE_PROMPT", "GENERATING"}, NEW d \in SUBSET DataType,
           NEW bad \in BOOLEAN, NEW b \in Seq(TokType), NEW o \in Nat, Fine(s, x, d, bad, b, o),
           x.i_batch + Len(x.draft) <= o
    PROVE  Clean(s, b, o) /\ (~bad => d = Firsts(x.tokens, Len(x.tokens)))
<1>1. x.i_batch \in Nat /\ Len(x.draft) \in Nat /\ Len(b) \in Nat
  <2>1. x.i_batch \in Nat /\ x.draft \in Seq(Sampled)
    BY SlotParts
  <2> QED BY <2>1
<1>2. PICK lo, hi \in Nat : Spans(s, x, b, o, lo, hi) /\ Reaches(x, lo, hi)
  BY DEF Fine
<1>3. ~(hi >= lo)
  <2>1. o < lo
    BY <1>2 DEF Spans
  <2>2. hi >= lo => hi = x.i_batch + Len(x.draft)
    BY <1>2 DEF Reaches
  <2> QED BY <1>1, <2>1, <2>2
<1>4. \A j \in o + 1 .. Len(b) : b[j].slot = s <=> lo <= j /\ j <= hi
  BY <1>2 DEF Spans
<1>5. ASSUME NEW j \in o + 1 .. Len(b)
      PROVE  b[j].slot # s
  <2>1. ~(lo <= j /\ j <= hi)
    BY <1>1, <1>3
  <2> QED BY <1>4, <2>1
<1>6. Clean(s, b, o)
  BY <1>5 DEF Clean
<1>7. Backed(x, d, bad)
  BY <1>6, FineIsBacked
<1> QED BY <1>6, <1>7 DEF Backed, Strict

\* An operation on the slot s that leaves it with its tokens in the cache and nothing else.
Exactly(w, v, s) ==
    /\ v \in Work /\ Leaves(w, v, {s}) /\ Sound(v.cells) /\ v.saved = w.saved /\ Len(v.slot[s].tokens) < NCtx
    /\ s \notin v.spoiled => Data(v.cells, s) = Firsts(v.slot[s].tokens, Len(v.slot[s].tokens))

\* What a slot with nothing ahead generates: it goes on, or it is released.
LEMMA ContentGenerated ==
    ASSUME NEW w, NEW b \in Seq(TokType), NEW o \in Nat, Content(w, b, o), NEW s \in Slots, Clean(s, b, o),
           NEW u \in Work, Exactly(w, u, s),
           NEW new \in Seq(Sampled), NEW v \in Generated(u, s, new)
    PROVE  Content(v, b, o)
<1> DEFINE out  == u.slot[s].out \o new
           z    == [u.slot[s] EXCEPT !.out = out, !.state = "GENERATING", !.draft = <<>>, !.i_batch = 0]
           more == [u EXCEPT !.slot[s].out = out, !.slot[s].state = "GENERATING",
                             !.slot[s].draft = <<>>, !.slot[s].i_batch = 0]
<1>0. w \in Work /\ (\A i \in DOMAIN w.saved : Whole(w.saved[i]))
  BY DEF Content
<1>e. /\ Leaves(w, u, {s}) /\ Sound(u.cells) /\ u.saved = w.saved /\ Len(u.slot[s].tokens) < NCtx
      /\ s \notin u.spoiled => Data(u.cells, s) = Firsts(u.slot[s].tokens, Len(u.slot[s].tokens))
  BY DEF Exactly
<1>1. u.slot[s] \in SlotType /\ out \in Seq(Sampled) /\ u.slot[s].tokens \in Seq(Token)
  <2>1. u.slot[s] \in SlotType
    BY WorkParts
  <2>2. u.slot[s].out \in Seq(Sampled) /\ u.slot[s].tokens \in Seq(Token)
    BY <2>1, SlotParts
  <2> QED BY <2>1, <2>2
<1>2. v \in {Release(more, s), more}
  BY DEF Generated
<1> HIDE DEF out
<1>3. z \in SlotType
  <2>1. <<>> \in Seq(Sampled) /\ 0 \in Nat /\ "GENERATING" \in States
    BY DEF States
  <2> QED BY <1>1, <2>1 DEF SlotType
<1>4. more = [u EXCEPT !.slot[s] = z]
  BY <1>1, ZenonT(40) DEF Work, SlotType
<1>5. z.state = "GENERATING" /\ z.draft = <<>> /\ z.tokens = u.slot[s].tokens
  BY <1>1 DEF SlotType
<1> HIDE DEF z, more
<1>6. /\ more \in Work /\ more.slot[s] = z /\ (\A y \in Slots \ {s} : more.slot[y] = u.slot[y])
      /\ more.cells = u.cells /\ more.saved = u.saved /\ more.spoiled = u.spoiled
  BY <1>3, <1>4 DEF Work
<1>7. Leaves(w, more, {s})
  BY <1>6, <1>e DEF Leaves
<1>8. Len(z.draft) = 0 /\ Len(z.tokens) \in Nat
  BY <1>1, <1>5
<1>9. Apt(z)
  BY <1>5, <1>8, <1>e DEF Apt
<1>10. u.cells \in SUBSET CellType
  BY WorkParts
<1>11. Data(u.cells, s) \in SUBSET DataType
  BY <1>10, CellsType
<1>12. Backed(z, Data(u.cells, s), s \in u.spoiled)
  <2>1. Holds(Firsts(z.tokens, Len(z.tokens)), z.tokens, Len(z.tokens))
    <3> DEFINE tokens == z.tokens
    <3>1. tokens \in Seq(Token) /\ Len(tokens) \in Nat /\ Len(tokens) <= Len(tokens)
      BY <1>1, <1>5, <1>8
    <3> HIDE DEF tokens
    <3>2. Holds(Firsts(tokens, Len(tokens)), tokens, Len(tokens))
      BY ONLY <3>1, FirstsHold
    <3> QED BY <3>2 DEF tokens
  <2> QED BY <1>5, <1>e, <2>1 DEF Backed
<1>13. Fine(s, more.slot[s], Data(more.cells, s), s \in more.spoiled, b, o)
  <2>1. (s \in u.spoiled) \in BOOLEAN
    OBVIOUS
  <2>2. Fine(s, z, Data(u.cells, s), s \in u.spoiled, b, o)
    BY <1>3, <1>11, <1>12, <2>1, FineIsBacked
  <2> QED BY <1>6, <2>2
<1>14. Content(more, b, o)
  <2>1. /\ Sound(more.cells) /\ (\A i \in DOMAIN more.saved : Whole(more.saved[i]))
        /\ \A t \in {s} : Apt(more.slot[t]) /\ Fine(t, more.slot[t], Data(more.cells, t), t \in more.spoiled, b, o)
    BY <1>0, <1>6, <1>9, <1>13, <1>e
  <2> QED BY <1>6, <1>7, <2>1, ContentBy
<1>15. Content(Release(more, s), b, o)
  BY <1>14, ContentRelease
<1> QED BY <1>2, <1>14, <1>15

\* The slot at its turn samples a token.
LEMMA SampleCells ==
    ASSUME CInv, Sample
    PROVE  Counts' /\ Visited' /\ Content(Now', batch', Done')
<1>1. PICK t \in Sampled : \E w \in Generated(Now, turn, <<t>>) : Becomes(w)
  BY DEF Sample
<1>2. PICK w \in Generated(Now, turn, <<t>>) : Becomes(w)
  BY <1>1
<1>3. pc = "post" /\ Samples(turn) /\ Next_View /\ n_batch' = n_batch
  BY DEF Sample
<1> DEFINE x == slot[turn]
           o == off + view
           d == Data(cells, turn)
<1>4. /\ batch \in Seq(TokType) /\ o \in Nat /\ Content(Now, batch, o) /\ turn \in Slots
      /\ Now \in Work /\ Now.slot = slot /\ Now.cells = cells /\ Now.spoiled = spoiled
  BY <1>3, InPost
<1>5. x \in SlotType /\ x.state \in {"DONE_PROMPT", "GENERATING"} /\ x.draft = <<>> /\ InView(x.i_batch)
  <2>1. x \in SlotType
    BY <1>4, WorkParts
  <2> QED BY <1>3, <2>1 DEF Samples, Drafting
<1>6. x.i_batch + Len(x.draft) <= o
  <2>1. x.i_batch \in off + 1 .. off + view
    BY <1>5 DEF InView
  <2>2. Len(x.draft) = 0 /\ off \in Nat /\ view \in Nat
    BY <1>3, <1>5, InPost
  <2> QED BY <2>1, <2>2
<1>7. d \in SUBSET DataType
  <2>1. cells \in SUBSET CellType
    BY <1>4, WorkParts
  <2> QED BY <1>4, <2>1, CellsType
<1>8. Fine(turn, x, d, turn \in spoiled, batch, o)
  BY <1>4 DEF Content
<1>9. (turn \in spoiled) \in BOOLEAN
  OBVIOUS
<1> HIDE DEF x, o, d
<1>10. Clean(turn, batch, o) /\ (turn \notin spoiled => d = Firsts(x.tokens, Len(x.tokens)))
  BY <1>4, <1>5, <1>6, <1>7, <1>8, <1>9, NothingAhead
<1>11. <<t>> \in Seq(Sampled)
  OBVIOUS
<1>12. turn \notin Now.spoiled => Data(Now.cells, turn) = Firsts(Now.slot[turn].tokens, Len(Now.slot[turn].tokens))
  BY <1>4, <1>10 DEF x, d
<1>13. Content(w, batch, o)
  <2>1. Leaves(Now, Now, {turn})
    BY DEF Leaves
  <2>2. Sound(Now.cells) /\ Apt(Now.slot[turn])
    BY <1>4 DEF Content
  <2>3. Len(Now.slot[turn].tokens) < NCtx
    BY <2>2 DEF Apt
  <2>4. Exactly(Now, Now, turn)
    BY <1>4, <1>12, <2>1, <2>2, <2>3 DEF Exactly
  <2> QED BY <1>4, <1>10, <1>11, <2>4, ContentGenerated
<1> QED BY <1>2, <1>3, <1>13, PostCells DEF o

\* What is left of the tokens when a draft, which they end with, is taken back but for its first k tokens.
Shorter(tokens, draft, k) == SubSeq(tokens, 1, Len(tokens) - Len(draft)) \o SubSeq(draft, 1, k)

\* The tokens end with the draft.
HasDraft(tokens, draft) ==
    /\ Len(draft) <= Len(tokens)
    /\ \A j \in 1 .. Len(draft) : tokens[Len(tokens) - Len(draft) + j] = draft[j]

\* The tokens "new" are the first m.
Begins(new, tokens, m) ==
    /\ new \in Seq(Token) /\ Len(new) = m /\ m \in Nat /\ m <= Len(tokens)
    /\ \A j \in 1 .. m : new[j] = tokens[j]

\* They are the first ones.
LEMMA ShorterIs ==
    ASSUME NEW tokens \in Seq(Token), NEW draft \in Seq(Token), HasDraft(tokens, draft),
           NEW k \in 0 .. Len(draft), NEW m, m = Len(tokens) - Len(draft) + k
    PROVE  Begins(Shorter(tokens, draft, k), tokens, m)
<1> DEFINE n == Len(tokens) - Len(draft)
           start == SubSeq(tokens, 1, n)
           taken == SubSeq(draft, 1, k)
<1>1. Len(tokens) \in Nat /\ Len(draft) \in Nat /\ n \in Nat /\ n <= Len(tokens) /\ k \in Nat /\ k <= Len(draft)
      /\ m = n + k /\ m <= Len(tokens)
  BY DEF HasDraft
<1>2. ASSUME NEW j \in 1 .. Len(draft)
      PROVE  tokens[n + j] = draft[j]
  BY DEF HasDraft
<1> HIDE DEF n
<1>3. start \in Seq(Token) /\ Len(start) = n /\ \A j \in 1 .. n : start[j] = tokens[j]
  BY <1>1, StartOf
<1>4. taken \in Seq(Token) /\ Len(taken) = k /\ \A j \in 1 .. k : taken[j] = draft[j]
  BY <1>1, StartOf
<1>5. Shorter(tokens, draft, k) = start \o taken
  BY DEF Shorter, n
<1> HIDE DEF start, taken
<1>6. /\ start \o taken \in Seq(Token) /\ Len(start \o taken) = n + k
      /\ \A j \in 1 .. n : (start \o taken)[j] = start[j]
      /\ \A j \in 1 .. k : (start \o taken)[n + j] = taken[j]
  <2>0. start \in Seq(Token) /\ taken \in Seq(Token)
    BY <1>3, <1>4
  <2>1. /\ start \o taken \in Seq(Token) /\ Len(start \o taken) = Len(start) + Len(taken)
        /\ \A j \in 1 .. Len(start) : (start \o taken)[j] = start[j]
        /\ \A j \in 1 .. Len(taken) : (start \o taken)[Len(start) + j] = taken[j]
    BY <2>0, ConcatIs
  <2> DEFINE c == start \o taken
  <2> HIDE DEF c
  <2> QED BY <1>3, <1>4, <2>1
<1>7. ASSUME NEW j \in 1 .. m
      PROVE  (start \o taken)[j] = tokens[j]
  <2>1. CASE j <= n
    <3>1. j \in 1 .. n
      BY <1>1, <2>1
    <3> QED BY <1>3, <1>6, <3>1
  <2>2. CASE ~(j <= n)
    <3> DEFINE i == j - n
    <3>1. i \in 1 .. k /\ n + i = j /\ i \in 1 .. Len(draft)
      BY <1>1, <2>2
    <3> HIDE DEF i
    <3>2. (start \o taken)[n + i] = draft[i] /\ tokens[n + i] = draft[i]
      BY <1>2, <1>4, <1>6, <3>1
    <3> QED BY <3>1, <3>2
  <2> QED BY <2>1, <2>2
<1> QED BY <1>1, <1>5, <1>6, <1>7 DEF Begins

\* The cells of the tokens that were taken back go.
LEMMA ShorterData ==
    ASSUME NEW all \in SUBSET CellType, NEW s \in Slots, NEW tokens \in Seq(Token), NEW new, NEW m,
           Begins(new, tokens, m),
           Data(all, s) = Firsts(tokens, Len(tokens))
    PROVE  Data(SeqRm(all, s, m, -1), s) = Firsts(new, m)
<1> DEFINE L == Len(tokens)
           e == Data(SeqRm(all, s, m, -1), s)
<1>1. L \in Nat /\ m \in Nat /\ m <= L /\ \A j \in 1 .. m : new[j] = tokens[j]
  BY DEF Begins
<1>2. \A d : d \in e <=> d \in Data(all, s) /\ ~In(d, m, -1)
  BY RmOwn
<1>3. Firsts(new, m) = Firsts(tokens, m)
  BY <1>1, FirstsAlike
<1>4. \A d : d \in Firsts(tokens, L) <=> \E j \in 1 .. L : d = [tok |-> tokens[j], pos |-> j - 1]
  BY <1>1, FirstsAre
<1>5. \A d : d \in Firsts(tokens, m) <=> \E j \in 1 .. m : d = [tok |-> tokens[j], pos |-> j - 1]
  BY <1>1, FirstsAre
<1>6. Data(all, s) = Firsts(tokens, L)
  OBVIOUS
<1> HIDE DEF L, e
<1>7. ASSUME NEW d \in e
      PROVE  d \in Firsts(tokens, m)
  <2>1. PICK j \in 1 .. L : d = [tok |-> tokens[j], pos |-> j - 1]
    BY <1>2, <1>4, <1>6
  <2>2. ~(j - 1 >= m)
    BY <1>2, <1>7, <2>1 DEF In
  <2>3. j \in 1 .. m
    BY <1>1, <2>2
  <2> QED BY <1>5, <2>1, <2>3
<1>8. ASSUME NEW d \in Firsts(tokens, m)
      PROVE  d \in e
  <2>1. PICK j \in 1 .. m : d = [tok |-> tokens[j], pos |-> j - 1]
    BY <1>5
  <2>2. j \in 1 .. L /\ ~(j - 1 >= m)
    BY <1>1
  <2>3. d \in Data(all, s) /\ ~In(d, m, -1)
    BY <1>4, <1>6, <2>1, <2>2 DEF In
  <2> QED BY <1>2, <2>3
<1>9. e = Firsts(tokens, m)
  BY <1>7, <1>8
<1> QED BY <1>3, <1>9 DEF e

\* The first k tokens of the draft of a slot with nothing ahead are accepted.
LEMMA ContentAccepted ==
    ASSUME NEW w, NEW b \in Seq(TokType), NEW o \in Nat, Content(w, b, o), NEW s \in Slots, Clean(s, b, o),
           w.slot[s].state = "GENERATING",
           s \notin w.spoiled => Data(w.cells, s) = Firsts(w.slot[s].tokens, Len(w.slot[s].tokens)),
           NEW k \in 0 .. Len(w.slot[s].draft), NEW v, v = Accepted(w, s, k)
    PROVE  Exactly(w, v, s)
<1> DEFINE x == w.slot[s]
           m == Len(x.tokens) - Len(x.draft) + k
           new == Shorter(x.tokens, x.draft, k)
<1>0. w \in Work /\ Sound(w.cells) /\ Apt(x)
  BY DEF Content
<1>1. x \in SlotType /\ w.cells \in SUBSET CellType
  BY <1>0, WorkParts
<1>2. x.tokens \in Seq(Token) /\ x.draft \in Seq(Token)
  <2>1. x.tokens \in Seq(Token) /\ x.draft \in Seq(Sampled) /\ Sampled \subseteq Token
    BY <1>1, SlotParts DEF Token
  <2> QED BY <2>1
<1>3. /\ Len(x.draft) <= Len(x.tokens)
      /\ \A j \in 1 .. Len(x.draft) : x.tokens[Len(x.tokens) - Len(x.draft) + j] = x.draft[j]
  BY <1>0 DEF Apt
<1>4. k \in 0 .. Len(x.draft) /\ m = Len(x.tokens) - Len(x.draft) + k
  OBVIOUS
<1>5. /\ v \in Work /\ (\A y \in Slots \ {s} : v.slot[y] = w.slot[y])
      /\ v.slot[s] = [x EXCEPT !.tokens = SubSeq(x.tokens, 1, Len(x.tokens) - Len(x.draft)) \o SubSeq(x.draft, 1, k)]
  <2>1. /\ Accepted(w, s, k) \in Work
        /\ \A y \in Slots \ {s} : Accepted(w, s, k).slot[y] = w.slot[y]
        /\ Accepted(w, s, k).slot[s] =
              [w.slot[s] EXCEPT !.tokens = SubSeq(@, 1, Len(@) - Len(w.slot[s].draft)) \o SubSeq(w.slot[s].draft, 1, k)]
        /\ SubSeq(w.slot[s].draft, 1, k) \in Seq(Sampled)
    BY <1>0, AcceptedIs
  <2> QED BY <1>1, <2>1 DEF SlotType
<1>6. v.saved = w.saved /\ v.spoiled = w.spoiled /\ v.cells = SeqRm(w.cells, s, m, -1)
  BY <1>0 DEF Accepted, Work
<1>7. v.slot[s] = [x EXCEPT !.tokens = new]
  BY <1>5 DEF Shorter
<1> HIDE DEF m, new, x
<1>8. Begins(new, x.tokens, m)
  <2> DEFINE tokens == x.tokens
             draft  == x.draft
  <2>1. /\ tokens \in Seq(Token) /\ draft \in Seq(Token) /\ k \in 0 .. Len(draft) /\ m = Len(tokens) - Len(draft) + k
    BY <1>2, <1>4
  <2>2. HasDraft(tokens, draft)
    BY <1>3 DEF HasDraft
  <2> HIDE DEF tokens, draft
  <2>3. Begins(Shorter(tokens, draft, k), tokens, m)
    BY <2>1, <2>2, ShorterIs
  <2> QED BY <2>3 DEF new, tokens, draft
<1>9. v.slot[s].tokens = new
  <2>1. new \in Seq(Token)
    BY <1>8 DEF Begins
  <2> QED BY <1>1, <1>7 DEF SlotType
<1>10. Sound(v.cells) /\ \A t \in Slots \ {s} : Data(v.cells, t) = Data(w.cells, t)
  BY <1>0, <1>1, <1>6, RmOwn, RmOthers
<1>11. Leaves(w, v, {s})
  BY <1>5, <1>6, <1>10 DEF Leaves
<1>12. ASSUME s \notin v.spoiled
       PROVE  Data(v.cells, s) = Firsts(new, m)
  <2>1. Data(w.cells, s) = Firsts(x.tokens, Len(x.tokens))
    BY <1>6, <1>12 DEF x
  <2>2. Data(SeqRm(w.cells, s, m, -1), s) = Firsts(new, m)
    BY <1>1, <1>2, <1>8, <2>1, ShorterData
  <2> QED BY <1>6, <2>2
<1>13. Len(new) < NCtx /\ Len(new) = m
  <2>1. Len(new) = m /\ m \in Nat /\ m <= Len(x.tokens) /\ Len(x.tokens) \in Nat /\ Len(x.tokens) < NCtx
    BY <1>0, <1>2, <1>8 DEF Begins, Apt
  <2>2. NCtx \in Nat
    BY SizesAssumption
  <2> QED BY <2>1, <2>2
<1> QED BY <1>5, <1>6, <1>9, <1>10, <1>11, <1>12, <1>13 DEF Exactly

\* A draft is accepted in part, and the rest is taken back.
LEMMA VerifyCells ==
    ASSUME CInv, Verify
    PROVE  Counts' /\ Visited' /\ Content(Now', batch', Done')
<1> DEFINE x == slot[turn]
           o == off + view
           d == Data(cells, turn)
<1>1. PICK k \in 0 .. Len(x.draft), t \in Sampled :
         \E w \in Generated(Accepted(Now, turn, k), turn, SubSeq(x.draft, 1, k) \o <<t>>) : Becomes(w)
  BY DEF Verify
<1> DEFINE u   == Accepted(Now, turn, k)
           new == SubSeq(x.draft, 1, k) \o <<t>>
<1>2. PICK w \in Generated(u, turn, new) : Becomes(w)
  BY <1>1
<1>3. pc = "post" /\ x.draft # <<>> /\ DraftInView(turn) /\ Next_View /\ n_batch' = n_batch
  BY DEF Verify, Drafting
<1>4. /\ batch \in Seq(TokType) /\ o \in Nat /\ Content(Now, batch, o) /\ turn \in Slots
      /\ Now \in Work /\ Now.slot = slot /\ Now.cells = cells /\ Now.spoiled = spoiled
  BY <1>3, InPost
<1>5. x \in SlotType /\ x.state = "GENERATING" /\ x.draft \in Seq(Sampled) /\ x.i_batch \in Nat
  <2>1. x \in SlotType
    BY <1>4, WorkParts
  <2>2. IInv
    BY DEF CInv
  <2>3. Coherent(x)
    BY <2>2, AtTurn
  <2> QED BY <1>3, <2>1, <2>3, SlotParts DEF Coherent
<1>6. x.i_batch + Len(x.draft) <= o
  <2>1. Len(x.draft) \in 0 .. Len(x.draft)
    BY <1>5
  <2>2. x.i_batch + Len(x.draft) \in off + 1 .. off + view
    BY <1>3, <2>1 DEF DraftInView, InView
  <2>3. off \in Nat /\ view \in Nat /\ Len(x.draft) \in Nat
    BY <1>3, <1>5, InPost
  <2> QED BY <1>5, <2>2, <2>3
<1>7. d \in SUBSET DataType
  <2>1. cells \in SUBSET CellType
    BY <1>4, WorkParts
  <2> QED BY <1>4, <2>1, CellsType
<1>8. Fine(turn, x, d, turn \in spoiled, batch, o) /\ Apt(x)
  BY <1>4 DEF Content
<1>9. (turn \in spoiled) \in BOOLEAN
  OBVIOUS
<1>10. new \in Seq(Sampled)
  <2>1. SubSeq(x.draft, 1, k) \in Seq(Sampled)
    BY <1>4, AcceptedIs
  <2>2. <<t>> \in Seq(Sampled)
    OBVIOUS
  <2> DEFINE taken == SubSeq(x.draft, 1, k)
  <2> HIDE DEF taken, x
  <2> QED BY <2>1, <2>2 DEF taken
<1>11. u = Accepted(Now, turn, k) /\ k \in 0 .. Len(Now.slot[turn].draft) /\ Now.slot[turn] = x
  BY <1>4
<1> HIDE DEF x, o, d, u, new
<1>12. Clean(turn, batch, o) /\ (turn \notin spoiled => d = Firsts(x.tokens, Len(x.tokens)))
  BY <1>4, <1>5, <1>6, <1>7, <1>8, <1>9, NothingAhead
<1>13. turn \notin Now.spoiled => Data(Now.cells, turn) = Firsts(Now.slot[turn].tokens, Len(Now.slot[turn].tokens))
  BY <1>4, <1>11, <1>12 DEF d
<1>14. Exactly(Now, u, turn) /\ u \in Work
  <2>1. Now.slot[turn].state = "GENERATING"
    BY <1>5, <1>11
  <2>2. Exactly(Now, u, turn)
    BY <1>4, <1>11, <1>12, <1>13, <2>1, ContentAccepted
  <2> QED BY <2>2 DEF Exactly
<1>16. Content(w, batch, o)
  BY <1>2, <1>4, <1>10, <1>12, <1>14, ContentGenerated
<1> QED BY <1>2, <1>3, <1>16, PostCells DEF o

-----------------------------------------------------------------------------
(* Every state.                                                            *)

LEMMA InitCInv == Init => CInv
<1>1. SUFFICES ASSUME Init
               PROVE  CInv
  OBVIOUS
<1>2. IInv
  BY <1>1, InitInv
<1>3. /\ batch = <<>> /\ off = 0 /\ view = 0 /\ n_batch = NBatch /\ pc = "tasks"
      /\ cells = {} /\ saved = <<>> /\ spoiled = {} /\ \A s \in Slots : slot[s] = Fresh
  BY <1>1 DEF Init
<1>4. Counts /\ Visited /\ Done = 0
  <2>1. NBatch \in Nat /\ NBatch >= 1 /\ Len(<<>>) = 0 /\ DOMAIN <<>> = {}
    BY SizesAssumption
  <2> QED BY <1>3, <2>1 DEF Counts, Visited, Done
<1>5. Now \in Work /\ Now.slot = slot /\ Now.cells = {} /\ Now.saved = <<>> /\ Now.spoiled = {}
  BY <1>2, <1>3 DEF IInv, Typed, Now
<1>6. Sound({})
  <2>1. IsFiniteSet({}) /\ Cardinality({}) = 0
    BY FS_EmptySet
  <2>2. NumCells \in Nat
    BY SizesAssumption
  <2> QED BY <2>1, <2>2 DEF Sound
<1>7. ASSUME NEW s \in Slots
      PROVE  Apt(Now.slot[s]) /\ Fine(s, Now.slot[s], Data(Now.cells, s), s \in Now.spoiled, <<>>, 0)
  <2>1. Now.slot[s].state = "IDLE" /\ Now.slot[s].tokens = <<>>
    BY <1>3, <1>5 DEF Fresh
  <2>2. NCtx \in Nat /\ NCtx >= 1
    BY SizesAssumption
  <2> QED BY <2>1, <2>2 DEF Apt, Fine
<1>8. Content(Now, <<>>, 0)
  BY <1>5, <1>6, <1>7 DEF Content
<1> QED BY <1>2, <1>3, <1>4, <1>8 DEF CInv

\* Every step, by the lemma of its action.
LEMMA NextCInv == CInv /\ [Next]_vars => CInv'
<1>1. ASSUME CInv, [Next]_vars
      PROVE  IInv'
  BY <1>1, NextInv DEF CInv
<1>2. ASSUME CInv, UNCHANGED vars
      PROVE  Counts' /\ Visited' /\ Content(Now', batch', Done')
  <2>1. UNCHANGED <<slot, cells, saved, pc, turn, batch, off, view, n_batch, spoiled>>
    BY <1>2 DEF vars
  <2>2. Now' = Now /\ Done' = Done
    BY <2>1 DEF Now, Done
  <2>3. Counts' /\ Visited'
    BY <1>2, <2>1 DEF CInv, Counts, Visited
  <2> QED BY <1>2, <2>1, <2>2, <2>3 DEF CInv
<1>3. ASSUME CInv, Loop
      PROVE  Counts' /\ Visited' /\ Content(Now', batch', Done')
  <2>1. ASSUME NEW s \in Slots, ShiftRefused(s) \/ Generate(s) \/ PromptRefused(s) \/ Abort(s) \/ Prompt(s)
        PROVE  Counts' /\ Visited' /\ Content(Now', batch', Done')
    BY <1>3, <2>1, ShiftRefusedCells, GenerateCells, PromptRefusedCells, AbortCells, PromptCells
  <2>2. CASE Update \/ Skip
    BY <1>3, <2>2, UpdateCells, SkipCells
  <2>3. CASE DecodeFatal \/ DecodeNoSpace \/ DecodeOk \/ DecodeAborted
    BY <1>3, <2>3, DecodeFatalCells, DecodeNoSpaceCells, DecodeOkCells, DecodeAbortedCells
  <2>4. CASE PostSkip \/ PostThrows \/ Sample \/ Verify
    BY <1>3, <2>4, PostSkipCells, PostThrowsCells, SampleCells, VerifyCells
  <2> QED BY <1>3, <2>1, <2>2, <2>3, <2>4 DEF Loop
<1>4. ASSUME CInv, NEW s \in Slots, Cancel(s) \/ Erase(s) \/ \E t \in Tasks : Launch(t, s) \/ Decline(t, s)
      PROVE  Counts' /\ Visited' /\ Content(Now', batch', Done')
  BY <1>4, CancelCells, EraseCells, LaunchCells, DeclineCells
<1>5. ASSUME CInv, [Next]_vars
      PROVE  Counts' /\ Visited' /\ Content(Now', batch', Done')
  BY <1>2, <1>3, <1>4, <1>5 DEF Next
<1>6. IInv' /\ Counts' /\ Visited' /\ Content(Now', batch', Done') => CInv'
  BY DEF CInv, Content
<1> QED BY <1>1, <1>5, <1>6

\* What every state satisfies: what the cache has of each slot, with what is ahead of it in
\* the batch, from task to task and from view to view.
THEOREM SpecCInv == Spec => []CInv
BY InitCInv, NextCInv, PTL DEF Spec

\* Everything has its type, and is within its bounds.
LEMMA CInvTypeOK == CInv => TypeOK
<1> SUFFICES ASSUME CInv
             PROVE  TypeOK
  OBVIOUS
<1>1. IInv /\ Counts /\ Content(Now, batch, Done) /\ Typed
  BY DEF CInv, IInv
<1>2. Now \in Work /\ Now.slot = slot /\ Now.cells = cells /\ Now.saved = saved /\ Now.spoiled = spoiled
  BY <1>1, CalmNow DEF Now
<1>3. /\ slot \in [Slots -> SlotType] /\ cells \in SUBSET CellType /\ saved \in Seq(SavedType) /\ spoiled \in SUBSET Slots
  BY <1>2, WorkParts
<1>4. /\ pc \in {"tasks", "gen", "prompt", "decode", "post", "aborted"} /\ turn \in Slots
      /\ batch \in Seq(TokType) /\ off \in Nat /\ view \in Nat /\ n_batch \in Nat
  BY <1>1 DEF Typed
<1>5. /\ Sound(cells) /\ (\A i \in DOMAIN saved : Whole(saved[i])) /\ \A s \in Slots : Apt(slot[s])
  BY <1>1, <1>2 DEF Content
<1>6. ASSUME NEW s \in Slots
      PROVE  LET x == slot[s] IN
             /\ x.state \in States /\ x.tokens \in Seq(Token) /\ Len(x.tokens) < NCtx
             /\ x.out \in Seq(Sampled) /\ x.draft \in Seq(Sampled) /\ x.i_batch \in Nat
             /\ x.truncated \in BOOLEAN /\ x.task.family \in {"none", "single", "parent", "child"}
  <2>1. slot[s] \in SlotType /\ Apt(slot[s])
    BY <1>3, <1>5
  <2>2. slot[s].task \in TaskType
    BY <2>1, SlotParts
  <2> QED BY <2>1, <2>2, SlotParts DEF Apt, TaskType
<1>7. cells \subseteq [tok : Token, pos : 0 .. NCtx - 1, seqs : (SUBSET Slots) \ {{}}] /\ Cardinality(cells) <= NumCells
  <2>1. ASSUME NEW c \in cells
        PROVE  c \in [tok : Token, pos : 0 .. NCtx - 1, seqs : (SUBSET Slots) \ {{}}]
    <3>1. c \in CellType /\ c.pos < NCtx /\ c.seqs # {} /\ NCtx \in Nat
      BY <1>3, <1>5, SizesAssumption DEF Sound
    <3>2. c.pos \in Nat /\ c.pos \in 0 .. NCtx - 1
      BY <3>1 DEF CellType
    <3> QED BY <3>1, <3>2 DEF CellType
  <2> QED BY <1>5, <2>1 DEF Sound
<1>8. ASSUME NEW e \in Range(saved)
      PROVE  e.tokens \in Seq(Token) /\ e.cells \subseteq [tok : Token, pos : 0 .. NCtx - 1]
  <2>1. PICK i \in DOMAIN saved : e = saved[i]
    BY DEF Range
  <2>2. e \in SavedType /\ Whole(e)
    BY <1>3, <1>5, <2>1
  <2>3. e.tokens \in Seq(Token) /\ e.cells \in SUBSET DataType
    BY <2>2 DEF SavedType
  <2>4. ASSUME NEW d \in e.cells
        PROVE  d \in [tok : Token, pos : 0 .. NCtx - 1]
    <3>1. d \in DataType /\ d.pos < NCtx /\ NCtx \in Nat
      BY <2>2, <2>3, SizesAssumption DEF Whole
    <3>2. d.pos \in Nat /\ d.pos \in 0 .. NCtx - 1
      BY <3>1 DEF DataType
    <3> QED BY <3>1, <3>2 DEF DataType
  <2> QED BY <2>3, <2>4
<1>9. batch \in Seq([slot : Slots, tok : Token, pos : 0 .. NCtx - 1])
  <2> DEFINE R == [slot : Slots, tok : Token, pos : 0 .. NCtx - 1]
  <2>1. ASSUME NEW j \in 1 .. Len(batch)
        PROVE  batch[j] \in R
    <3>1. batch[j] \in TokType /\ batch[j].pos < NCtx /\ NCtx \in Nat
      BY <1>1, <1>4, SizesAssumption DEF Counts
    <3>2. batch[j].pos \in Nat /\ batch[j].pos \in 0 .. NCtx - 1
      BY <3>1 DEF TokType
    <3> QED BY <3>1, <3>2 DEF TokType
  <2> HIDE DEF R
  <2>2. batch \in Seq(R)
    BY <1>4, <2>1
  <2> QED BY <2>2 DEF R
<1>10. off \in 0 .. Len(batch) /\ off + view <= Len(batch) /\ n_batch \in 1 .. NBatch
  <2>1. NBatch \in Nat /\ Len(batch) \in Nat
    BY <1>4, SizesAssumption
  <2> QED BY <1>1, <1>4, <2>1 DEF Counts
<1> QED BY <1>3, <1>4, <1>6, <1>7, <1>8, <1>9, <1>10 DEF TypeOK

\* Between two batches the cache has the tokens that a slot remembers, each at its place and
\* nothing in addition there, and so does a saved prompt, but for those that are spoiled.
THEOREM SpecPromptIsCached == Spec => []PromptIsCached
<1>1. CInv => PromptIsCached
  <2> SUFFICES ASSUME CInv
               PROVE  PromptIsCached
    OBVIOUS
  <2>1. TypeOK
    BY CInvTypeOK
  <2>2. Now \in Work /\ Now.slot = slot /\ Now.cells = cells /\ Now.saved = saved /\ Now.spoiled = spoiled
    BY CalmNow DEF CInv, Now
  <2>3. ASSUME pc = "tasks", NEW s \in Slots \ spoiled
        PROVE  Holds(Data(cells, s), slot[s].tokens, Len(slot[s].tokens))
    <3>1. Content(Now, <<>>, 0)
      BY <2>3, Between
    <3>2. Fine(s, Now.slot[s], Data(Now.cells, s), s \in Now.spoiled, <<>>, 0)
      BY <3>1 DEF Content
    <3>3. Backed(Now.slot[s], Data(Now.cells, s), s \in Now.spoiled)
      BY <2>2, <3>2, RestIs
    <3> QED BY <2>2, <3>3 DEF Backed
  <2>4. ASSUME NEW e \in Range(saved), ~e.bad
        PROVE  Holds(e.cells, e.tokens, Len(e.tokens))
    <3>1. PICK i \in DOMAIN saved : e = saved[i]
      BY DEF Range
    <3>2. Whole(e)
      BY <2>2, <3>1 DEF CInv, Content
    <3> QED BY <2>4, <3>2 DEF Whole
  <2> QED BY <2>1, <2>3, <2>4 DEF PromptIsCached
<1> QED BY <1>1, SpecCInv, PTL

\* What the cache has of a slot whose tokens are decoded next.
LEMMA SeesPrompt ==
    ASSUME CInv, pc = "decode", NEW s \in Rest(off) \ spoiled, Processing(s),
           NEW n, n = Min({batch[j].pos : j \in {j \in off + 1 .. Len(batch) : batch[j].slot = s}})
    PROVE  Data(cells, s) = Firsts(slot[s].tokens, n)
<1> DEFINE x == slot[s]
           J == {batch[j].pos : j \in {j \in off + 1 .. Len(batch) : batch[j].slot = s}}
<1>1. /\ batch \in Seq(TokType) /\ Len(batch) \in Nat /\ off \in Nat /\ Content(Now, batch, off)
      /\ Now \in Work /\ Now.slot = slot /\ Now.cells = cells /\ Now.spoiled = spoiled
  BY InDecode
<1>2. PICK a \in off + 1 .. Len(batch) : batch[a].slot = s
  BY DEF Rest
<1>3. s \in Slots
  <2>1. a \in 1 .. Len(batch)
    BY <1>1
  <2>2. batch[a] \in TokType
    BY <1>1, <2>1
  <2> QED BY <1>2, <2>2 DEF TokType
<1>4. Fine(s, x, Data(cells, s), s \in spoiled, batch, off) /\ x \in SlotType
  BY <1>1, <1>3, WorkParts DEF Content
<1>5. x.state # "IDLE"
  BY DEF Processing
<1>6. PICK lo, hi \in Nat : Spans(s, x, batch, off, lo, hi) /\ HoldsBut(x, Data(cells, s), lo, hi)
  BY <1>4, <1>5 DEF Fine
<1>7. Len(x.tokens) \in Nat
  BY <1>4, SlotParts
<1>8. /\ off < lo /\ hi - lo < Len(x.tokens) /\ (hi >= lo => hi <= Len(batch))
      /\ \A j \in off + 1 .. Len(batch) : batch[j].slot = s <=> lo <= j /\ j <= hi
      /\ \A j \in lo .. hi : LET i == Len(x.tokens) - (hi - j) IN batch[j].pos = i - 1 /\ batch[j].tok = x.tokens[i]
  BY <1>6 DEF Spans
<1>9. lo <= a /\ a <= hi /\ hi >= lo
  BY <1>2, <1>8
<1> DEFINE L == Len(x.tokens)
           m == L - (hi - lo + 1)
<1>10. Data(cells, s) = Firsts(x.tokens, m)
  BY <1>6, <1>9 DEF HoldsBut
<1>11. \A j \in lo .. hi : batch[j].pos = L - (hi - j) - 1
  BY <1>8
<1> HIDE DEF x, L
<1>12. L \in Nat
  BY <1>7 DEF L
<1>13. m \in Nat /\ m = L - (hi - lo) - 1
  BY <1>8, <1>12 DEF L
<1>14. m \in J
  <2>1. lo \in off + 1 .. Len(batch) /\ batch[lo].slot = s /\ lo \in lo .. hi
    BY <1>1, <1>8, <1>9
  <2>2. batch[lo].pos = m
    BY <1>11, <1>13, <2>1
  <2> QED BY <2>1, <2>2
<1> HIDE DEF m
<1>15. ASSUME NEW p \in J
       PROVE  p \in Nat /\ m <= p
  <2>1. PICK j \in off + 1 .. Len(batch) : batch[j].slot = s /\ p = batch[j].pos
    OBVIOUS
  <2>2. j \in lo .. hi
    BY <1>1, <1>8, <2>1
  <2>3. p = L - (hi - j) - 1
    BY <1>11, <2>1, <2>2
  <2> QED BY <1>12, <1>13, <2>2, <2>3
<1> HIDE DEF J
<1>16. J \in SUBSET Nat /\ J # {}
  BY <1>14, <1>15
<1>17. Min(J) \in J /\ \A p \in J : Min(J) <= p
  BY <1>16, MinIs
<1>18. n = m
  <2>1. n = Min(J)
    BY DEF J
  <2>2. Min(J) \in Nat /\ m \in Nat /\ Min(J) <= m /\ m <= Min(J)
    BY <1>13, <1>14, <1>15, <1>17
  <2> QED BY <2>1, <2>2
<1> QED BY <1>10, <1>18 DEF x

\* When a view is decoded the cache has, of every slot that is in it and is not spoiled, the
\* tokens before those of the view and no others.
THEOREM SpecDecodeSeesPrompt == Spec => []DecodeSeesPrompt
<1>1. CInv => DecodeSeesPrompt
  <2> SUFFICES ASSUME CInv, pc = "decode", NEW s \in Rest(off) \ spoiled, Processing(s)
               PROVE  LET n == Min({batch[j].pos : j \in {j \in off + 1 .. Len(batch) : batch[j].slot = s}})
                      IN  Data(cells, s) = {[tok |-> slot[s].tokens[j], pos |-> j - 1] : j \in 1 .. n}
    BY DEF DecodeSeesPrompt
  <2> DEFINE n == Min({batch[j].pos : j \in {j \in off + 1 .. Len(batch) : batch[j].slot = s}})
  <2>1. Data(cells, s) = Firsts(slot[s].tokens, n)
    BY SeesPrompt
  <2> QED BY <2>1 DEF Firsts
<1> QED BY <1>1, SpecCInv, PTL
=============================================================================
