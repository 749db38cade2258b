--------------------------- MODULE KvCacheProofs ---------------------------
(***************************************************************************)
(* What is kept beside the cells agrees with them, for any numbers of      *)
(* sequences, streams and cells, any sizes, shifts and divisions.          *)
(*                                                                         *)
(* An operation on one cell puts a cell in its place and moves one count   *)
(* from a position to another (Turned); an operation on many is a fold of  *)
(* those, and what it has done so far is known of the cells it has seen.   *)
(***************************************************************************)
EXTENDS KvCache, FoldProofs

\* A stream and its cells by their types, without what relates them.
LooseCell == [pos : Int, shift : Int, seqs : SUBSET Seqs]
Loose == [cell : [Cells -> LooseCell], used : SUBSET Cells, has_shift : BOOLEAN,
          seq_pos : [Seqs -> [Positions -> Int]], head : 0 .. NumCells]

StreamType == [cell : [Cells -> Cell], used : SUBSET Cells, has_shift : BOOLEAN,
               seq_pos : [Seqs -> [Positions -> Nat]], head : 0 .. NumCells]

\* The cells of sequence s at position p, and whether c is one.
At(f, s, p)  == {i \in Cells : s \in f[i].seqs /\ f[i].pos = p}
One(c, s, p) == IF s \in c.seqs /\ c.pos = p THEN 1 ELSE 0

\* Used cells, counts and shifts are those of the cells.
Fit(st) ==
    /\ st \in StreamType
    /\ st.used = {i \in Cells : st.cell[i].pos # -1}
    /\ \A s \in Seqs, p \in Positions : st.seq_pos[s][p] = Cardinality(At(st.cell, s, p))
    /\ \A i \in Cells : st.cell[i].pos = -1 => st.cell[i] = EmptyCell
    /\ ~st.has_shift => \A i \in Cells : st.cell[i].shift = 0

\* And every used cell is in a sequence.
Owned(st) == \A i \in Cells : st.cell[i].seqs = {} => st.cell[i].pos = -1
Good == {st \in StreamType : Fit(st) /\ Owned(st)}

\* Cell i of st becomes c, in the cells, among those that are used and in the counts.
Recount(sp, a, c) == [s \in Seqs |-> [p \in Positions |-> sp[s][p] - One(a, s, p) + One(c, s, p)]]
Turned(st, i, c, h) ==
    [cell |-> [st.cell EXCEPT ![i] = c],
     used |-> IF c.pos = -1 THEN st.used \ {i} ELSE st.used \cup {i},
     has_shift |-> h, seq_pos |-> Recount(st.seq_pos, st.cell[i], c), head |-> st.head]

-----------------------------------------------------------------------------
(* One cell.                                                               *)

\* Cells, sequences and streams are finitely many.
LEMMA SizesAre ==
    /\ NumSeqs \in Nat /\ NumCells \in Nat /\ NumSeqs >= 1 /\ NumCells >= 1 /\ MaxPos \in Nat
    /\ NumUbatch \in Nat /\ NumUbatch >= 1 /\ MaxTokens \in Nat /\ Window \in Nat
    /\ IsFiniteSet(Cells) /\ IsFiniteSet(Seqs)
<1>1. /\ NumSeqs \in Nat /\ NumCells \in Nat /\ NumSeqs >= 1 /\ NumCells >= 1 /\ MaxPos \in Nat
      /\ NumUbatch \in Nat /\ NumUbatch >= 1 /\ MaxTokens \in Nat /\ Window \in Nat
  BY SizesAssumption
<1>2. 0 \in Int /\ NumCells - 1 \in Int /\ NumSeqs - 1 \in Int
  BY <1>1
<1>3. IsFiniteSet(0 .. NumCells - 1) /\ IsFiniteSet(0 .. NumSeqs - 1)
  BY <1>2, FS_Interval
<1> QED BY <1>1, <1>3 DEF Cells, Seqs

LEMMA SubsetsFinite ==
    ASSUME NEW S, S \subseteq Cells \/ S \subseteq Seqs
    PROVE  IsFiniteSet(S)
BY SizesAre, FS_Subset

\* A count goes with its cell.
LEMMA CountTurns ==
    ASSUME NEW f \in [Cells -> LooseCell], NEW i \in Cells, NEW c \in LooseCell, NEW s, NEW p
    PROVE  /\ Cardinality(At(f, s, p)) \in Nat
           /\ Cardinality(At([f EXCEPT ![i] = c], s, p)) = Cardinality(At(f, s, p)) - One(f[i], s, p) + One(c, s, p)
<1> DEFINE g == [f EXCEPT ![i] = c]
           rest == {j \in Cells \ {i} : s \in f[j].seqs /\ f[j].pos = p}
<1>1. IsFiniteSet(rest) /\ i \notin rest
  BY SubsetsFinite
<1>2. Cardinality(rest) \in Nat /\ Cardinality(rest \cup {i}) = Cardinality(rest) + 1
  BY <1>1, FS_AddElement, FS_CardinalityType
<1>3. g[i] = c /\ \A j \in Cells \ {i} : g[j] = f[j]
  OBVIOUS
<1>4. At(f, s, p) = IF s \in f[i].seqs /\ f[i].pos = p THEN rest \cup {i} ELSE rest
  BY DEF At
<1>5. At(g, s, p) = IF s \in c.seqs /\ c.pos = p THEN rest \cup {i} ELSE rest
  BY <1>3 DEF At
<1> HIDE DEF g, rest
<1> QED BY <1>2, <1>4, <1>5 DEF One, g

\* What a cell becomes leaves the rest in agreement with the cells.
TurnsWell(st, i, c, h, t) ==
    Fit(t) /\ t.cell = [st.cell EXCEPT ![i] = c] /\ t.head = st.head /\ t.has_shift = h

LEMMA TurnedFit ==
    ASSUME NEW st, Fit(st), NEW i \in Cells, NEW c \in Cell, NEW h \in BOOLEAN,
           c.pos = -1 => c = EmptyCell, st.has_shift => h, ~h => c.shift = 0
    PROVE  TurnsWell(st, i, c, h, Turned(st, i, c, h))
<1> DEFINE t == Turned(st, i, c, h)
<1>1. /\ st.cell \in [Cells -> Cell] /\ st.used \subseteq Cells /\ st.has_shift \in BOOLEAN
      /\ st.seq_pos \in [Seqs -> [Positions -> Nat]] /\ st.head \in 0 .. NumCells
  BY DEF Fit, StreamType
<1>2. /\ t.cell = [st.cell EXCEPT ![i] = c] /\ t.has_shift = h /\ t.head = st.head
      /\ t.used = IF c.pos = -1 THEN st.used \ {i} ELSE st.used \cup {i}
      /\ t.seq_pos = Recount(st.seq_pos, st.cell[i], c)
  BY DEF Turned
<1>3. Cell \subseteq LooseCell /\ c \in LooseCell /\ st.cell \in [Cells -> LooseCell]
  <2>1. Cell \subseteq LooseCell
    BY DEF Cell, LooseCell, Positions
  <2> QED BY <1>1, <2>1
<1>4. ASSUME NEW s \in Seqs, NEW p \in Positions
      PROVE  t.seq_pos[s][p] = Cardinality(At(t.cell, s, p)) /\ t.seq_pos[s][p] \in Nat
  <2>1. t.seq_pos[s][p] = st.seq_pos[s][p] - One(st.cell[i], s, p) + One(c, s, p)
    BY <1>2 DEF Recount
  <2>2. st.seq_pos[s][p] = Cardinality(At(st.cell, s, p))
    BY DEF Fit
  <2>3. Cardinality(At(t.cell, s, p)) = Cardinality(At(st.cell, s, p)) - One(st.cell[i], s, p) + One(c, s, p)
    BY <1>2, <1>3, CountTurns
  <2>4. t.cell \in [Cells -> LooseCell]
    BY <1>2, <1>3
  <2>5. Cardinality(At(t.cell, s, p)) \in Nat
    BY <1>3, <2>4, CountTurns
  <2> QED BY <2>1, <2>2, <2>3, <2>5
<1>5. t.cell[i] = c /\ (\A j \in Cells \ {i} : t.cell[j] = st.cell[j]) /\ t.cell \in [Cells -> Cell]
  BY <1>1, <1>2
<1>6. t.seq_pos \in [Seqs -> [Positions -> Nat]]
  <2>1. t.seq_pos = [s \in Seqs |-> [p \in Positions |-> t.seq_pos[s][p]]]
    BY <1>2 DEF Recount
  <2> HIDE DEF t
  <2>2. [s \in Seqs |-> [p \in Positions |-> t.seq_pos[s][p]]] \in [Seqs -> [Positions -> Nat]]
    BY <1>4
  <2> QED BY <2>1, <2>2
<1>7. t \in StreamType
  <2>1. t = [cell |-> t.cell, used |-> t.used, has_shift |-> t.has_shift, seq_pos |-> t.seq_pos, head |-> t.head]
    BY <1>2 DEF Turned
  <2>2. t.used \in SUBSET Cells /\ t.has_shift \in BOOLEAN /\ t.head \in 0 .. NumCells
    BY <1>1, <1>2
  <2> HIDE DEF t
  <2> QED BY <1>5, <1>6, <2>1, <2>2 DEF StreamType
<1>8. t.used = {j \in Cells : t.cell[j].pos # -1}
  <2>1. st.used = {j \in Cells : st.cell[j].pos # -1}
    BY DEF Fit
  <2> HIDE DEF t
  <2> QED BY <1>2, <1>5, <2>1
<1>9. \A j \in Cells : t.cell[j].pos = -1 => t.cell[j] = EmptyCell
  BY <1>5 DEF Fit
<1>10. ~t.has_shift => \A j \in Cells : t.cell[j].shift = 0
  BY <1>1, <1>2, <1>5 DEF Fit
<1> HIDE DEF t
<1>11. Fit(t)
  BY <1>4, <1>7, <1>8, <1>9, <1>10 DEF Fit
<1> QED BY <1>2, <1>11 DEF t, TurnsWell

LEMMA FitIsLoose ==
    ASSUME NEW st, Fit(st)
    PROVE  /\ st \in Loose
           /\ \A i \in Cells : st.cell[i] \in Cell /\ st.cell[i] \in LooseCell /\ st.cell[i].seqs \subseteq Seqs
                               /\ (st.cell[i].pos # -1 => st.cell[i].pos \in Positions) /\ st.cell[i].shift \in Int
           /\ \A s \in Seqs, p \in Positions : st.seq_pos[s][p] \in Nat
           /\ st.cell \in [Cells -> Cell] /\ st.has_shift \in BOOLEAN /\ st.head \in 0 .. NumCells
<1>1. st \in StreamType
  BY DEF Fit
<1>2. Cell \subseteq LooseCell /\ \A c \in Cell : c.seqs \subseteq Seqs /\ (c.pos # -1 => c.pos \in Positions) /\ c.shift \in Int
  BY DEF Cell, LooseCell, Positions
<1>3. st \in Loose
  BY <1>1, <1>2 DEF StreamType, Loose
<1> QED BY <1>1, <1>2, <1>3 DEF StreamType

\* The counts of the sequences of a cell, less one.
LEMMA SeqPosRmIs ==
    ASSUME NEW st \in Loose, NEW i \in Cells
    PROVE  SeqPosRm(st, i) =
             [st EXCEPT !.seq_pos = [s \in Seqs |-> [p \in Positions |-> st.seq_pos[s][p] - One(st.cell[i], s, p)]]]
<1> DEFINE a == st.cell[i]
           new == [s \in Seqs |-> IF s \in a.seqs THEN [st.seq_pos[s] EXCEPT ![a.pos] = @ + (-1)] ELSE st.seq_pos[s]]
           one == [s \in Seqs |-> [p \in Positions |-> st.seq_pos[s][p] - One(a, s, p)]]
<1>1. st.seq_pos \in [Seqs -> [Positions -> Int]]
  BY DEF Loose
<1>2. SeqPosRm(st, i) = [st EXCEPT !.seq_pos = new]
  BY DEF SeqPosRm, SeqPos
<1>3. ASSUME NEW s \in Seqs
      PROVE  new[s] = one[s]
  <2>1. st.seq_pos[s] \in [Positions -> Int]
    BY <1>1
  <2>2. new[s] = IF s \in a.seqs THEN [st.seq_pos[s] EXCEPT ![a.pos] = @ + (-1)] ELSE st.seq_pos[s]
    OBVIOUS
  <2>3. new[s] = [p \in Positions |-> new[s][p]]
    <3> HIDE DEF new
    <3>1. CASE s \in a.seqs
      BY <2>1, <2>2, <3>1
    <3>2. CASE s \notin a.seqs
      BY <2>1, <2>2, <3>2
    <3> QED BY <3>1, <3>2
  <2>4. ASSUME NEW p \in Positions
        PROVE  new[s][p] = st.seq_pos[s][p] - One(a, s, p)
    <3> HIDE DEF new, a
    <3>1. st.seq_pos[s][p] \in Int
      BY <2>1
    <3>2. CASE s \in a.seqs /\ p = a.pos
      BY <2>1, <2>2, <3>1, <3>2 DEF One
    <3>3. CASE ~(s \in a.seqs /\ p = a.pos)
      <4>1. new[s][p] = st.seq_pos[s][p]
        BY <2>1, <2>2, <3>3
      <4> QED BY <3>1, <3>3, <4>1 DEF One
    <3> QED BY <3>2, <3>3
  <2>5. one[s] = [p \in Positions |-> st.seq_pos[s][p] - One(a, s, p)]
    OBVIOUS
  <2> HIDE DEF new, one
  <2> QED BY <2>3, <2>4, <2>5
<1>4. new = one
  BY <1>3
<1> HIDE DEF new
<1> QED BY <1>2, <1>4

\* The same, one more.
LEMMA SeqPosAddIs ==
    ASSUME NEW st \in Loose, NEW i \in Cells
    PROVE  SeqPosAdd(st, i) =
             [st EXCEPT !.seq_pos = [s \in Seqs |-> [p \in Positions |-> st.seq_pos[s][p] + One(st.cell[i], s, p)]]]
<1> DEFINE a == st.cell[i]
           new == [s \in Seqs |-> IF s \in a.seqs THEN [st.seq_pos[s] EXCEPT ![a.pos] = @ + 1] ELSE st.seq_pos[s]]
           one == [s \in Seqs |-> [p \in Positions |-> st.seq_pos[s][p] + One(a, s, p)]]
<1>1. st.seq_pos \in [Seqs -> [Positions -> Int]]
  BY DEF Loose
<1>2. SeqPosAdd(st, i) = [st EXCEPT !.seq_pos = new]
  BY DEF SeqPosAdd, SeqPos
<1>3. ASSUME NEW s \in Seqs
      PROVE  new[s] = one[s]
  <2>1. st.seq_pos[s] \in [Positions -> Int]
    BY <1>1
  <2>2. new[s] = IF s \in a.seqs THEN [st.seq_pos[s] EXCEPT ![a.pos] = @ + 1] ELSE st.seq_pos[s]
    OBVIOUS
  <2>3. new[s] = [p \in Positions |-> new[s][p]]
    <3> HIDE DEF new
    <3>1. CASE s \in a.seqs
      BY <2>1, <2>2, <3>1
    <3>2. CASE s \notin a.seqs
      BY <2>1, <2>2, <3>2
    <3> QED BY <3>1, <3>2
  <2>4. ASSUME NEW p \in Positions
        PROVE  new[s][p] = st.seq_pos[s][p] + One(a, s, p)
    <3> HIDE DEF new, a
    <3>1. st.seq_pos[s][p] \in Int
      BY <2>1
    <3>2. CASE s \in a.seqs /\ p = a.pos
      BY <2>1, <2>2, <3>1, <3>2 DEF One
    <3>3. CASE ~(s \in a.seqs /\ p = a.pos)
      <4>1. new[s][p] = st.seq_pos[s][p]
        BY <2>1, <2>2, <3>3
      <4> QED BY <3>1, <3>3, <4>1 DEF One
    <3> QED BY <3>2, <3>3
  <2>5. one[s] = [p \in Positions |-> st.seq_pos[s][p] + One(a, s, p)]
    OBVIOUS
  <2> HIDE DEF new, one
  <2> QED BY <2>3, <2>4, <2>5
<1>4. new = one
  BY <1>3
<1> HIDE DEF new
<1> QED BY <1>2, <1>4

\* A stream that has the parts of another.
LEMMA SameStream ==
    ASSUME NEW t \in Loose, NEW u \in Loose, t.cell = u.cell, t.used = u.used, t.has_shift = u.has_shift,
           t.head = u.head, \A s \in Seqs, p \in Positions : t.seq_pos[s][p] = u.seq_pos[s][p]
    PROVE  t = u
<1>1. t.seq_pos = u.seq_pos
  <2>1. t.seq_pos \in [Seqs -> [Positions -> Int]] /\ u.seq_pos \in [Seqs -> [Positions -> Int]]
    BY DEF Loose
  <2>2. \A s \in Seqs : t.seq_pos[s] = u.seq_pos[s]
    BY <2>1
  <2> QED BY <2>1, <2>2
<1> QED BY <1>1 DEF Loose

\* The parts of a stream in which a cell has turned.
TurnsInto(st, i, c, h, u) ==
    /\ u \in Loose /\ u.cell = [st.cell EXCEPT ![i] = c]
    /\ u.used = IF c.pos = -1 THEN st.used \ {i} ELSE st.used \cup {i}
    /\ u.head = st.head /\ u.has_shift = h
    /\ \A s \in Seqs, p \in Positions : u.seq_pos[s][p] = st.seq_pos[s][p] - One(st.cell[i], s, p) + One(c, s, p)

LEMMA TurnedLoose ==
    ASSUME NEW st \in Loose, NEW i \in Cells, NEW c \in LooseCell, NEW h, h \in BOOLEAN,
           NEW u, u = Turned(st, i, c, h)
    PROVE  TurnsInto(st, i, c, h, u)
<1>1. /\ st.cell \in [Cells -> LooseCell] /\ st.used \subseteq Cells /\ st.head \in 0 .. NumCells
      /\ st.seq_pos \in [Seqs -> [Positions -> Int]]
  BY DEF Loose
<1> DEFINE sp == Recount(st.seq_pos, st.cell[i], c)
<1>2. sp \in [Seqs -> [Positions -> Int]]
  BY <1>1 DEF Recount, One
<1>3. \A s \in Seqs, p \in Positions : sp[s][p] = st.seq_pos[s][p] - One(st.cell[i], s, p) + One(c, s, p)
  BY DEF Recount
<1> HIDE DEF sp
<1>4. u.seq_pos = sp
  BY DEF Turned, sp
<1>5. [st.cell EXCEPT ![i] = c] \in [Cells -> LooseCell]
  BY <1>1
<1>6. u \in Loose
  BY <1>1, <1>2, <1>5 DEF Turned, Loose, sp
<1> QED BY <1>3, <1>4, <1>6 DEF Turned, TurnsInto

\* What makes a stream the one in which a cell has turned.
LEMMA IsTurned ==
    ASSUME NEW st \in Loose, NEW i \in Cells, NEW c \in LooseCell, NEW h, h \in BOOLEAN,
           NEW r, TurnsInto(st, i, c, h, r)
    PROVE  r = Turned(st, i, c, h)
<1> DEFINE u == Turned(st, i, c, h)
<1>1. TurnsInto(st, i, c, h, u)
  BY TurnedLoose
<1> HIDE DEF u
<1>2. u \in Loose /\ r \in Loose /\ u.cell = r.cell /\ u.used = r.used /\ u.head = r.head /\ u.has_shift = r.has_shift
  BY <1>1 DEF TurnsInto
<1>3. \A s \in Seqs, p \in Positions : r.seq_pos[s][p] = u.seq_pos[s][p]
  BY <1>1 DEF TurnsInto
<1> QED BY <1>2, <1>3, SameStream DEF u

LEMMA EmptyIs == EmptyCell \in Cell /\ EmptyCell \in LooseCell /\ EmptyCell.seqs = {} /\ EmptyCell.pos = -1 /\ EmptyCell.shift = 0
BY DEF EmptyCell, Cell, LooseCell

\* rm of a cell.
LEMMA RmIs ==
    ASSUME NEW st \in Loose, NEW i \in Cells
    PROVE  Rm(st, i) = Turned(st, i, EmptyCell, st.has_shift)
<1> DEFINE t == SeqPosRm(st, i)
           r == [t EXCEPT !.cell[i] = EmptyCell, !.used = @ \ {i}]
<1>1. /\ t = [st EXCEPT !.seq_pos = [s \in Seqs |-> [p \in Positions |-> st.seq_pos[s][p] - One(st.cell[i], s, p)]]]
      /\ Rm(st, i) = r
  BY SeqPosRmIs DEF Rm, Free
<1>2. /\ st.cell \in [Cells -> LooseCell] /\ st.used \subseteq Cells /\ st.head \in 0 .. NumCells
      /\ st.seq_pos \in [Seqs -> [Positions -> Int]] /\ st.has_shift \in BOOLEAN
  BY DEF Loose
<1> DEFINE sp == [s \in Seqs |-> [p \in Positions |-> st.seq_pos[s][p] - One(st.cell[i], s, p)]]
<1>3. sp \in [Seqs -> [Positions -> Int]] /\ \A s \in Seqs, p \in Positions : sp[s][p] = st.seq_pos[s][p] - One(st.cell[i], s, p)
  BY <1>2 DEF One
<1> HIDE DEF sp
<1>4. t \in Loose /\ t.cell = st.cell /\ t.used = st.used /\ t.has_shift = st.has_shift /\ t.head = st.head /\ t.seq_pos = sp
  BY <1>1, <1>3 DEF Loose, sp
<1> HIDE DEF t
<1>5. /\ r \in Loose /\ r.cell = [st.cell EXCEPT ![i] = EmptyCell] /\ r.used = st.used \ {i}
      /\ r.has_shift = st.has_shift /\ r.head = st.head /\ r.seq_pos = sp
  BY <1>4, EmptyIs DEF Loose
<1> HIDE DEF r
<1>6. ASSUME NEW s \in Seqs, NEW p \in Positions
      PROVE  r.seq_pos[s][p] = st.seq_pos[s][p] - One(st.cell[i], s, p) + One(EmptyCell, s, p)
  <2>1. One(EmptyCell, s, p) = 0 /\ st.seq_pos[s][p] \in Int /\ One(st.cell[i], s, p) \in Int
    BY <1>2, EmptyIs DEF One
  <2> QED BY <1>3, <1>5, <2>1
<1>7. TurnsInto(st, i, EmptyCell, st.has_shift, r)
  BY <1>2, <1>5, <1>6, EmptyIs DEF TurnsInto
<1>8. r = Turned(st, i, EmptyCell, st.has_shift)
  BY <1>2, <1>7, EmptyIs, IsTurned
<1> QED BY <1>1, <1>8

\* seq_rm of one of its sequences.
LEMMA CellSeqRmIs ==
    ASSUME NEW st \in Loose, NEW i \in st.used, NEW s \in st.cell[i].seqs, NEW a, a = st.cell[i],
           NEW c, c = IF a.seqs = {s} THEN EmptyCell ELSE [a EXCEPT !.seqs = @ \ {s}],
           a.pos \in Positions
    PROVE  CellSeqRm(st, i, s) = Turned(st, i, c, st.has_shift)
<1> DEFINE t == [st EXCEPT !.cell[i].seqs = @ \ {s}, !.seq_pos[s][st.cell[i].pos] = @ - 1]
           r == [t EXCEPT !.cell[i] = EmptyCell, !.used = @ \ {i}]
<1>1. CellSeqRm(st, i, s) = IF t.cell[i].seqs = {} THEN r ELSE t
  BY DEF CellSeqRm, Free
<1>2. /\ st.cell \in [Cells -> LooseCell] /\ st.used \subseteq Cells /\ st.head \in 0 .. NumCells
      /\ st.seq_pos \in [Seqs -> [Positions -> Int]] /\ st.has_shift \in BOOLEAN
  BY DEF Loose
<1>3. s \in Seqs /\ i \in Cells /\ a \in LooseCell
  BY <1>2 DEF LooseCell
<1> DEFINE b  == [a EXCEPT !.seqs = @ \ {s}]
           sp == [st.seq_pos EXCEPT ![s][a.pos] = @ - 1]
<1>4. b \in LooseCell /\ b.seqs = a.seqs \ {s} /\ b.pos = a.pos
  BY <1>3 DEF LooseCell
<1>5. sp \in [Seqs -> [Positions -> Int]]
  BY <1>2, <1>3
<1>6. ASSUME NEW q \in Seqs, NEW p \in Positions
      PROVE  sp[q][p] = st.seq_pos[q][p] - (IF q = s /\ p = a.pos THEN 1 ELSE 0)
  <2>1. st.seq_pos[q] \in [Positions -> Int] /\ st.seq_pos[q][p] \in Int
    BY <1>2
  <2> QED BY <1>2, <1>3, <2>1
<1>7. /\ t.cell = [st.cell EXCEPT ![i] = b] /\ t.used = st.used /\ t.has_shift = st.has_shift /\ t.head = st.head
      /\ t.seq_pos = sp /\ t \in Loose
  <2>1. t = [st EXCEPT !.cell[i].seqs = @ \ {s}, !.seq_pos[s][a.pos] = @ - 1]
    OBVIOUS
  <2> HIDE DEF t
  <2>2. t.cell = [st.cell EXCEPT ![i].seqs = @ \ {s}] /\ t.seq_pos = sp
    BY <2>1 DEF Loose
  <2>3. [st.cell EXCEPT ![i].seqs = @ \ {s}] = [st.cell EXCEPT ![i] = b]
    BY <1>2
  <2>4. [st.cell EXCEPT ![i] = b] \in [Cells -> LooseCell]
    BY <1>2, <1>4
  <2> HIDE DEF b, sp
  <2> QED BY <1>5, <2>1, <2>2, <2>3, <2>4 DEF Loose
<1> HIDE DEF t, b, sp
<1>8. t.cell[i] = b
  BY <1>2, <1>7
<1>9. /\ r \in Loose /\ r.cell = [st.cell EXCEPT ![i] = EmptyCell] /\ r.used = st.used \ {i}
      /\ r.has_shift = st.has_shift /\ r.head = st.head /\ r.seq_pos = sp
  <2>1. [t.cell EXCEPT ![i] = EmptyCell] = [st.cell EXCEPT ![i] = EmptyCell]
    BY <1>2, <1>7
  <2> QED BY <1>7, <2>1, EmptyIs DEF Loose
<1> HIDE DEF r
<1>10. c \in LooseCell
  BY <1>4, EmptyIs DEF b
<1>11. ASSUME NEW q \in Seqs, NEW p \in Positions
       PROVE  sp[q][p] = st.seq_pos[q][p] - One(a, q, p) + One(c, q, p)
  <2>1. st.seq_pos[q][p] \in Int
    BY <1>2
  <2>2. CASE a.seqs = {s}
    <3>1. One(c, q, p) = 0 /\ One(a, q, p) = IF q = s /\ p = a.pos THEN 1 ELSE 0
      BY <2>2, EmptyIs DEF One
    <3> QED BY <1>6, <2>1, <3>1
  <2>3. CASE a.seqs # {s}
    <3>1. One(a, q, p) - One(c, q, p) = (IF q = s /\ p = a.pos THEN 1 ELSE 0) /\ One(a, q, p) \in Int /\ One(c, q, p) \in Int
      BY <1>4, <2>3 DEF One, b
    <3> QED BY <1>6, <2>1, <3>1
  <2> QED BY <2>2, <2>3
<1>12. CASE a.seqs = {s}
  <2>1. c = EmptyCell /\ t.cell[i].seqs = {}
    BY <1>4, <1>8, <1>12
  <2>2. TurnsInto(st, i, c, st.has_shift, r)
    BY <1>9, <1>11, <2>1, EmptyIs DEF TurnsInto
  <2>3. r = Turned(st, i, c, st.has_shift)
    BY <1>2, <1>3, <1>10, <2>2, IsTurned
  <2> QED BY <1>1, <2>1, <2>3
<1>13. CASE a.seqs # {s}
  <2>1. c = b /\ t.cell[i].seqs # {} /\ c.pos # -1
    BY <1>4, <1>8, <1>13 DEF b, Positions
  <2>2. st.used \cup {i} = st.used
    OBVIOUS
  <2>3. TurnsInto(st, i, c, st.has_shift, t)
    BY <1>7, <1>11, <2>1, <2>2 DEF TurnsInto
  <2>4. t = Turned(st, i, c, st.has_shift)
    BY <1>2, <1>3, <1>10, <2>3, IsTurned
  <2> QED BY <1>1, <2>1, <2>4
<1> QED BY <1>12, <1>13

LEMMA LooseParts ==
    ASSUME NEW st \in Loose
    PROVE  /\ st.cell \in [Cells -> LooseCell] /\ st.used \subseteq Cells /\ st.head \in 0 .. NumCells
           /\ st.seq_pos \in [Seqs -> [Positions -> Int]] /\ st.has_shift \in BOOLEAN
           /\ \A s \in Seqs, p \in Positions : st.seq_pos[s][p] \in Int
BY DEF Loose

LEMMA OneIs == \A c, s, p : One(c, s, p) \in {0, 1}
BY DEF One

\* seq_add of a sequence that a used cell is not in.
LEMMA CellSeqAddIs ==
    ASSUME NEW st \in Loose, NEW i \in st.used, NEW a, a = st.cell[i], NEW s \in Seqs, s \notin a.seqs, a.pos # -1
    PROVE  CellSeqAdd(st, i, s) = Turned(st, i, [a EXCEPT !.seqs = @ \cup {s}], st.has_shift)
<1> DEFINE b  == [a EXCEPT !.seqs = @ \cup {s}]
           sp == [st.seq_pos EXCEPT ![s][a.pos] = @ + 1]
           r  == CellSeqAdd(st, i, s)
<1>1. /\ st.cell \in [Cells -> LooseCell] /\ st.used \subseteq Cells /\ st.head \in 0 .. NumCells
      /\ st.seq_pos \in [Seqs -> [Positions -> Int]] /\ st.has_shift \in BOOLEAN
  BY LooseParts
<1>2. i \in Cells /\ a \in LooseCell
  BY <1>1
<1>3. b \in LooseCell /\ b.seqs = a.seqs \cup {s} /\ b.pos = a.pos
  BY <1>2 DEF LooseCell
<1>4. ASSUME NEW q \in Seqs, NEW p \in Positions
      PROVE  sp[q][p] = st.seq_pos[q][p] + (IF q = s /\ p = a.pos THEN 1 ELSE 0) /\ sp[q] = [x \in Positions |-> sp[q][x]]
  <2>1. st.seq_pos[q] \in [Positions -> Int] /\ st.seq_pos[q][p] \in Int
    BY <1>1
  <2> QED BY <1>1, <2>1
<1>5. sp \in [Seqs -> [Positions -> Int]]
  <2>1. \A q \in Seqs : sp[q] = [x \in Positions |-> sp[q][x]]
    <3> TAKE q \in Seqs
    <3>1. 0 \in Positions
      BY SizesAre DEF Positions
    <3> QED BY <1>4, <3>1
  <2>2. \A q \in Seqs, p \in Positions : sp[q][p] \in Int
    BY <1>1, <1>4
  <2>3. sp = [q \in Seqs |-> sp[q]]
    BY <1>1
  <2> HIDE DEF sp
  <2> QED BY <2>1, <2>2, <2>3
<1>6. r \in Loose /\ r.cell = [st.cell EXCEPT ![i] = b] /\ r.used = st.used /\ r.has_shift = st.has_shift /\ r.head = st.head /\ r.seq_pos = sp
  <2>1. r = [st EXCEPT !.cell[i].seqs = @ \cup {s}, !.seq_pos[s][a.pos] = @ + 1]
    BY DEF CellSeqAdd
  <2> HIDE DEF r
  <2>2. r.cell = [st.cell EXCEPT ![i].seqs = @ \cup {s}] /\ r.seq_pos = sp
    BY <2>1 DEF Loose
  <2>3. [st.cell EXCEPT ![i].seqs = @ \cup {s}] = [st.cell EXCEPT ![i] = b]
    BY <1>1
  <2>4. [st.cell EXCEPT ![i] = b] \in [Cells -> LooseCell]
    BY <1>1, <1>3
  <2> HIDE DEF b, sp
  <2> QED BY <1>5, <2>1, <2>2, <2>3, <2>4 DEF Loose
<1> HIDE DEF sp, r
<1>7. ASSUME NEW q \in Seqs, NEW p \in Positions
      PROVE  sp[q][p] = st.seq_pos[q][p] - One(a, q, p) + One(b, q, p)
  <2>1. st.seq_pos[q][p] \in Int
    BY <1>1
  <2>2. One(b, q, p) - One(a, q, p) = (IF q = s /\ p = a.pos THEN 1 ELSE 0) /\ One(a, q, p) \in Int /\ One(b, q, p) \in Int
    BY <1>3 DEF One
  <2>3. sp[q][p] = st.seq_pos[q][p] + (IF q = s /\ p = a.pos THEN 1 ELSE 0)
    BY <1>4
  <2> HIDE DEF b
  <2> QED BY <2>1, <2>2, <2>3
<1> HIDE DEF b
<1>8. st.used \cup {i} = st.used
  OBVIOUS
<1>9. TurnsInto(st, i, b, st.has_shift, r)
  BY <1>3, <1>6, <1>7, <1>8 DEF TurnsInto
<1>10. r = Turned(st, i, b, st.has_shift)
  BY <1>1, <1>2, <1>3, <1>9, IsTurned
<1> QED BY <1>10 DEF b, r

\* pos_set of a cell that is in no sequence.
LEMMA PosSetIs ==
    ASSUME NEW st \in Loose, NEW i \in Cells, NEW a, a = st.cell[i], a.seqs = {}, NEW p \in Int, p # -1
    PROVE  PosSet(st, i, p) = Turned(st, i, [a EXCEPT !.pos = p], st.has_shift)
<1> DEFINE b  == [a EXCEPT !.pos = p]
           r  == PosSet(st, i, p)
<1>1. /\ st.cell \in [Cells -> LooseCell] /\ st.used \subseteq Cells /\ st.head \in 0 .. NumCells
      /\ st.seq_pos \in [Seqs -> [Positions -> Int]] /\ st.has_shift \in BOOLEAN
  BY LooseParts
<1>2. b \in LooseCell /\ b.seqs = {} /\ b.pos = p
  BY <1>1 DEF LooseCell
<1>3. r \in Loose /\ r.cell = [st.cell EXCEPT ![i] = b] /\ r.used = st.used \cup {i} /\ r.has_shift = st.has_shift /\ r.head = st.head /\ r.seq_pos = st.seq_pos
  <2>1. r = [st EXCEPT !.cell[i].pos = p, !.used = @ \cup {i}]
    BY DEF PosSet
  <2> HIDE DEF r
  <2>2. r.cell = [st.cell EXCEPT ![i].pos = p] /\ r.used = st.used \cup {i}
    BY <2>1 DEF Loose
  <2>3. [st.cell EXCEPT ![i].pos = p] = [st.cell EXCEPT ![i] = b]
    BY <1>1
  <2>4. [st.cell EXCEPT ![i] = b] \in [Cells -> LooseCell]
    BY <1>1, <1>2
  <2> HIDE DEF b
  <2> QED BY <2>1, <2>2, <2>3, <2>4 DEF Loose
<1> HIDE DEF r
<1>4. ASSUME NEW q \in Seqs, NEW x \in Positions
      PROVE  st.seq_pos[q][x] = st.seq_pos[q][x] - One(a, q, x) + One(b, q, x)
  <2>1. st.seq_pos[q][x] \in Int
    BY <1>1
  <2>2. One(b, q, x) = 0 /\ One(a, q, x) = 0
    BY <1>2 DEF One
  <2> HIDE DEF b
  <2> QED BY <2>1, <2>2
<1> HIDE DEF b
<1>5. TurnsInto(st, i, b, st.has_shift, r)
  BY <1>2, <1>3, <1>4 DEF TurnsInto
<1>6. r = Turned(st, i, b, st.has_shift)
  BY <1>1, <1>2, <1>5, IsTurned
<1> QED BY <1>6 DEF b, r

\* seq_keep of one of the sequences of a used cell.
LEMMA CellSeqKeepIs ==
    ASSUME NEW st \in Loose, NEW i \in st.used, NEW a, a = st.cell[i], NEW s \in a.seqs, a.pos # -1
    PROVE  CellSeqKeep(st, i, s) = Turned(st, i, [a EXCEPT !.seqs = {s}], st.has_shift)
<1> DEFINE b  == [a EXCEPT !.seqs = {s}]
           t  == SeqPosRm(st, i)
           u  == [t EXCEPT !.cell[i].seqs = {s}]
           r  == SeqPosAdd(u, i)
           sp == [q \in Seqs |-> [p \in Positions |-> st.seq_pos[q][p] - One(a, q, p)]]
           sq == [q \in Seqs |-> [p \in Positions |-> sp[q][p] + One(b, q, p)]]
<1>0. CellSeqKeep(st, i, s) = r
  BY DEF CellSeqKeep
<1>1. /\ st.cell \in [Cells -> LooseCell] /\ st.used \subseteq Cells /\ st.head \in 0 .. NumCells
      /\ st.seq_pos \in [Seqs -> [Positions -> Int]] /\ st.has_shift \in BOOLEAN
  BY LooseParts
<1>2. i \in Cells /\ a \in LooseCell /\ s \in Seqs
  BY <1>1 DEF LooseCell
<1>3. b \in LooseCell /\ b.pos = a.pos
  BY <1>2 DEF LooseCell
<1>4. sp \in [Seqs -> [Positions -> Int]] /\ sq \in [Seqs -> [Positions -> Int]]
  <2>1. \A q \in Seqs, p \in Positions : st.seq_pos[q][p] - One(a, q, p) \in Int
    BY <1>1 DEF One
  <2>2. sp \in [Seqs -> [Positions -> Int]]
    BY <2>1
  <2> HIDE DEF sp
  <2>3. \A q \in Seqs, p \in Positions : sp[q][p] + One(b, q, p) \in Int
    BY <2>2 DEF One
  <2> QED BY <2>2, <2>3
<1>5. t = [st EXCEPT !.seq_pos = sp]
  BY <1>2, SeqPosRmIs
<1> HIDE DEF t
<1>6. ASSUME NEW q \in Seqs, NEW p \in Positions
      PROVE  sq[q][p] = st.seq_pos[q][p] - One(a, q, p) + One(b, q, p)
  OBVIOUS
<1> HIDE DEF sp
<1>7. u \in Loose /\ u.cell = [st.cell EXCEPT ![i] = b] /\ u.used = st.used /\ u.has_shift = st.has_shift /\ u.head = st.head /\ u.seq_pos = sp
  <2>1. t \in Loose /\ t.cell = st.cell /\ t.used = st.used /\ t.has_shift = st.has_shift /\ t.head = st.head /\ t.seq_pos = sp
    BY <1>4, <1>5 DEF Loose
  <2>2. [st.cell EXCEPT ![i].seqs = {s}] = [st.cell EXCEPT ![i] = b]
    BY <1>1
  <2>3. [st.cell EXCEPT ![i] = b] \in [Cells -> LooseCell]
    BY <1>1, <1>3
  <2> HIDE DEF b
  <2> QED BY <2>1, <2>2, <2>3 DEF Loose
<1> HIDE DEF u
<1>8. r = [u EXCEPT !.seq_pos = sq]
  <2>1. u.cell[i] = b
    BY <1>1, <1>2, <1>7
  <2>2. r = [u EXCEPT !.seq_pos = [q \in Seqs |-> [p \in Positions |-> u.seq_pos[q][p] + One(u.cell[i], q, p)]]]
    BY <1>2, <1>7, SeqPosAddIs
  <2> HIDE DEF r, b
  <2> QED BY <1>7, <2>1, <2>2
<1> HIDE DEF r
<1>9. r \in Loose /\ r.cell = u.cell /\ r.used = u.used /\ r.has_shift = u.has_shift /\ r.head = u.head /\ r.seq_pos = sq
  <2> HIDE DEF sq
  <2> QED BY <1>4, <1>7, <1>8 DEF Loose
<1> HIDE DEF sq, b
<1>10. st.used \cup {i} = st.used
  OBVIOUS
<1>11. TurnsInto(st, i, b, st.has_shift, r)
  BY <1>3, <1>6, <1>7, <1>9, <1>10 DEF TurnsInto
<1>12. r = Turned(st, i, b, st.has_shift)
  BY <1>1, <1>2, <1>3, <1>11, IsTurned
<1> QED BY <1>0, <1>12 DEF b

\* The parts of a stream with one count less, or one more.
LEMMA SeqPosRmParts ==
    ASSUME NEW st \in Loose, NEW i \in Cells, NEW t, t = SeqPosRm(st, i)
    PROVE  /\ t \in Loose /\ t.cell = st.cell /\ t.used = st.used /\ t.has_shift = st.has_shift /\ t.head = st.head
           /\ \A s \in Seqs, p \in Positions : t.seq_pos[s][p] = st.seq_pos[s][p] - One(st.cell[i], s, p)
<1> DEFINE sp == [s \in Seqs |-> [p \in Positions |-> st.seq_pos[s][p] - One(st.cell[i], s, p)]]
<1>1. \A s \in Seqs, p \in Positions : st.seq_pos[s][p] - One(st.cell[i], s, p) \in Int
  <2> TAKE s \in Seqs, p \in Positions
  <2>1. st.seq_pos[s][p] \in Int /\ One(st.cell[i], s, p) \in Int
    BY LooseParts, OneIs
  <2> QED BY <2>1
<1>2. sp \in [Seqs -> [Positions -> Int]]
  BY <1>1
<1>3. \A s \in Seqs, p \in Positions : sp[s][p] = st.seq_pos[s][p] - One(st.cell[i], s, p)
  OBVIOUS
<1>4. t = [st EXCEPT !.seq_pos = sp]
  BY SeqPosRmIs
<1> HIDE DEF sp
<1> QED BY <1>2, <1>3, <1>4 DEF Loose

MoreAt(st, i, t) ==
    /\ t \in Loose /\ t.cell = st.cell /\ t.used = st.used /\ t.has_shift = st.has_shift /\ t.head = st.head
    /\ \A s \in Seqs, p \in Positions : t.seq_pos[s][p] = st.seq_pos[s][p] + One(st.cell[i], s, p)

LEMMA SeqPosAddParts ==
    ASSUME NEW st \in Loose, NEW i \in Cells
    PROVE  MoreAt(st, i, SeqPosAdd(st, i))
<1> DEFINE sp == [s \in Seqs |-> [p \in Positions |-> st.seq_pos[s][p] + One(st.cell[i], s, p)]]
<1>1. \A s \in Seqs, p \in Positions : st.seq_pos[s][p] + One(st.cell[i], s, p) \in Int
  <2> TAKE s \in Seqs, p \in Positions
  <2>1. st.seq_pos[s][p] \in Int /\ One(st.cell[i], s, p) \in Int
    BY LooseParts, OneIs
  <2> QED BY <2>1
<1>2. sp \in [Seqs -> [Positions -> Int]]
  BY <1>1
<1>3. \A s \in Seqs, p \in Positions : sp[s][p] = st.seq_pos[s][p] + One(st.cell[i], s, p)
  OBVIOUS
<1>4. SeqPosAdd(st, i) = [st EXCEPT !.seq_pos = sp]
  BY SeqPosAddIs
<1> HIDE DEF sp
<1> QED BY <1>2, <1>3, <1>4 DEF Loose, MoreAt

\* The counts less those of a cell, the cell changed, and one more for what it is now.
LEMMA CountAgain ==
    ASSUME NEW st \in Loose, NEW i \in st.used, NEW c \in LooseCell, c.pos # -1, NEW t, t = SeqPosRm(st, i),
           NEW u, u = [t EXCEPT !.cell[i] = c, !.has_shift = TRUE]
    PROVE  SeqPosAdd(u, i) = Turned(st, i, c, TRUE)
<1> DEFINE v == SeqPosAdd(u, i)
<1>1. /\ st.cell \in [Cells -> LooseCell] /\ st.used \subseteq Cells /\ st.head \in 0 .. NumCells
      /\ st.seq_pos \in [Seqs -> [Positions -> Int]] /\ st.has_shift \in BOOLEAN
  BY LooseParts
<1>2. i \in Cells
  BY <1>1
<1>3. /\ t \in Loose /\ t.cell = st.cell /\ t.used = st.used /\ t.has_shift = st.has_shift /\ t.head = st.head
      /\ \A s \in Seqs, p \in Positions : t.seq_pos[s][p] = st.seq_pos[s][p] - One(st.cell[i], s, p)
  BY <1>2, SeqPosRmParts
<1>4. [st.cell EXCEPT ![i] = c] \in [Cells -> LooseCell] /\ [st.cell EXCEPT ![i] = c][i] = c
  BY <1>1, <1>2
<1>5. u = [t EXCEPT !.cell = [st.cell EXCEPT ![i] = c], !.has_shift = TRUE]
  BY <1>3
<1>6. u \in Loose /\ u.cell = [st.cell EXCEPT ![i] = c] /\ u.used = st.used /\ u.has_shift = TRUE /\ u.head = st.head /\ u.seq_pos = t.seq_pos
  BY <1>3, <1>4, <1>5 DEF Loose
<1>7. u.cell[i] = c
  BY <1>4, <1>6
<1>8. /\ v \in Loose /\ v.cell = u.cell /\ v.used = u.used /\ v.has_shift = u.has_shift /\ v.head = u.head
      /\ \A s \in Seqs, p \in Positions : v.seq_pos[s][p] = u.seq_pos[s][p] + One(u.cell[i], s, p)
  <2>1. MoreAt(u, i, v)
    BY <1>2, <1>6, SeqPosAddParts, Zenon
  <2> HIDE DEF v
  <2> QED BY <2>1 DEF MoreAt
<1> HIDE DEF v
<1>9. ASSUME NEW q \in Seqs, NEW p \in Positions
      PROVE  v.seq_pos[q][p] = st.seq_pos[q][p] - One(st.cell[i], q, p) + One(c, q, p)
  BY <1>3, <1>6, <1>7, <1>8
<1>10. st.used \cup {i} = st.used
  OBVIOUS
<1>11. TurnsInto(st, i, c, TRUE, v)
  BY <1>6, <1>8, <1>9, <1>10 DEF TurnsInto
<1> DEFINE h == TRUE
<1>12. h \in BOOLEAN /\ TurnsInto(st, i, c, h, v)
  BY <1>11
<1> HIDE DEF h
<1>13. v = Turned(st, i, c, h)
  BY <1>2, <1>12, IsTurned
<1> QED BY <1>13 DEF v, h

\* What a shift makes of a cell, and a division.
Moved(a, d)  == IF a.pos + d < 0 THEN EmptyCell ELSE [pos |-> a.pos + d, shift |-> a.shift + d, seqs |-> a.seqs]
Halved(a, d) == [pos |-> a.pos \div d, shift |-> a.shift + a.pos - (a.pos \div d), seqs |-> a.seqs]

\* pos_add of a used cell, which is freed when its position falls below 0.
LEMMA PosAddIs ==
    ASSUME NEW st \in Loose, NEW i \in st.used, NEW d \in Int
    PROVE  PosAdd(st, i, d) = Turned(st, i, Moved(st.cell[i], d), TRUE)
<1> DEFINE a == st.cell[i]
           b == [pos |-> a.pos + d, shift |-> a.shift + d, seqs |-> a.seqs]
           t == SeqPosRm(st, i)
           u == [t EXCEPT !.cell[i] = b, !.has_shift = TRUE]
           r == [u EXCEPT !.cell[i] = EmptyCell, !.used = @ \ {i}]
<1>0. PosAdd(st, i, d) = IF a.pos + d < 0 THEN r ELSE SeqPosAdd(u, i)
  BY DEF PosAdd, Free
<1>1. /\ st.cell \in [Cells -> LooseCell] /\ st.used \subseteq Cells /\ st.head \in 0 .. NumCells
      /\ st.seq_pos \in [Seqs -> [Positions -> Int]] /\ st.has_shift \in BOOLEAN
  BY LooseParts
<1>2. i \in Cells /\ a \in LooseCell /\ a.pos \in Int /\ a.shift \in Int /\ a.seqs \subseteq Seqs
  BY <1>1 DEF LooseCell
<1>3. b \in LooseCell /\ b.pos = a.pos + d
  BY <1>2 DEF LooseCell
<1>4. /\ t \in Loose /\ t.cell = st.cell /\ t.used = st.used /\ t.has_shift = st.has_shift /\ t.head = st.head
      /\ \A s \in Seqs, p \in Positions : t.seq_pos[s][p] = st.seq_pos[s][p] - One(st.cell[i], s, p)
  BY <1>2, SeqPosRmParts
<1>5. CASE ~(a.pos + d < 0)
  <2>1. b.pos # -1 /\ Moved(a, d) = b /\ PosAdd(st, i, d) = SeqPosAdd(u, i)
    BY <1>0, <1>2, <1>3, <1>5 DEF Moved
  <2> HIDE DEF b
  <2>2. SeqPosAdd(u, i) = Turned(st, i, b, TRUE)
    BY <1>3, <2>1, CountAgain, ZenonT(30)
  <2> QED BY <2>1, <2>2
<1>6. CASE a.pos + d < 0
  <2>1. Moved(a, d) = EmptyCell /\ PosAdd(st, i, d) = r
    BY <1>0, <1>6 DEF Moved
  <2>2. r \in Loose /\ r.cell = [st.cell EXCEPT ![i] = EmptyCell] /\ r.used = st.used \ {i} /\ r.has_shift = TRUE /\ r.head = st.head /\ r.seq_pos = t.seq_pos
    <3> HIDE DEF t, b
    <3>1. [[st.cell EXCEPT ![i] = b] EXCEPT ![i] = EmptyCell] = [st.cell EXCEPT ![i] = EmptyCell]
      BY <1>1
    <3>2. [st.cell EXCEPT ![i] = EmptyCell] \in [Cells -> LooseCell]
      BY <1>1, EmptyIs
    <3>3. u = [t EXCEPT !.cell = [st.cell EXCEPT ![i] = b], !.has_shift = TRUE]
      BY <1>4
    <3>4. [st.cell EXCEPT ![i] = b] \in [Cells -> LooseCell]
      BY <1>1, <1>3
    <3>5. u \in Loose /\ u.cell = [st.cell EXCEPT ![i] = b] /\ u.used = st.used /\ u.has_shift = TRUE /\ u.head = st.head /\ u.seq_pos = t.seq_pos
      BY <1>4, <3>3, <3>4 DEF Loose
    <3> HIDE DEF u
    <3>6. r = [u EXCEPT !.cell = [st.cell EXCEPT ![i] = EmptyCell], !.used = st.used \ {i}]
      BY <3>1, <3>5
    <3> QED BY <3>2, <3>5, <3>6 DEF Loose
  <2> HIDE DEF r, t
  <2>3. ASSUME NEW q \in Seqs, NEW p \in Positions
        PROVE  r.seq_pos[q][p] = st.seq_pos[q][p] - One(a, q, p) + One(EmptyCell, q, p)
    <3>1. One(EmptyCell, q, p) = 0 /\ st.seq_pos[q][p] \in Int /\ One(a, q, p) \in Int
      BY <1>1, EmptyIs DEF One
    <3> QED BY <1>4, <2>2, <3>1
  <2> DEFINE h == TRUE
  <2>4. h \in BOOLEAN /\ TurnsInto(st, i, EmptyCell, h, r)
    BY <2>2, <2>3, EmptyIs DEF TurnsInto
  <2> HIDE DEF h
  <2>5. r = Turned(st, i, EmptyCell, h)
    BY <1>2, <2>4, EmptyIs, IsTurned
  <2> QED BY <2>1, <2>5 DEF h
<1> QED BY <1>5, <1>6

\* A position divided is between 0 and itself.
LEMMA Divided ==
    ASSUME NEW p \in Positions, NEW d \in Nat, d >= 1
    PROVE  p \div d \in Positions
<1>1. p \in Nat /\ p <= MaxPos /\ MaxPos \in Nat
  BY SizesAre DEF Positions
<1>2. p \div d \in Int /\ 0 <= p \div d /\ p \div d <= p
  BY <1>1, SMTT(30)
<1> QED BY <1>1, <1>2 DEF Positions

\* pos_div of a used cell.
LEMMA PosDivIs ==
    ASSUME NEW st \in Loose, NEW i \in st.used, st.cell[i].pos \in Positions, NEW d \in Nat, d >= 1
    PROVE  PosDiv(st, i, d) = Turned(st, i, Halved(st.cell[i], d), TRUE)
<1> DEFINE a == st.cell[i]
           n == a.pos \div d
           b == [pos |-> n, shift |-> a.shift + a.pos - n, seqs |-> a.seqs]
           t == SeqPosRm(st, i)
           u == [t EXCEPT !.cell[i] = b, !.has_shift = TRUE]
<1>0. PosDiv(st, i, d) = SeqPosAdd(u, i) /\ Halved(a, d) = b
  BY DEF PosDiv, Halved
<1>1. n \in Int /\ n # -1
  <2>1. n \in Positions
    BY Divided
  <2> HIDE DEF n
  <2> QED BY <2>1 DEF Positions
<1> HIDE DEF n
<1>2. b \in LooseCell /\ b.pos # -1
  BY <1>1, LooseParts DEF LooseCell
<1> HIDE DEF b
<1>3. SeqPosAdd(u, i) = Turned(st, i, b, TRUE)
  BY <1>2, CountAgain, ZenonT(30)
<1> QED BY <1>0, <1>3

-----------------------------------------------------------------------------
(* Many cells, one after the other.                                        *)

\* The cells T of st are those of c, and the rest as it was.
Put(st, c, T) == [i \in Cells |-> IF i \in T THEN c[i] ELSE st.cell[i]]
Changed(st, c, up, T, t) ==
    /\ Fit(t) /\ t.head = st.head /\ t.has_shift = (st.has_shift \/ T \cap up # {})
    /\ t.cell = Put(st, c, T)

\* Cells that st can have in the places S, with shifts only if there may be some.
Sound(st, c, up, S) ==
    /\ c \in [Cells -> Cell]
    /\ \A i \in S : /\ c[i].pos = -1 => c[i] = EmptyCell
                    /\ ~st.has_shift /\ i \notin up => c[i].shift = 0

\* F puts c[i] in place i of a stream whose cell i is that of st.
Puts(F, st, c, up, S) ==
    \A i \in S, t \in StreamType :
        Fit(t) /\ t.cell[i] = st.cell[i] /\ (st.has_shift => t.has_shift) => F[<<i, t>>] = Turned(t, i, c[i], t.has_shift \/ i \in up)

LEMMA ChangedNone ==
    ASSUME NEW st, Fit(st), NEW c, NEW up
    PROVE  Changed(st, c, up, {}, st)
<1>1. st.cell = Put(st, c, {})
  BY FitIsLoose DEF Put
<1>2. st.has_shift = (st.has_shift \/ {} \cap up # {})
  BY FitIsLoose
<1> QED BY <1>1, <1>2 DEF Changed

\* One more cell.
LEMMA ChangedMore ==
    ASSUME NEW st, Fit(st), NEW S \in SUBSET Cells, NEW c, NEW up, Sound(st, c, up, S),
           NEW T \in SUBSET S, NEW x \in T, NEW v, Changed(st, c, up, T \ {x}, v),
           NEW w, w = Turned(v, x, c[x], v.has_shift \/ x \in up)
    PROVE  Changed(st, c, up, T, w)
<1>1. /\ x \in Cells /\ x \in S /\ c[x] \in Cell /\ Fit(v) /\ v.head = st.head
      /\ v.has_shift = (st.has_shift \/ (T \ {x}) \cap up # {})
      /\ v.cell = Put(st, c, T \ {x})
  BY DEF Changed, Sound
<1>2. st.has_shift \in BOOLEAN /\ v.has_shift \in BOOLEAN
  BY <1>1, FitIsLoose
<1>3. c[x].pos = -1 => c[x] = EmptyCell
  BY <1>1, <1>2 DEF Sound
<1>4. ~(v.has_shift \/ x \in up) => c[x].shift = 0
  BY <1>1, <1>2 DEF Sound
<1>5. (v.has_shift \/ x \in up) = (st.has_shift \/ T \cap up # {})
  BY <1>1, <1>2
<1> DEFINE h == v.has_shift \/ x \in up
<1>6. h \in BOOLEAN /\ (v.has_shift => h) /\ (~h => c[x].shift = 0)
  BY <1>2, <1>4
<1> HIDE DEF h
<1>7. TurnsWell(v, x, c[x], h, Turned(v, x, c[x], h))
  BY <1>1, <1>3, <1>6, TurnedFit
<1>8. [v.cell EXCEPT ![x] = c[x]] = Put(st, c, T)
  <2>1. /\ v.cell = [i \in Cells |-> IF i \in T \ {x} THEN c[i] ELSE st.cell[i]]
        /\ Put(st, c, T) = [i \in Cells |-> IF i \in T THEN c[i] ELSE st.cell[i]]
    BY <1>1 DEF Put
  <2> DEFINE l == [v.cell EXCEPT ![x] = c[x]]
             r == [i \in Cells |-> IF i \in T THEN c[i] ELSE st.cell[i]]
  <2>2. l = [i \in Cells |-> l[i]]
    BY <2>1
  <2>3. \A i \in Cells : l[i] = r[i]
    BY <1>1, <2>1
  <2> HIDE DEF l
  <2>4. l = r
    BY <2>2, <2>3
  <2> QED BY <2>1, <2>4 DEF l
<1>9. Turned(v, x, c[x], h) = w
  BY DEF h
<1>10. Fit(w) /\ w.cell = Put(st, c, T) /\ w.head = st.head /\ w.has_shift = h
  BY <1>1, <1>7, <1>8, <1>9 DEF TurnsWell
<1>11. w.has_shift = (st.has_shift \/ T \cap up # {})
  BY <1>5, <1>10 DEF h
<1>12. Changed(st, c, up, T, w)
  BY <1>10, <1>11 DEF Changed
<1> QED BY <1>12

\* Whatever puts cells in their places does it to all of them, in any order.
Folded(st, c, up, S, ch, F) ==
    /\ \E h : FoldsTo(h, ch, S, StreamType, st, F)
    /\ \A g : GoesOn(g, ch, S, StreamType, st, F) => Changed(st, c, up, S, g[S])

LEMMA CellsFold ==
    ASSUME NEW st, Fit(st), NEW S \in SUBSET Cells, NEW c, NEW up, Sound(st, c, up, S),
           NEW ch, Chooses(ch, S), NEW F, Puts(F, st, c, up, S)
    PROVE  Folded(st, c, up, S, ch, F)
<1> DEFINE H == {p \in (SUBSET S) \X StreamType : Changed(st, c, up, p[1], p[2])}
<1>0. \A v : Fit(v) => v \in StreamType
  BY DEF Fit
<1>1. \A T, v : <<T, v>> \in H <=> T \in SUBSET S /\ v \in StreamType /\ Changed(st, c, up, T, v)
  OBVIOUS
<1> HIDE DEF H
<1>2. <<{}, st>> \in H
  BY <1>0, <1>1, ChangedNone
<1>3. ASSUME NEW T \in (SUBSET S) \ {{}}, NEW v, <<T \ {ch[T]}, v>> \in H
      PROVE  <<T, F[<<ch[T], v>>]>> \in H
  <2>1. ch[T] \in T /\ ch[T] \in S /\ ch[T] \in Cells
    BY DEF Chooses
  <2>2. v \in StreamType /\ Changed(st, c, up, T \ {ch[T]}, v)
    BY <1>1, <1>3
  <2>3. Fit(v) /\ v.cell[ch[T]] = st.cell[ch[T]] /\ (st.has_shift => v.has_shift)
    <3>1. Fit(v) /\ v.cell = Put(st, c, T \ {ch[T]})
      BY <2>2 DEF Changed
    <3>2. v.cell[ch[T]] = st.cell[ch[T]]
      BY <2>1, <3>1 DEF Put
    <3>3. st.has_shift => v.has_shift
      BY <2>2 DEF Changed
    <3> QED BY <3>1, <3>2, <3>3
  <2> DEFINE w == F[<<ch[T], v>>]
  <2>4. w = Turned(v, ch[T], c[ch[T]], v.has_shift \/ ch[T] \in up)
    BY <2>1, <2>2, <2>3 DEF Puts
  <2> HIDE DEF w
  <2>5. Changed(st, c, up, T, w)
    BY <2>1, <2>2, <2>4, ChangedMore
  <2>6. Fit(w)
    BY <2>5 DEF Changed
  <2> QED BY <1>0, <1>1, <2>5, <2>6 DEF w
<1>4. IsFiniteSet(S)
  BY SubsetsFinite
<1>5. /\ \E h : Traces(h, ch, S, st, H, F)
      /\ \A g : Follows(g, ch, S, st, H, F) => <<S, g[S]>> \in H
  BY <1>2, <1>3, <1>4, FoldFrom
<1>6. PICK h : Traces(h, ch, S, st, H, F)
  BY <1>5
<1>7. FoldsTo(h, ch, S, StreamType, st, F)
  <2>1. \A p \in H : p[2] \in StreamType
    BY DEF H
  <2>2. \A T \in SUBSET S : h[T] \in {p[2] : p \in H}
    BY <1>6 DEF Traces
  <2>3. h = [T \in SUBSET S |-> h[T]]
    BY <1>6 DEF Traces
  <2>4. h \in [SUBSET S -> StreamType]
    BY <2>1, <2>2, <2>3
  <2> QED BY <1>6, <2>4 DEF FoldsTo, Traces
<1>8. ASSUME NEW g, GoesOn(g, ch, S, StreamType, st, F)
      PROVE  Changed(st, c, up, S, g[S])
  <2>1. Follows(g, ch, S, st, H, F)
    BY <1>1, <1>8 DEF Follows, GoesOn
  <2> QED BY <1>1, <1>5, <2>1
<1> QED BY <1>7, <1>8 DEF Folded

LEMMA AnyChoice ==
    ASSUME NEW S
    PROVE  Chooses([T \in (SUBSET S) \ {{}} |-> CHOOSE x \in T : TRUE], S)
<1> DEFINE ch == [T \in (SUBSET S) \ {{}} |-> CHOOSE x \in T : TRUE]
<1>1. \A T \in (SUBSET S) \ {{}} : (CHOOSE x \in T : TRUE) \in T
  OBVIOUS
<1> QED BY <1>1 DEF Chooses

\* The operations on one cell, folded.
\* rm of the cells of S.
EachRm(st, S) == FoldSet(LAMBDA i, t : Rm(t, i), st, S)
LEMMA RmFold ==
    ASSUME NEW st, Fit(st), NEW S \in SUBSET Cells, NEW c, NEW up, Sound(st, c, up, S),
           \A i \in S, t \in StreamType : Fit(t) /\ t.cell[i] = st.cell[i] /\ (st.has_shift => t.has_shift) =>
               Rm(t, i) = Turned(t, i, c[i], t.has_shift \/ i \in up)
    PROVE  Changed(st, c, up, S, EachRm(st, S))
<1> DEFINE F    == [p \in S \X StreamType |-> Rm(p[2], p[1])]
           ch   == [T \in (SUBSET S) \ {{}} |-> CHOOSE x \in T : TRUE]
           D(h) == [T \in SUBSET S |-> IF T = {} THEN st
                        ELSE Rm(h[T \ {CHOOSE x \in T : TRUE}], CHOOSE x \in T : TRUE)]
           g    == CHOOSE h : h = D(h)
<1>1. \A i \in S, t \in StreamType : F[<<i, t>>] = Rm(t, i)
  OBVIOUS
<1>2. Chooses(ch, S) /\ \A T \in (SUBSET S) \ {{}} : ch[T] = CHOOSE x \in T : TRUE
  BY AnyChoice
<1> HIDE DEF F, ch
<1>3. Puts(F, st, c, up, S)
  BY <1>1 DEF Puts
<1>4. Folded(st, c, up, S, ch, F)
  BY <1>2, <1>3, CellsFold
<1>5. \A T \in (SUBSET S) \ {{}} : ch[T] \in S /\ T \ {ch[T]} \in SUBSET S
  BY <1>2 DEF Chooses
<1>6. PICK h : FoldsTo(h, ch, S, StreamType, st, F)
  BY <1>4 DEF Folded
<1>7. h = D(h)
  <2>1. \A T \in (SUBSET S) \ {{}} : h[T] = Rm(h[T \ {ch[T]}], ch[T])
    BY <1>1, <1>5, <1>6 DEF FoldsTo
  <2> QED BY <1>2, <1>6, <2>1 DEF FoldsTo
<1>8. g = D(g)
  BY <1>7
<1> HIDE DEF g
<1>9. GoesOn(g, ch, S, StreamType, st, F)
  <2>1. g[{}] = st
    BY <1>8
  <2>2. ASSUME NEW T \in (SUBSET S) \ {{}}, g[T \ {ch[T]}] \in StreamType
        PROVE  g[T] = F[<<ch[T], g[T \ {ch[T]}]>>]
    <3>1. g[T] = Rm(g[T \ {ch[T]}], ch[T])
      BY <1>2, <1>8
    <3> QED BY <1>1, <1>5, <2>2, <3>1
  <2> QED BY <2>1, <2>2 DEF GoesOn
<1>10. EachRm(st, S) = g[S]
  BY DEF EachRm, FoldSet, MapThenFoldSet, g
<1> QED BY <1>4, <1>9, <1>10 DEF Folded

\* seq_rm of the cells of S.
EachSeqRm(st, S, s) == FoldSet(LAMBDA i, t : CellSeqRm(t, i, s), st, S)
LEMMA CellSeqRmFold ==
    ASSUME NEW st, Fit(st), NEW S \in SUBSET Cells, NEW c, NEW up, Sound(st, c, up, S),
           NEW s,
           \A i \in S, t \in StreamType : Fit(t) /\ t.cell[i] = st.cell[i] /\ (st.has_shift => t.has_shift) =>
               CellSeqRm(t, i, s) = Turned(t, i, c[i], t.has_shift \/ i \in up)
    PROVE  Changed(st, c, up, S, EachSeqRm(st, S, s))
<1> DEFINE F    == [p \in S \X StreamType |-> CellSeqRm(p[2], p[1], s)]
           ch   == [T \in (SUBSET S) \ {{}} |-> CHOOSE x \in T : TRUE]
           D(h) == [T \in SUBSET S |-> IF T = {} THEN st
                        ELSE CellSeqRm(h[T \ {CHOOSE x \in T : TRUE}], CHOOSE x \in T : TRUE, s)]
           g    == CHOOSE h : h = D(h)
<1>1. \A i \in S, t \in StreamType : F[<<i, t>>] = CellSeqRm(t, i, s)
  OBVIOUS
<1>2. Chooses(ch, S) /\ \A T \in (SUBSET S) \ {{}} : ch[T] = CHOOSE x \in T : TRUE
  BY AnyChoice
<1> HIDE DEF F, ch
<1>3. Puts(F, st, c, up, S)
  BY <1>1 DEF Puts
<1>4. Folded(st, c, up, S, ch, F)
  BY <1>2, <1>3, CellsFold
<1>5. \A T \in (SUBSET S) \ {{}} : ch[T] \in S /\ T \ {ch[T]} \in SUBSET S
  BY <1>2 DEF Chooses
<1>6. PICK h : FoldsTo(h, ch, S, StreamType, st, F)
  BY <1>4 DEF Folded
<1>7. h = D(h)
  <2>1. \A T \in (SUBSET S) \ {{}} : h[T] = CellSeqRm(h[T \ {ch[T]}], ch[T], s)
    BY <1>1, <1>5, <1>6 DEF FoldsTo
  <2> QED BY <1>2, <1>6, <2>1 DEF FoldsTo
<1>8. g = D(g)
  BY <1>7
<1> HIDE DEF g
<1>9. GoesOn(g, ch, S, StreamType, st, F)
  <2>1. g[{}] = st
    BY <1>8
  <2>2. ASSUME NEW T \in (SUBSET S) \ {{}}, g[T \ {ch[T]}] \in StreamType
        PROVE  g[T] = F[<<ch[T], g[T \ {ch[T]}]>>]
    <3>1. g[T] = CellSeqRm(g[T \ {ch[T]}], ch[T], s)
      BY <1>2, <1>8
    <3> QED BY <1>1, <1>5, <2>2, <3>1
  <2> QED BY <2>1, <2>2 DEF GoesOn
<1>10. EachSeqRm(st, S, s) = g[S]
  BY DEF EachSeqRm, FoldSet, MapThenFoldSet, g
<1> QED BY <1>4, <1>9, <1>10 DEF Folded

\* seq_keep of the cells of S.
EachKeep(st, S, s) == FoldSet(LAMBDA i, t : CellSeqKeep(t, i, s), st, S)
LEMMA CellSeqKeepFold ==
    ASSUME NEW st, Fit(st), NEW S \in SUBSET Cells, NEW c, NEW up, Sound(st, c, up, S),
           NEW s,
           \A i \in S, t \in StreamType : Fit(t) /\ t.cell[i] = st.cell[i] /\ (st.has_shift => t.has_shift) =>
               CellSeqKeep(t, i, s) = Turned(t, i, c[i], t.has_shift \/ i \in up)
    PROVE  Changed(st, c, up, S, EachKeep(st, S, s))
<1> DEFINE F    == [p \in S \X StreamType |-> CellSeqKeep(p[2], p[1], s)]
           ch   == [T \in (SUBSET S) \ {{}} |-> CHOOSE x \in T : TRUE]
           D(h) == [T \in SUBSET S |-> IF T = {} THEN st
                        ELSE CellSeqKeep(h[T \ {CHOOSE x \in T : TRUE}], CHOOSE x \in T : TRUE, s)]
           g    == CHOOSE h : h = D(h)
<1>1. \A i \in S, t \in StreamType : F[<<i, t>>] = CellSeqKeep(t, i, s)
  OBVIOUS
<1>2. Chooses(ch, S) /\ \A T \in (SUBSET S) \ {{}} : ch[T] = CHOOSE x \in T : TRUE
  BY AnyChoice
<1> HIDE DEF F, ch
<1>3. Puts(F, st, c, up, S)
  BY <1>1 DEF Puts
<1>4. Folded(st, c, up, S, ch, F)
  BY <1>2, <1>3, CellsFold
<1>5. \A T \in (SUBSET S) \ {{}} : ch[T] \in S /\ T \ {ch[T]} \in SUBSET S
  BY <1>2 DEF Chooses
<1>6. PICK h : FoldsTo(h, ch, S, StreamType, st, F)
  BY <1>4 DEF Folded
<1>7. h = D(h)
  <2>1. \A T \in (SUBSET S) \ {{}} : h[T] = CellSeqKeep(h[T \ {ch[T]}], ch[T], s)
    BY <1>1, <1>5, <1>6 DEF FoldsTo
  <2> QED BY <1>2, <1>6, <2>1 DEF FoldsTo
<1>8. g = D(g)
  BY <1>7
<1> HIDE DEF g
<1>9. GoesOn(g, ch, S, StreamType, st, F)
  <2>1. g[{}] = st
    BY <1>8
  <2>2. ASSUME NEW T \in (SUBSET S) \ {{}}, g[T \ {ch[T]}] \in StreamType
        PROVE  g[T] = F[<<ch[T], g[T \ {ch[T]}]>>]
    <3>1. g[T] = CellSeqKeep(g[T \ {ch[T]}], ch[T], s)
      BY <1>2, <1>8
    <3> QED BY <1>1, <1>5, <2>2, <3>1
  <2> QED BY <2>1, <2>2 DEF GoesOn
<1>10. EachKeep(st, S, s) = g[S]
  BY DEF EachKeep, FoldSet, MapThenFoldSet, g
<1> QED BY <1>4, <1>9, <1>10 DEF Folded

\* seq_add of the cells of S.
EachSeqAdd(st, S, s) == FoldSet(LAMBDA i, t : CellSeqAdd(t, i, s), st, S)
LEMMA CellSeqAddFold ==
    ASSUME NEW st, Fit(st), NEW S \in SUBSET Cells, NEW c, NEW up, Sound(st, c, up, S),
           NEW s,
           \A i \in S, t \in StreamType : Fit(t) /\ t.cell[i] = st.cell[i] /\ (st.has_shift => t.has_shift) =>
               CellSeqAdd(t, i, s) = Turned(t, i, c[i], t.has_shift \/ i \in up)
    PROVE  Changed(st, c, up, S, EachSeqAdd(st, S, s))
<1> DEFINE F    == [p \in S \X StreamType |-> CellSeqAdd(p[2], p[1], s)]
           ch   == [T \in (SUBSET S) \ {{}} |-> CHOOSE x \in T : TRUE]
           D(h) == [T \in SUBSET S |-> IF T = {} THEN st
                        ELSE CellSeqAdd(h[T \ {CHOOSE x \in T : TRUE}], CHOOSE x \in T : TRUE, s)]
           g    == CHOOSE h : h = D(h)
<1>1. \A i \in S, t \in StreamType : F[<<i, t>>] = CellSeqAdd(t, i, s)
  OBVIOUS
<1>2. Chooses(ch, S) /\ \A T \in (SUBSET S) \ {{}} : ch[T] = CHOOSE x \in T : TRUE
  BY AnyChoice
<1> HIDE DEF F, ch
<1>3. Puts(F, st, c, up, S)
  BY <1>1 DEF Puts
<1>4. Folded(st, c, up, S, ch, F)
  BY <1>2, <1>3, CellsFold
<1>5. \A T \in (SUBSET S) \ {{}} : ch[T] \in S /\ T \ {ch[T]} \in SUBSET S
  BY <1>2 DEF Chooses
<1>6. PICK h : FoldsTo(h, ch, S, StreamType, st, F)
  BY <1>4 DEF Folded
<1>7. h = D(h)
  <2>1. \A T \in (SUBSET S) \ {{}} : h[T] = CellSeqAdd(h[T \ {ch[T]}], ch[T], s)
    BY <1>1, <1>5, <1>6 DEF FoldsTo
  <2> QED BY <1>2, <1>6, <2>1 DEF FoldsTo
<1>8. g = D(g)
  BY <1>7
<1> HIDE DEF g
<1>9. GoesOn(g, ch, S, StreamType, st, F)
  <2>1. g[{}] = st
    BY <1>8
  <2>2. ASSUME NEW T \in (SUBSET S) \ {{}}, g[T \ {ch[T]}] \in StreamType
        PROVE  g[T] = F[<<ch[T], g[T \ {ch[T]}]>>]
    <3>1. g[T] = CellSeqAdd(g[T \ {ch[T]}], ch[T], s)
      BY <1>2, <1>8
    <3> QED BY <1>1, <1>5, <2>2, <3>1
  <2> QED BY <2>1, <2>2 DEF GoesOn
<1>10. EachSeqAdd(st, S, s) = g[S]
  BY DEF EachSeqAdd, FoldSet, MapThenFoldSet, g
<1> QED BY <1>4, <1>9, <1>10 DEF Folded

\* pos_add of the cells of S.
EachPosAdd(st, S, d) == FoldSet(LAMBDA i, t : PosAdd(t, i, d), st, S)
LEMMA PosAddFold ==
    ASSUME NEW st, Fit(st), NEW S \in SUBSET Cells, NEW c, NEW up, Sound(st, c, up, S),
           NEW d,
           \A i \in S, t \in StreamType : Fit(t) /\ t.cell[i] = st.cell[i] /\ (st.has_shift => t.has_shift) =>
               PosAdd(t, i, d) = Turned(t, i, c[i], t.has_shift \/ i \in up)
    PROVE  Changed(st, c, up, S, EachPosAdd(st, S, d))
<1> DEFINE F    == [p \in S \X StreamType |-> PosAdd(p[2], p[1], d)]
           ch   == [T \in (SUBSET S) \ {{}} |-> CHOOSE x \in T : TRUE]
           D(h) == [T \in SUBSET S |-> IF T = {} THEN st
                        ELSE PosAdd(h[T \ {CHOOSE x \in T : TRUE}], CHOOSE x \in T : TRUE, d)]
           g    == CHOOSE h : h = D(h)
<1>1. \A i \in S, t \in StreamType : F[<<i, t>>] = PosAdd(t, i, d)
  OBVIOUS
<1>2. Chooses(ch, S) /\ \A T \in (SUBSET S) \ {{}} : ch[T] = CHOOSE x \in T : TRUE
  BY AnyChoice
<1> HIDE DEF F, ch
<1>3. Puts(F, st, c, up, S)
  BY <1>1 DEF Puts
<1>4. Folded(st, c, up, S, ch, F)
  BY <1>2, <1>3, CellsFold
<1>5. \A T \in (SUBSET S) \ {{}} : ch[T] \in S /\ T \ {ch[T]} \in SUBSET S
  BY <1>2 DEF Chooses
<1>6. PICK h : FoldsTo(h, ch, S, StreamType, st, F)
  BY <1>4 DEF Folded
<1>7. h = D(h)
  <2>1. \A T \in (SUBSET S) \ {{}} : h[T] = PosAdd(h[T \ {ch[T]}], ch[T], d)
    BY <1>1, <1>5, <1>6 DEF FoldsTo
  <2> QED BY <1>2, <1>6, <2>1 DEF FoldsTo
<1>8. g = D(g)
  BY <1>7
<1> HIDE DEF g
<1>9. GoesOn(g, ch, S, StreamType, st, F)
  <2>1. g[{}] = st
    BY <1>8
  <2>2. ASSUME NEW T \in (SUBSET S) \ {{}}, g[T \ {ch[T]}] \in StreamType
        PROVE  g[T] = F[<<ch[T], g[T \ {ch[T]}]>>]
    <3>1. g[T] = PosAdd(g[T \ {ch[T]}], ch[T], d)
      BY <1>2, <1>8
    <3> QED BY <1>1, <1>5, <2>2, <3>1
  <2> QED BY <2>1, <2>2 DEF GoesOn
<1>10. EachPosAdd(st, S, d) = g[S]
  BY DEF EachPosAdd, FoldSet, MapThenFoldSet, g
<1> QED BY <1>4, <1>9, <1>10 DEF Folded

\* pos_div of the cells of S.
EachPosDiv(st, S, d) == FoldSet(LAMBDA i, t : PosDiv(t, i, d), st, S)
LEMMA PosDivFold ==
    ASSUME NEW st, Fit(st), NEW S \in SUBSET Cells, NEW c, NEW up, Sound(st, c, up, S),
           NEW d,
           \A i \in S, t \in StreamType : Fit(t) /\ t.cell[i] = st.cell[i] /\ (st.has_shift => t.has_shift) =>
               PosDiv(t, i, d) = Turned(t, i, c[i], t.has_shift \/ i \in up)
    PROVE  Changed(st, c, up, S, EachPosDiv(st, S, d))
<1> DEFINE F    == [p \in S \X StreamType |-> PosDiv(p[2], p[1], d)]
           ch   == [T \in (SUBSET S) \ {{}} |-> CHOOSE x \in T : TRUE]
           D(h) == [T \in SUBSET S |-> IF T = {} THEN st
                        ELSE PosDiv(h[T \ {CHOOSE x \in T : TRUE}], CHOOSE x \in T : TRUE, d)]
           g    == CHOOSE h : h = D(h)
<1>1. \A i \in S, t \in StreamType : F[<<i, t>>] = PosDiv(t, i, d)
  OBVIOUS
<1>2. Chooses(ch, S) /\ \A T \in (SUBSET S) \ {{}} : ch[T] = CHOOSE x \in T : TRUE
  BY AnyChoice
<1> HIDE DEF F, ch
<1>3. Puts(F, st, c, up, S)
  BY <1>1 DEF Puts
<1>4. Folded(st, c, up, S, ch, F)
  BY <1>2, <1>3, CellsFold
<1>5. \A T \in (SUBSET S) \ {{}} : ch[T] \in S /\ T \ {ch[T]} \in SUBSET S
  BY <1>2 DEF Chooses
<1>6. PICK h : FoldsTo(h, ch, S, StreamType, st, F)
  BY <1>4 DEF Folded
<1>7. h = D(h)
  <2>1. \A T \in (SUBSET S) \ {{}} : h[T] = PosDiv(h[T \ {ch[T]}], ch[T], d)
    BY <1>1, <1>5, <1>6 DEF FoldsTo
  <2> QED BY <1>2, <1>6, <2>1 DEF FoldsTo
<1>8. g = D(g)
  BY <1>7
<1> HIDE DEF g
<1>9. GoesOn(g, ch, S, StreamType, st, F)
  <2>1. g[{}] = st
    BY <1>8
  <2>2. ASSUME NEW T \in (SUBSET S) \ {{}}, g[T \ {ch[T]}] \in StreamType
        PROVE  g[T] = F[<<ch[T], g[T \ {ch[T]}]>>]
    <3>1. g[T] = PosDiv(g[T \ {ch[T]}], ch[T], d)
      BY <1>2, <1>8
    <3> QED BY <1>1, <1>5, <2>2, <3>1
  <2> QED BY <2>1, <2>2 DEF GoesOn
<1>10. EachPosDiv(st, S, d) = g[S]
  BY DEF EachPosDiv, FoldSet, MapThenFoldSet, g
<1> QED BY <1>4, <1>9, <1>10 DEF Folded

\* The cells of S copied to sequence s.
EachCopy(st, S, s, from) == FoldSet(LAMBDA i, t : CopyCell(t, i, from.cell[i], s), st, S)
LEMMA CopyCellFold ==
    ASSUME NEW st, Fit(st), NEW S \in SUBSET Cells, NEW c, NEW up, Sound(st, c, up, S),
           NEW s, NEW from,
           \A i \in S, t \in StreamType : Fit(t) /\ t.cell[i] = st.cell[i] /\ (st.has_shift => t.has_shift) =>
               CopyCell(t, i, from.cell[i], s) = Turned(t, i, c[i], t.has_shift \/ i \in up)
    PROVE  Changed(st, c, up, S, EachCopy(st, S, s, from))
<1> DEFINE F    == [p \in S \X StreamType |-> CopyCell(p[2], p[1], from.cell[p[1]], s)]
           ch   == [T \in (SUBSET S) \ {{}} |-> CHOOSE x \in T : TRUE]
           D(h) == [T \in SUBSET S |-> IF T = {} THEN st
                        ELSE CopyCell(h[T \ {CHOOSE x \in T : TRUE}], CHOOSE x \in T : TRUE, from.cell[CHOOSE x \in T : TRUE], s)]
           g    == CHOOSE h : h = D(h)
<1>1. \A i \in S, t \in StreamType : F[<<i, t>>] = CopyCell(t, i, from.cell[i], s)
  OBVIOUS
<1>2. Chooses(ch, S) /\ \A T \in (SUBSET S) \ {{}} : ch[T] = CHOOSE x \in T : TRUE
  BY AnyChoice
<1> HIDE DEF F, ch
<1>3. Puts(F, st, c, up, S)
  BY <1>1 DEF Puts
<1>4. Folded(st, c, up, S, ch, F)
  BY <1>2, <1>3, CellsFold
<1>5. \A T \in (SUBSET S) \ {{}} : ch[T] \in S /\ T \ {ch[T]} \in SUBSET S
  BY <1>2 DEF Chooses
<1>6. PICK h : FoldsTo(h, ch, S, StreamType, st, F)
  BY <1>4 DEF Folded
<1>7. h = D(h)
  <2>1. \A T \in (SUBSET S) \ {{}} : h[T] = CopyCell(h[T \ {ch[T]}], ch[T], from.cell[ch[T]], s)
    BY <1>1, <1>5, <1>6 DEF FoldsTo
  <2> QED BY <1>2, <1>6, <2>1 DEF FoldsTo
<1>8. g = D(g)
  BY <1>7
<1> HIDE DEF g
<1>9. GoesOn(g, ch, S, StreamType, st, F)
  <2>1. g[{}] = st
    BY <1>8
  <2>2. ASSUME NEW T \in (SUBSET S) \ {{}}, g[T \ {ch[T]}] \in StreamType
        PROVE  g[T] = F[<<ch[T], g[T \ {ch[T]}]>>]
    <3>1. g[T] = CopyCell(g[T \ {ch[T]}], ch[T], from.cell[ch[T]], s)
      BY <1>2, <1>8
    <3> QED BY <1>1, <1>5, <2>2, <3>1
  <2> QED BY <2>1, <2>2 DEF GoesOn
<1>10. EachCopy(st, S, s, from) = g[S]
  BY DEF EachCopy, FoldSet, MapThenFoldSet, g
<1> QED BY <1>4, <1>9, <1>10 DEF Folded

\* The cells of S as they were.
EachSet(st, S, from) == FoldSet(LAMBDA i, t : SetCell(t, i, from.cell[i]), st, S)
LEMMA SetCellFold ==
    ASSUME NEW st, Fit(st), NEW S \in SUBSET Cells, NEW c, NEW up, Sound(st, c, up, S),
           NEW from,
           \A i \in S, t \in StreamType : Fit(t) /\ t.cell[i] = st.cell[i] /\ (st.has_shift => t.has_shift) =>
               SetCell(t, i, from.cell[i]) = Turned(t, i, c[i], t.has_shift \/ i \in up)
    PROVE  Changed(st, c, up, S, EachSet(st, S, from))
<1> DEFINE F    == [p \in S \X StreamType |-> SetCell(p[2], p[1], from.cell[p[1]])]
           ch   == [T \in (SUBSET S) \ {{}} |-> CHOOSE x \in T : TRUE]
           D(h) == [T \in SUBSET S |-> IF T = {} THEN st
                        ELSE SetCell(h[T \ {CHOOSE x \in T : TRUE}], CHOOSE x \in T : TRUE, from.cell[CHOOSE x \in T : TRUE])]
           g    == CHOOSE h : h = D(h)
<1>1. \A i \in S, t \in StreamType : F[<<i, t>>] = SetCell(t, i, from.cell[i])
  OBVIOUS
<1>2. Chooses(ch, S) /\ \A T \in (SUBSET S) \ {{}} : ch[T] = CHOOSE x \in T : TRUE
  BY AnyChoice
<1> HIDE DEF F, ch
<1>3. Puts(F, st, c, up, S)
  BY <1>1 DEF Puts
<1>4. Folded(st, c, up, S, ch, F)
  BY <1>2, <1>3, CellsFold
<1>5. \A T \in (SUBSET S) \ {{}} : ch[T] \in S /\ T \ {ch[T]} \in SUBSET S
  BY <1>2 DEF Chooses
<1>6. PICK h : FoldsTo(h, ch, S, StreamType, st, F)
  BY <1>4 DEF Folded
<1>7. h = D(h)
  <2>1. \A T \in (SUBSET S) \ {{}} : h[T] = SetCell(h[T \ {ch[T]}], ch[T], from.cell[ch[T]])
    BY <1>1, <1>5, <1>6 DEF FoldsTo
  <2> QED BY <1>2, <1>6, <2>1 DEF FoldsTo
<1>8. g = D(g)
  BY <1>7
<1> HIDE DEF g
<1>9. GoesOn(g, ch, S, StreamType, st, F)
  <2>1. g[{}] = st
    BY <1>8
  <2>2. ASSUME NEW T \in (SUBSET S) \ {{}}, g[T \ {ch[T]}] \in StreamType
        PROVE  g[T] = F[<<ch[T], g[T \ {ch[T]}]>>]
    <3>1. g[T] = SetCell(g[T \ {ch[T]}], ch[T], from.cell[ch[T]])
      BY <1>2, <1>8
    <3> QED BY <1>1, <1>5, <2>2, <3>1
  <2> QED BY <2>1, <2>2 DEF GoesOn
<1>10. EachSet(st, S, from) = g[S]
  BY DEF EachSet, FoldSet, MapThenFoldSet, g
<1> QED BY <1>4, <1>9, <1>10 DEF Folded

-----------------------------------------------------------------------------
(* The operations on one stream.                                           *)

LEMMA GoodIs ==
    ASSUME NEW st
    PROVE  st \in Good <=> Fit(st) /\ Owned(st)
BY DEF Good, Fit

\* A good stream: a cell that is used is in a sequence, one that is not is empty.
LEMMA GoodCells ==
    ASSUME NEW st \in Good
    PROVE  /\ Fit(st) /\ st \in Loose /\ st.used = {i \in Cells : st.cell[i].pos # -1}
           /\ \A i \in Cells : /\ st.cell[i].pos = -1 => st.cell[i] = EmptyCell
                               /\ st.cell[i].seqs = {} => st.cell[i].pos = -1
                               /\ st.cell[i].pos = -1 <=> i \notin st.used
                               /\ i \in st.used => st.cell[i].pos \in Positions
                               /\ ~st.has_shift => st.cell[i].shift = 0
<1>1. Fit(st) /\ Owned(st)
  BY GoodIs
<1>2. \A i \in Cells : st.cell[i].pos # -1 => st.cell[i].pos \in Positions
  BY <1>1, FitIsLoose
<1> QED BY <1>1, <1>2, FitIsLoose DEF Fit, Owned

\* The same stream with another head.
SameCells(t, u) == u \in Good /\ u.cell = t.cell /\ u.has_shift = t.has_shift

LEMMA WithHead ==
    ASSUME NEW t \in Good, NEW n \in 0 .. NumCells
    PROVE  SameCells(t, [t EXCEPT !.head = n]) /\ [t EXCEPT !.head = n].head = n
<1> DEFINE u == [t EXCEPT !.head = n]
<1>1. Fit(t) /\ Owned(t) /\ t \in StreamType
  BY GoodIs DEF Fit
<1>2. u \in StreamType /\ u.cell = t.cell /\ u.has_shift = t.has_shift /\ u.used = t.used /\ u.seq_pos = t.seq_pos /\ u.head = n
  BY <1>1 DEF StreamType
<1> HIDE DEF u
<1>3. Fit(u) /\ Owned(u)
  BY <1>1, <1>2 DEF Fit, Owned
<1>4. u \in Good
  BY <1>3, GoodIs
<1> QED BY <1>2, <1>4 DEF SameCells, u

LEMMA FreedIs ==
    ASSUME NEW before, NEW after
    PROVE  Freed(before, after) # {} => Min(Freed(before, after)) \in Cells
<1>1. Freed(before, after) \in SUBSET Nat
  BY SizesAre DEF Freed, Cells
<1>2. ASSUME Freed(before, after) # {}
      PROVE  Min(Freed(before, after)) \in Freed(before, after)
  BY <1>1, <1>2, MinIs
<1> QED BY <1>2 DEF Freed

LEMMA CellsAre == \A i \in Cells : i \in 0 .. NumCells /\ i + 1 \in 0 .. NumCells
BY SizesAre DEF Cells

LEMMA HeadBackIs ==
    ASSUME NEW before, NEW after \in Good
    PROVE  SameCells(after, HeadBack(before, after))
<1> DEFINE freed == Freed(before, after)
<1>1. CASE freed # {} /\ Min(freed) < after.head
  <2>1. Min(freed) \in 0 .. NumCells
    BY <1>1, FreedIs, CellsAre
  <2>2. HeadBack(before, after) = [after EXCEPT !.head = Min(freed)]
    BY <1>1 DEF HeadBack
  <2> QED BY <2>1, <2>2, WithHead
<1>2. CASE ~(freed # {} /\ Min(freed) < after.head)
  BY <1>2 DEF HeadBack, SameCells
<1> QED BY <1>1, <1>2

\* What was put is good if its used cells are in a sequence.
OwnedIn(c, S) == \A i \in S : c[i].seqs = {} => c[i].pos = -1

LEMMA PutIsGood ==
    ASSUME NEW st \in Good, NEW S \in SUBSET Cells, NEW c, NEW t, Fit(t), t.cell = Put(st, c, S), OwnedIn(c, S)
    PROVE  t \in Good
<1>2. ASSUME NEW i \in Cells, t.cell[i].seqs = {}
      PROVE  t.cell[i].pos = -1
  <2>1. t.cell[i] = IF i \in S THEN c[i] ELSE st.cell[i]
    BY DEF Put
  <2> QED BY <1>2, <2>1, GoodCells DEF OwnedIn
<1> QED BY <1>2, GoodIs DEF Owned

\* seq_rm: the cells S lose a sequence, and go if it was their last.
Less(a, s) == IF a.seqs = {s} THEN EmptyCell ELSE [a EXCEPT !.seqs = @ \ {s}]
LessCells(st, s) == [i \in Cells |-> Less(st.cell[i], s)]
Lessened(st, s, S, t) ==
    t \in Good /\ t.has_shift = st.has_shift /\ t.cell = Put(st, LessCells(st, s), S)

LEMMA LessIs ==
    ASSUME NEW a \in Cell, NEW s \in a.seqs, a.pos # -1
    PROVE  /\ Less(a, s) \in Cell /\ (Less(a, s).pos = -1 => Less(a, s) = EmptyCell)
           /\ (a.shift = 0 => Less(a, s).shift = 0) /\ Less(a, s).seqs = a.seqs \ {s}
           /\ (Less(a, s).seqs = {} => Less(a, s).pos = -1)
           /\ (Less(a, s).pos # -1 => Less(a, s).pos = a.pos /\ Less(a, s).shift = a.shift)
<1>1. CASE a.seqs = {s}
  BY <1>1, EmptyIs DEF Less
<1>2. CASE a.seqs # {s}
  BY <1>2 DEF Less, Cell
<1> QED BY <1>1, <1>2

LEMMA SeqRmIs ==
    ASSUME NEW st \in Good, NEW s, NEW p0, NEW p1
    PROVE  Lessened(st, s, WithSeq(st, s, p0, p1), SeqRm(st, s, p0, p1))
<1> DEFINE S == WithSeq(st, s, p0, p1)
           c == LessCells(st, s)
           up == {}
           r == EachSeqRm(st, S, s)
<1>1. S \in SUBSET Cells /\ \A i \in S : st.cell[i].pos # -1 /\ s \in st.cell[i].seqs
  BY DEF WithSeq, InRange, IsEmpty
<1>2. Fit(st) /\ st.cell \in [Cells -> Cell]
  BY GoodCells, FitIsLoose
<1>3. \A i \in S : Less(st.cell[i], s) \in Cell /\ c[i] = Less(st.cell[i], s)
  BY <1>1, <1>2, LessIs DEF LessCells
<1> DEFINE cc == [i \in Cells |-> IF i \in S THEN c[i] ELSE EmptyCell]
<1>4. cc \in [Cells -> Cell] /\ \A i \in S : cc[i] = Less(st.cell[i], s)
  BY <1>1, <1>3, EmptyIs
<1>5. Put(st, cc, S) = Put(st, c, S)
  BY DEF Put
<1> HIDE DEF S, c, cc
<1>6. Sound(st, cc, up, S)
  <2>1. ASSUME NEW i \in S
        PROVE  (cc[i].pos = -1 => cc[i] = EmptyCell) /\ (~st.has_shift => cc[i].shift = 0)
    BY <1>1, <1>2, <1>4, LessIs, GoodCells
  <2> QED BY <1>4, <2>1 DEF Sound
<1>7. ASSUME NEW i \in S, NEW t \in StreamType, Fit(t), t.cell[i] = st.cell[i]
      PROVE  CellSeqRm(t, i, s) = Turned(t, i, cc[i], t.has_shift \/ i \in up)
  <2>1. t \in Loose /\ i \in t.used /\ s \in t.cell[i].seqs /\ t.cell[i].pos \in Positions /\ t.has_shift \in BOOLEAN
    BY <1>1, <1>7, FitIsLoose DEF Fit
  <2>2. cc[i] = IF t.cell[i].seqs = {s} THEN EmptyCell ELSE [t.cell[i] EXCEPT !.seqs = @ \ {s}]
    BY <1>4, <1>7 DEF Less
  <2>3. CellSeqRm(t, i, s) = Turned(t, i, cc[i], t.has_shift)
    BY <2>1, <2>2, CellSeqRmIs
  <2>4. (t.has_shift \/ i \in up) = t.has_shift
    BY <2>1
  <2> QED BY <2>3, <2>4
<1>8. Changed(st, cc, up, S, r)
  BY <1>1, <1>2, <1>6, <1>7, CellSeqRmFold
<1> HIDE DEF r
<1>9. r \in Good
  <2>1. OwnedIn(cc, S)
    BY <1>1, <1>2, <1>4, LessIs DEF OwnedIn
  <2>2. S \in SUBSET Cells /\ Fit(r) /\ r.cell = Put(st, cc, S)
    BY <1>1, <1>8 DEF Changed
  <2> QED BY <2>1, <2>2, PutIsGood
<1>10. r.has_shift = st.has_shift /\ r.cell = Put(st, c, S)
  <2>1. r.has_shift = (st.has_shift \/ S \cap up # {}) /\ st.has_shift \in BOOLEAN
    BY <1>2, <1>8, FitIsLoose DEF Changed
  <2> QED BY <1>5, <1>8, <2>1 DEF Changed
<1>11. SeqRm(st, s, p0, p1) = HeadBack(st, r)
  BY DEF SeqRm, EachSeqRm, r, S
<1>12. SameCells(r, HeadBack(st, r))
  BY <1>9, HeadBackIs
<1> QED BY <1>9, <1>10, <1>11, <1>12 DEF Lessened, SameCells, S, c

\* The cells S of a good stream become those of c.
Becomes(st, c, S, t) == t \in Good /\ t.cell = Put(st, c, S)

LEMMA TurnedSame ==
    ASSUME NEW t, Fit(t), NEW i \in Cells
    PROVE  Turned(t, i, t.cell[i], t.has_shift) = t
<1> DEFINE u == Turned(t, i, t.cell[i], t.has_shift)
<1>1. t \in Loose /\ t.cell[i] \in LooseCell /\ t.has_shift \in BOOLEAN /\ t.cell \in [Cells -> Cell]
  BY FitIsLoose
<1>2. t.used = IF t.cell[i].pos = -1 THEN t.used \ {i} ELSE t.used \cup {i}
  BY DEF Fit
<1>3. t.cell = [t.cell EXCEPT ![i] = t.cell[i]]
  BY <1>1
<1>4. \A s \in Seqs, p \in Positions : t.seq_pos[s][p] = t.seq_pos[s][p] - One(t.cell[i], s, p) + One(t.cell[i], s, p)
  <2> TAKE s \in Seqs, p \in Positions
  <2>1. t.seq_pos[s][p] \in Int /\ One(t.cell[i], s, p) \in Int
    BY <1>1, LooseParts, OneIs
  <2> QED BY <2>1
<1> DEFINE c == t.cell[i]
           h == t.has_shift
<1>5. TurnsInto(t, i, c, h, t)
  BY <1>1, <1>2, <1>3, <1>4 DEF TurnsInto
<1>6. c \in LooseCell /\ h \in BOOLEAN
  BY <1>1
<1>7. Turned(t, i, c, h) = u
  OBVIOUS
<1> HIDE DEF c, h, u
<1>8. t = Turned(t, i, c, h)
  BY <1>1, <1>5, <1>6, IsTurned
<1> QED BY <1>7, <1>8 DEF u

LEMMA RmAnyIs ==
    ASSUME NEW st \in Good, NEW p0, NEW p1
    PROVE  Becomes(st, [i \in Cells |-> EmptyCell], InRange(st, p0, p1), RmAny(st, p0, p1))
<1> DEFINE S == InRange(st, p0, p1)
           c == [i \in Cells |-> EmptyCell]
           up == {}
           r == EachRm(st, S)
<1>1. S \in SUBSET Cells
  BY DEF InRange
<1>2. Fit(st)
  BY GoodCells
<1>3. c \in [Cells -> Cell] /\ \A i \in Cells : c[i] = EmptyCell
  BY EmptyIs
<1> HIDE DEF S, c
<1>4. Sound(st, c, up, S)
  BY <1>1, <1>3, EmptyIs DEF Sound
<1>5. ASSUME NEW i \in S, NEW t \in StreamType, Fit(t)
      PROVE  Rm(t, i) = Turned(t, i, c[i], t.has_shift \/ i \in up)
  <2>1. t \in Loose /\ t.has_shift \in BOOLEAN /\ i \in Cells
    BY <1>1, <1>5, FitIsLoose
  <2>2. Rm(t, i) = Turned(t, i, EmptyCell, t.has_shift)
    BY <2>1, RmIs
  <2>3. (t.has_shift \/ i \in up) = t.has_shift
    BY <2>1
  <2> QED BY <1>3, <2>1, <2>2, <2>3
<1>6. Changed(st, c, up, S, r)
  BY <1>1, <1>2, <1>4, <1>5, RmFold
<1> HIDE DEF r
<1>7. r \in Good
  <2>1. OwnedIn(c, S)
    BY <1>1, <1>3, EmptyIs DEF OwnedIn
  <2>2. S \in SUBSET Cells /\ Fit(r) /\ r.cell = Put(st, c, S)
    BY <1>1, <1>6 DEF Changed
  <2> QED BY <2>1, <2>2, PutIsGood
<1>8. r.cell = Put(st, c, S)
  BY <1>6 DEF Changed
<1>9. RmAny(st, p0, p1) = HeadBack(st, r)
  BY DEF RmAny, EachRm, r, S
<1>10. SameCells(r, HeadBack(st, r))
  BY <1>7, HeadBackIs
<1> QED BY <1>8, <1>9, <1>10 DEF Becomes, SameCells, S, c

\* seq_keep: what is not of the sequence goes.
Left(a, s) == IF s \in a.seqs THEN [a EXCEPT !.seqs = {s}] ELSE EmptyCell
LeftCells(st, s) == [i \in Cells |-> Left(st.cell[i], s)]

LEMMA SeqKeepIs ==
    ASSUME NEW st \in Good, NEW s \in Seqs
    PROVE  Becomes(st, LeftCells(st, s), Cells, SeqKeep(st, s))
<1> DEFINE c == LeftCells(st, s)
           up == {}
           r == EachKeep(st, Cells, s)
<1>1. Cells \in SUBSET Cells
  OBVIOUS
<1>2. Fit(st) /\ st.cell \in [Cells -> Cell]
  BY GoodCells, FitIsLoose
<1>3. ASSUME NEW i \in Cells
      PROVE  /\ c[i] \in Cell /\ c[i] = Left(st.cell[i], s) /\ (c[i].pos = -1 => c[i] = EmptyCell)
             /\ (~st.has_shift => c[i].shift = 0) /\ (c[i].seqs = {} => c[i].pos = -1)
  <2>1. c[i] = Left(st.cell[i], s) /\ st.cell[i] \in Cell
    BY <1>2 DEF LeftCells
  <2>2. CASE s \in st.cell[i].seqs
    <3>1. c[i] = [st.cell[i] EXCEPT !.seqs = {s}]
      BY <2>1, <2>2 DEF Left
    <3>2. st.cell[i].pos # -1
      <4>1. st.cell[i] # EmptyCell
        BY <2>2, EmptyIs
      <4> QED BY <4>1, GoodCells
    <3>3. ~st.has_shift => st.cell[i].shift = 0
      BY GoodCells
    <3> QED BY <2>1, <3>1, <3>2, <3>3 DEF Cell
  <2>3. CASE s \notin st.cell[i].seqs
    BY <2>1, <2>3, EmptyIs DEF Left
  <2> QED BY <2>2, <2>3
<1>4. c \in [Cells -> Cell]
  <2>1. c = [i \in Cells |-> c[i]]
    BY DEF LeftCells
  <2> HIDE DEF c
  <2> QED BY <1>3, <2>1
<1> HIDE DEF c
<1>5. Sound(st, c, up, Cells)
  BY <1>3, <1>4 DEF Sound
<1>6. ASSUME NEW i \in Cells, NEW t \in StreamType, Fit(t), t.cell[i] = st.cell[i]
      PROVE  CellSeqKeep(t, i, s) = Turned(t, i, c[i], t.has_shift \/ i \in up)
  <2>1. /\ t \in Loose /\ t.has_shift \in BOOLEAN /\ t.used = {j \in Cells : t.cell[j].pos # -1}
        /\ (t.cell[i].pos = -1 => t.cell[i] = EmptyCell) /\ (t.cell[i].seqs = {} => t.cell[i].pos = -1)
    BY <1>6, FitIsLoose, GoodCells DEF Fit
  <2>2. (t.has_shift \/ i \in up) = t.has_shift
    BY <2>1
  <2>3. CASE s \in t.cell[i].seqs
    <3>1. t.cell[i].pos # -1 /\ i \in t.used
      BY <2>1, <2>3, EmptyIs
    <3>2. c[i] = [t.cell[i] EXCEPT !.seqs = {s}]
      BY <1>3, <1>6, <2>3 DEF Left
    <3>3. CellSeqKeep(t, i, s) = Turned(t, i, [t.cell[i] EXCEPT !.seqs = {s}], t.has_shift)
      BY <2>1, <2>3, <3>1, CellSeqKeepIs
    <3> QED BY <2>2, <3>2, <3>3
  <2>4. CASE s \notin t.cell[i].seqs /\ t.cell[i].seqs # {}
    <3>1. c[i] = EmptyCell
      BY <1>3, <1>6, <2>4 DEF Left
    <3>2. CellSeqKeep(t, i, s) = Rm(t, i)
      BY <2>4 DEF CellSeqKeep
    <3>3. Rm(t, i) = Turned(t, i, EmptyCell, t.has_shift)
      BY <2>1, RmIs
    <3> QED BY <2>2, <3>1, <3>2, <3>3
  <2>5. CASE t.cell[i].seqs = {}
    <3>1. c[i] = EmptyCell /\ t.cell[i] = EmptyCell
      BY <1>3, <1>6, <2>1, <2>5 DEF Left
    <3>2. CellSeqKeep(t, i, s) = t
      BY <2>5 DEF CellSeqKeep
    <3>3. Turned(t, i, t.cell[i], t.has_shift) = t
      BY <1>6, TurnedSame
    <3> QED BY <2>2, <3>1, <3>2, <3>3
  <2> QED BY <2>3, <2>4, <2>5
<1>7. Changed(st, c, up, Cells, r)
  BY <1>1, <1>2, <1>5, <1>6, CellSeqKeepFold
<1> HIDE DEF r
<1>8. r \in Good
  <2>1. OwnedIn(c, Cells)
    BY <1>3 DEF OwnedIn
  <2>2. Cells \in SUBSET Cells /\ Fit(r) /\ r.cell = Put(st, c, Cells)
    BY <1>1, <1>7 DEF Changed
  <2> QED BY <2>1, <2>2, PutIsGood
<1>9. r.cell = Put(st, c, Cells)
  BY <1>7 DEF Changed
<1>10. SeqKeep(st, s) = HeadBack(st, r)
  BY DEF SeqKeep, EachKeep, r
<1>11. SameCells(r, HeadBack(st, r))
  BY <1>8, HeadBackIs
<1> QED BY <1>9, <1>10, <1>11 DEF Becomes, SameCells, c

\* seq_cp within a stream, to a sequence that has no cell of it.
MoreCells(st, d) == [i \in Cells |-> [st.cell[i] EXCEPT !.seqs = @ \cup {d}]]

LEMMA SeqCpIs ==
    ASSUME NEW st \in Good, NEW s, NEW d \in Seqs, NEW p0, NEW p1, \A i \in Cells : d \notin st.cell[i].seqs
    PROVE  Becomes(st, MoreCells(st, d), WithSeq(st, s, p0, p1), SeqCp(st, s, d, p0, p1))
<1> DEFINE S == WithSeq(st, s, p0, p1)
           c == MoreCells(st, d)
           up == {}
           r == EachSeqAdd(st, S, d)
<1>1. S \in SUBSET Cells /\ \A i \in S : st.cell[i].pos # -1
  BY DEF WithSeq, InRange, IsEmpty
<1>2. Fit(st) /\ st.cell \in [Cells -> Cell]
  BY GoodCells, FitIsLoose
<1>3. ASSUME NEW i \in Cells
      PROVE  /\ c[i] \in Cell /\ c[i] = [st.cell[i] EXCEPT !.seqs = @ \cup {d}] /\ c[i].pos = st.cell[i].pos
             /\ (~st.has_shift => c[i].shift = 0) /\ c[i].seqs # {}
  <2>1. c[i] = [st.cell[i] EXCEPT !.seqs = @ \cup {d}] /\ st.cell[i] \in Cell
    BY <1>2 DEF MoreCells
  <2>2. ~st.has_shift => st.cell[i].shift = 0
    BY GoodCells
  <2> HIDE DEF c
  <2> QED BY <2>1, <2>2 DEF Cell
<1>4. c \in [Cells -> Cell]
  <2>1. c = [i \in Cells |-> c[i]]
    BY DEF MoreCells
  <2> HIDE DEF c
  <2> QED BY <1>3, <2>1
<1> HIDE DEF S, c
<1>5. Sound(st, c, up, S)
  BY <1>1, <1>3, <1>4 DEF Sound
<1>6. ASSUME NEW i \in S, NEW t \in StreamType, Fit(t), t.cell[i] = st.cell[i]
      PROVE  CellSeqAdd(t, i, d) = Turned(t, i, c[i], t.has_shift \/ i \in up)
  <2>1. t \in Loose /\ t.has_shift \in BOOLEAN /\ i \in t.used /\ t.cell[i].pos # -1 /\ i \in Cells
    BY <1>1, <1>6, FitIsLoose DEF Fit
  <2>2. CellSeqAdd(t, i, d) = Turned(t, i, [t.cell[i] EXCEPT !.seqs = @ \cup {d}], t.has_shift)
    BY <1>6, <2>1, CellSeqAddIs
  <2>3. (t.has_shift \/ i \in up) = t.has_shift
    BY <2>1
  <2> QED BY <1>3, <1>6, <2>1, <2>2, <2>3
<1>7. Changed(st, c, up, S, r)
  BY <1>1, <1>2, <1>5, <1>6, CellSeqAddFold
<1> HIDE DEF r
<1>8. r \in Good
  <2>1. OwnedIn(c, S)
    BY <1>1, <1>3 DEF OwnedIn
  <2>2. S \in SUBSET Cells /\ Fit(r) /\ r.cell = Put(st, c, S)
    BY <1>1, <1>7 DEF Changed
  <2> QED BY <2>1, <2>2, PutIsGood
<1>9. r.cell = Put(st, c, S)
  BY <1>7 DEF Changed
<1>10. SeqCp(st, s, d, p0, p1) = r
  BY DEF SeqCp, EachSeqAdd, r, S
<1> QED BY <1>8, <1>9, <1>10 DEF Becomes, S, c

\* seq_add, within the positions there are.
MovedCells(st, d) == [i \in Cells |-> Moved(st.cell[i], d)]

LEMMA MovedIs ==
    ASSUME NEW a \in Cell, a.pos \in Positions, a.seqs # {}, NEW d \in Int, a.pos + d <= MaxPos
    PROVE  /\ Moved(a, d) \in Cell /\ (Moved(a, d).pos = -1 => Moved(a, d) = EmptyCell)
           /\ (Moved(a, d).seqs = {} => Moved(a, d).pos = -1)
           /\ (Moved(a, d).pos # -1 => Moved(a, d).pos = a.pos + d /\ Moved(a, d).shift = a.shift + d)
<1>1. CASE a.pos + d < 0
  BY <1>1, EmptyIs DEF Moved
<1>2. CASE ~(a.pos + d < 0)
  <2>1. a.pos + d \in Positions /\ a.pos + d # -1
    BY <1>2, SizesAre DEF Positions
  <2>2. Moved(a, d) = [pos |-> a.pos + d, shift |-> a.shift + d, seqs |-> a.seqs]
    BY <1>2 DEF Moved
  <2> QED BY <2>1, <2>2 DEF Cell
<1> QED BY <1>1, <1>2

LEMMA SeqAddIs ==
    ASSUME NEW st \in Good, NEW s, NEW p0, NEW p1, NEW d \in Int,
           \A i \in WithSeq(st, s, p0, p1) : st.cell[i].pos + d <= MaxPos
    PROVE  Becomes(st, MovedCells(st, d), WithSeq(st, s, p0, p1), SeqAdd(st, s, p0, p1, d))
<1> DEFINE S == WithSeq(st, s, p0, p1)
           c == MovedCells(st, d)
           up == S
           r == EachPosAdd(st, S, d)
<1>1. S \in SUBSET Cells /\ \A i \in S : st.cell[i].pos # -1 /\ s \in st.cell[i].seqs
  BY DEF WithSeq, InRange, IsEmpty
<1>2. Fit(st) /\ st.cell \in [Cells -> Cell]
  BY GoodCells, FitIsLoose
<1>3. ASSUME NEW i \in S
      PROVE  /\ c[i] \in Cell /\ c[i] = Moved(st.cell[i], d) /\ (c[i].pos = -1 => c[i] = EmptyCell)
             /\ (c[i].seqs = {} => c[i].pos = -1)
  <2>1. c[i] = Moved(st.cell[i], d) /\ st.cell[i] \in Cell
    BY <1>1, <1>2 DEF MovedCells
  <2>2. st.cell[i].pos \in Positions /\ st.cell[i].seqs # {} /\ st.cell[i].pos + d <= MaxPos
    BY <1>1, <1>2, FitIsLoose
  <2> HIDE DEF c
  <2> QED BY <2>1, <2>2, MovedIs
<1> DEFINE cc == [i \in Cells |-> IF i \in S THEN c[i] ELSE EmptyCell]
<1>4. cc \in [Cells -> Cell] /\ \A i \in S : cc[i] = c[i]
  BY <1>1, <1>3, EmptyIs
<1>5. Put(st, cc, S) = Put(st, c, S)
  BY DEF Put
<1> HIDE DEF S, c, cc
<1>6. Sound(st, cc, up, S)
  BY <1>1, <1>3, <1>4 DEF Sound
<1>7. ASSUME NEW i \in S, NEW t \in StreamType, Fit(t), t.cell[i] = st.cell[i]
      PROVE  PosAdd(t, i, d) = Turned(t, i, cc[i], t.has_shift \/ i \in up)
  <2>1. t \in Loose /\ i \in t.used /\ t.has_shift \in BOOLEAN
    BY <1>1, <1>7, FitIsLoose DEF Fit
  <2>2. PosAdd(t, i, d) = Turned(t, i, Moved(t.cell[i], d), TRUE)
    BY <2>1, PosAddIs
  <2>3. (t.has_shift \/ i \in up) = TRUE
    BY <2>1
  <2> QED BY <1>3, <1>4, <1>7, <2>2, <2>3
<1>8. Changed(st, cc, up, S, r)
  <2> HIDE DEF up, r
  <2>1. Changed(st, cc, up, S, EachPosAdd(st, S, d))
    BY <1>1, <1>2, <1>6, <1>7, PosAddFold
  <2> QED BY <2>1 DEF r
<1> HIDE DEF r
<1>9. r \in Good
  <2>1. OwnedIn(cc, S)
    BY <1>3, <1>4 DEF OwnedIn
  <2>2. S \in SUBSET Cells /\ Fit(r) /\ r.cell = Put(st, cc, S)
    BY <1>1, <1>8 DEF Changed
  <2> QED BY <2>1, <2>2, PutIsGood
<1>10. r.cell = Put(st, c, S)
  BY <1>5, <1>8 DEF Changed
<1> DEFINE n == IF Freed(st, r) = {} THEN 0 ELSE Min(Freed(st, r))
<1>11. n \in 0 .. NumCells
  BY FreedIs, CellsAre, SizesAre
<1>12. SeqAdd(st, s, p0, p1, d) = [r EXCEPT !.head = n]
  BY DEF SeqAdd, EachPosAdd, r, S
<1> HIDE DEF n
<1>13. SameCells(r, [r EXCEPT !.head = n])
  BY <1>9, <1>11, WithHead
<1> QED BY <1>10, <1>12, <1>13 DEF Becomes, SameCells, S, c

\* seq_div.
HalvedCells(st, d) == [i \in Cells |-> Halved(st.cell[i], d)]

LEMMA SeqDivIs ==
    ASSUME NEW st \in Good, NEW s, NEW p0, NEW p1, NEW d \in Nat, d >= 1
    PROVE  Becomes(st, HalvedCells(st, d), WithSeq(st, s, p0, p1), SeqDiv(st, s, p0, p1, d))
<1> DEFINE S == WithSeq(st, s, p0, p1)
           c == HalvedCells(st, d)
           up == S
           r == EachPosDiv(st, S, d)
<1>1. S \in SUBSET Cells /\ \A i \in S : st.cell[i].pos # -1 /\ s \in st.cell[i].seqs
  BY DEF WithSeq, InRange, IsEmpty
<1>2. Fit(st) /\ st.cell \in [Cells -> Cell]
  BY GoodCells, FitIsLoose
<1>3. ASSUME NEW i \in S
      PROVE  /\ c[i] \in Cell /\ c[i] = Halved(st.cell[i], d) /\ c[i].pos # -1 /\ c[i].seqs # {}
  <2>1. c[i] = Halved(st.cell[i], d) /\ st.cell[i] \in Cell
    BY <1>1, <1>2 DEF HalvedCells
  <2>2. st.cell[i].pos \in Positions /\ st.cell[i].seqs # {}
    BY <1>1, <1>2, FitIsLoose
  <2> DEFINE n == st.cell[i].pos \div d
  <2>3. n \in Positions
    BY <2>2, Divided
  <2>4. Halved(st.cell[i], d) = [pos |-> n, shift |-> st.cell[i].shift + st.cell[i].pos - n, seqs |-> st.cell[i].seqs]
    BY DEF Halved
  <2> HIDE DEF c, n
  <2>5. n \in Int /\ n # -1 /\ st.cell[i].pos \in Int /\ st.cell[i].shift \in Int /\ st.cell[i].seqs \subseteq Seqs
    BY <2>1, <2>2, <2>3 DEF Positions, Cell
  <2> QED BY <2>1, <2>2, <2>3, <2>4, <2>5 DEF Cell
<1> DEFINE cc == [i \in Cells |-> IF i \in S THEN c[i] ELSE EmptyCell]
<1>4. cc \in [Cells -> Cell] /\ \A i \in S : cc[i] = c[i]
  BY <1>1, <1>3, EmptyIs
<1>5. Put(st, cc, S) = Put(st, c, S)
  BY DEF Put
<1> HIDE DEF S, c, cc
<1>6. Sound(st, cc, up, S)
  BY <1>1, <1>3, <1>4 DEF Sound
<1>7. ASSUME NEW i \in S, NEW t \in StreamType, Fit(t), t.cell[i] = st.cell[i]
      PROVE  PosDiv(t, i, d) = Turned(t, i, cc[i], t.has_shift \/ i \in up)
  <2>1. t \in Loose /\ i \in t.used /\ t.has_shift \in BOOLEAN /\ t.cell[i].pos \in Positions
    BY <1>1, <1>7, FitIsLoose DEF Fit
  <2>2. PosDiv(t, i, d) = Turned(t, i, Halved(t.cell[i], d), TRUE)
    BY <2>1, PosDivIs
  <2>3. (t.has_shift \/ i \in up) = TRUE
    BY <2>1
  <2> QED BY <1>3, <1>4, <1>7, <2>2, <2>3
<1>8. Changed(st, cc, up, S, r)
  <2> HIDE DEF up, r
  <2>1. Changed(st, cc, up, S, EachPosDiv(st, S, d))
    BY <1>1, <1>2, <1>6, <1>7, PosDivFold
  <2> QED BY <2>1 DEF r
<1> HIDE DEF r
<1>9. r \in Good
  <2>1. OwnedIn(cc, S)
    BY <1>3, <1>4 DEF OwnedIn
  <2>2. S \in SUBSET Cells /\ Fit(r) /\ r.cell = Put(st, cc, S)
    BY <1>1, <1>8 DEF Changed
  <2> QED BY <2>1, <2>2, PutIsGood
<1>10. r.cell = Put(st, c, S)
  BY <1>5, <1>8 DEF Changed
<1>11. SeqDiv(st, s, p0, p1, d) = r
  BY DEF SeqDiv, EachPosDiv, r, S
<1> QED BY <1>9, <1>10, <1>11 DEF Becomes, S, c

\* One cell of a copy: at the position it was written for, then shifted like the other.
CopiedCell(a, d) == [pos |-> a.pos, shift |-> a.shift, seqs |-> {d}]

LEMMA CopyCellIs ==
    ASSUME NEW t, Fit(t), NEW i \in Cells, t.cell[i] = EmptyCell, NEW a \in Cell, a.pos \in Positions, NEW d \in Seqs
    PROVE  CopyCell(t, i, a, d) = Turned(t, i, CopiedCell(a, d), t.has_shift \/ a.shift # 0)
<1> DEFINE p  == a.pos - a.shift
           b  == [pos |-> p, shift |-> 0, seqs |-> {d}]
           t1 == PosSet(t, i, p)
           t2 == CellSeqAdd(t1, i, d)
           c  == CopiedCell(a, d)
           f  == [t.cell EXCEPT ![i] = b]
           sp == [t.seq_pos EXCEPT ![d][p] = @ + 1]
<1>1. /\ t \in Loose /\ t.cell \in [Cells -> LooseCell] /\ t.used \subseteq Cells /\ t.head \in 0 .. NumCells
      /\ t.seq_pos \in [Seqs -> [Positions -> Int]] /\ t.has_shift \in BOOLEAN
  BY FitIsLoose, LooseParts
<1>2. a.pos \in Int /\ a.pos >= 0 /\ a.shift \in Int /\ p \in Int /\ p + a.shift = a.pos
  <2>1. a.pos \in Int /\ a.pos >= 0 /\ a.shift \in Int
    BY SizesAre DEF Cell, Positions
  <2> QED BY <2>1
<1>3. b \in LooseCell /\ b.seqs = {d} /\ b.pos = p /\ b.shift = 0
  BY <1>2 DEF LooseCell
<1>4. c \in LooseCell /\ c.pos = a.pos /\ c.seqs = {d} /\ c.pos # -1 /\ c.shift = a.shift
  BY <1>2 DEF LooseCell, CopiedCell
<1> HIDE DEF p, c
<1>5. t1.cell = [t.cell EXCEPT ![i] = [pos |-> p, shift |-> 0, seqs |-> {}]] /\ t1.used = t.used \cup {i} /\ t1.has_shift = t.has_shift /\ t1.head = t.head /\ t1.seq_pos = t.seq_pos /\ t1 \in Loose
  <2>1. t1 = [t EXCEPT !.cell[i].pos = p, !.used = @ \cup {i}]
    BY DEF PosSet
  <2> HIDE DEF t1
  <2>2. t1.cell = [t.cell EXCEPT ![i].pos = p] /\ t1.used = t.used \cup {i}
    BY <1>1, <2>1 DEF Loose
  <2>3. [t.cell EXCEPT ![i].pos = p] = [t.cell EXCEPT ![i] = [pos |-> p, shift |-> 0, seqs |-> {}]]
    <3>1. [t.cell[i] EXCEPT !.pos = p] = [pos |-> p, shift |-> 0, seqs |-> {}]
      BY DEF EmptyCell
    <3>2. [t.cell EXCEPT ![i].pos = p] = [t.cell EXCEPT ![i] = [t.cell[i] EXCEPT !.pos = p]]
      BY <1>1
    <3> QED BY <3>1, <3>2
  <2>4. [t.cell EXCEPT ![i].pos = p] \in [Cells -> LooseCell]
    BY <1>1, <1>2, <2>3 DEF LooseCell
  <2> QED BY <1>1, <2>1, <2>2, <2>3, <2>4 DEF Loose
<1>6. ASSUME NEW q \in Seqs, NEW x \in Positions
      PROVE  sp[q][x] = t.seq_pos[q][x] + One(b, q, x) /\ sp[q] = [y \in Positions |-> sp[q][y]]
  <2>1. t.seq_pos[q] \in [Positions -> Int] /\ t.seq_pos[q][x] \in Int
    BY <1>1
  <2>2. One(b, q, x) = IF q = d /\ x = p THEN 1 ELSE 0
    BY <1>3 DEF One
  <2> HIDE DEF b
  <2> QED BY <1>1, <2>1, <2>2
<1>7. sp \in [Seqs -> [Positions -> Int]]
  <2>1. \A q \in Seqs : sp[q] = [x \in Positions |-> sp[q][x]]
    <3> TAKE q \in Seqs
    <3>1. 0 \in Positions
      BY SizesAre DEF Positions
    <3> QED BY <1>6, <3>1
  <2>2. \A q \in Seqs, x \in Positions : sp[q][x] \in Int
    <3> TAKE q \in Seqs, x \in Positions
    <3>1. t.seq_pos[q][x] \in Int /\ One(b, q, x) \in Int
      BY <1>1, OneIs
    <3> QED BY <1>6, <3>1
  <2>3. sp = [q \in Seqs |-> sp[q]]
    BY <1>1
  <2> HIDE DEF sp
  <2> QED BY <2>1, <2>2, <2>3
<1>8. t2.cell = f /\ t2.used = t.used \cup {i} /\ t2.has_shift = t.has_shift /\ t2.head = t.head /\ t2.seq_pos = sp /\ t2 \in Loose
  <2>1. t1.cell[i].pos = p /\ t1.cell[i].seqs = {}
    BY <1>1, <1>5
  <2>2. t2 = [t1 EXCEPT !.cell[i].seqs = @ \cup {d}, !.seq_pos[d][p] = @ + 1]
    BY <2>1 DEF CellSeqAdd
  <2> HIDE DEF t1, t2
  <2>3. t2.cell = [t1.cell EXCEPT ![i].seqs = @ \cup {d}] /\ t2.seq_pos = sp
    BY <1>5, <2>2 DEF Loose
  <2>4. [t1.cell EXCEPT ![i].seqs = @ \cup {d}] = f
    <3> DEFINE e == [pos |-> p, shift |-> 0, seqs |-> {}]
    <3>1. [e EXCEPT !.seqs = @ \cup {d}] = b
      OBVIOUS
    <3>2. t1.cell[i] = e /\ t1.cell = [t.cell EXCEPT ![i] = e]
      BY <1>1, <1>5
    <3>3. [t1.cell EXCEPT ![i].seqs = @ \cup {d}] = [t1.cell EXCEPT ![i] = [t1.cell[i] EXCEPT !.seqs = @ \cup {d}]]
      OBVIOUS
    <3> HIDE DEF e, b
    <3>4. [[t.cell EXCEPT ![i] = e] EXCEPT ![i] = b] = [t.cell EXCEPT ![i] = b]
      BY <1>1
    <3> QED BY <3>1, <3>2, <3>3, <3>4
  <2>5. f \in [Cells -> LooseCell]
    BY <1>1, <1>3
  <2> HIDE DEF f, sp
  <2> QED BY <1>5, <1>7, <2>2, <2>3, <2>4, <2>5 DEF Loose
<1> HIDE DEF t1, t2, sp
<1>9. f[i] = b /\ \A g \in LooseCell : [f EXCEPT ![i] = g] = [t.cell EXCEPT ![i] = g]
  BY <1>1
<1>10. \A q \in Seqs, x \in Positions : One(t.cell[i], q, x) = 0
  BY EmptyIs DEF One
<1>11. CASE a.shift = 0
  <2>1. CopyCell(t, i, a, d) = t2
    BY <1>11 DEF CopyCell, t2, t1, p
  <2>2. c = b
    BY <1>2, <1>11 DEF c, CopiedCell
  <2>3. \A q \in Seqs, x \in Positions : t2.seq_pos[q][x] = t.seq_pos[q][x] - One(t.cell[i], q, x) + One(c, q, x)
    <3> TAKE q \in Seqs, x \in Positions
    <3>1. t.seq_pos[q][x] \in Int
      BY <1>1
    <3>2. One(c, q, x) = One(b, q, x)
      BY <2>2
    <3>3. t2.seq_pos[q][x] = t.seq_pos[q][x] + One(b, q, x)
      BY <1>6, <1>8
    <3>4. One(t.cell[i], q, x) = 0
      BY <1>10
    <3>5. One(b, q, x) \in Int
      BY OneIs
    <3> HIDE DEF b
    <3> QED BY <3>1, <3>2, <3>3, <3>4, <3>5
  <2> DEFINE h == t.has_shift
  <2>4. TurnsInto(t, i, c, h, t2) /\ h \in BOOLEAN
    BY <1>1, <1>4, <1>8, <2>2, <2>3 DEF TurnsInto
  <2>5. h = (t.has_shift \/ a.shift # 0)
    BY <1>1, <1>11
  <2> HIDE DEF h
  <2>6. t2 = Turned(t, i, c, h)
    BY <1>1, <1>4, <2>4, IsTurned
  <2> QED BY <2>1, <2>5, <2>6 DEF c
<1>12. CASE a.shift # 0
  <2>1. CopyCell(t, i, a, d) = PosAdd(t2, i, a.shift)
    BY <1>12 DEF CopyCell, t2, t1, p
  <2>2. t2.cell[i] = b
    BY <1>8, <1>9
  <2>3. Moved(b, a.shift) = c
    <3> HIDE DEF b
    <3>1. b.pos + a.shift = a.pos /\ ~(a.pos < 0) /\ b.shift + a.shift = a.shift
      BY <1>2, <1>3
    <3>2. Moved(b, a.shift) = [pos |-> b.pos + a.shift, shift |-> b.shift + a.shift, seqs |-> b.seqs]
      BY <3>1 DEF Moved
    <3> QED BY <1>3, <3>1, <3>2 DEF c, CopiedCell
  <2> DEFINE h == TRUE
             r == PosAdd(t2, i, a.shift)
  <2>4. i \in t2.used
    BY <1>8
  <2>5. r = Turned(t2, i, c, TRUE)
    <3> HIDE DEF b
    <3>1. PosAdd(t2, i, a.shift) = Turned(t2, i, Moved(t2.cell[i], a.shift), TRUE)
      BY <1>2, <1>8, <2>4, PosAddIs, ZenonT(60)
    <3> QED BY <2>2, <2>3, <3>1
  <2>6. h \in BOOLEAN /\ h = (t.has_shift \/ a.shift # 0) /\ r = Turned(t2, i, c, h)
    BY <1>12, <2>5
  <2> HIDE DEF h, r, b
  <2>7. TurnsInto(t2, i, c, h, r)
    BY <1>4, <1>8, <2>6, TurnedLoose
  <2>8. r \in Loose /\ r.cell = [t2.cell EXCEPT ![i] = c] /\ r.used = t2.used \cup {i} /\ r.head = t2.head /\ r.has_shift = h
    BY <1>4, <2>7 DEF TurnsInto
  <2>9. [t2.cell EXCEPT ![i] = c] = [t.cell EXCEPT ![i] = c]
    BY <1>4, <1>8, <1>9
  <2>10. r.used = t.used \cup {i} /\ r.head = t.head /\ r.cell = [t.cell EXCEPT ![i] = c]
    BY <1>8, <2>8, <2>9
  <2>11. \A q \in Seqs, x \in Positions : r.seq_pos[q][x] = t.seq_pos[q][x] - One(t.cell[i], q, x) + One(c, q, x)
    <3> TAKE q \in Seqs, x \in Positions
    <3>1. t.seq_pos[q][x] \in Int /\ One(b, q, x) \in Int /\ One(c, q, x) \in Int
      BY <1>1, OneIs
    <3>2. r.seq_pos[q][x] = sp[q][x] - One(b, q, x) + One(c, q, x)
      BY <1>8, <2>2, <2>7 DEF TurnsInto
    <3>3. sp[q][x] = t.seq_pos[q][x] + One(b, q, x) /\ One(t.cell[i], q, x) = 0
      BY <1>6, <1>10
    <3> QED BY <3>1, <3>2, <3>3
  <2>12. TurnsInto(t, i, c, h, r)
    BY <1>4, <2>8, <2>10, <2>11 DEF TurnsInto
  <2>13. r = Turned(t, i, c, h)
    BY <1>1, <1>4, <2>6, <2>12, IsTurned
  <2> QED BY <2>1, <2>6, <2>13 DEF r, c
<1> QED BY <1>11, <1>12

\* A cache that is new.
LEMMA EmptyStreamIs == EmptyStream \in Good /\ \A i \in Cells : EmptyStream.cell[i] = EmptyCell
<1>1. /\ EmptyStream.cell = [i \in Cells |-> EmptyCell] /\ EmptyStream.used = {} /\ EmptyStream.has_shift = FALSE
      /\ EmptyStream.seq_pos = [s \in Seqs |-> [p \in Positions |-> 0]] /\ EmptyStream.head = 0
  BY DEF EmptyStream
<1>2. EmptyStream \in StreamType
  BY EmptyIs, SizesAre DEF EmptyStream, StreamType
<1>3. \A i \in Cells : EmptyStream.cell[i] = EmptyCell
  BY <1>1
<1>4. \A s \in Seqs, p \in Positions : EmptyStream.seq_pos[s][p] = Cardinality(At(EmptyStream.cell, s, p))
  <2> TAKE s \in Seqs, p \in Positions
  <2>1. At(EmptyStream.cell, s, p) = {}
    BY <1>3, EmptyIs DEF At
  <2>2. Cardinality({}) = 0
    BY FS_EmptySet
  <2>3. EmptyStream.seq_pos[s][p] = 0
    BY <1>1
  <2> QED BY <2>1, <2>2, <2>3
<1>5. Fit(EmptyStream)
  BY <1>1, <1>2, <1>3, <1>4, EmptyIs DEF Fit
<1>6. Owned(EmptyStream)
  BY <1>3, EmptyIs DEF Owned
<1> QED BY <1>3, <1>5, <1>6, GoodIs

\* seq_cp to another stream.
CopiedCells(from, d) == [i \in Cells |-> CopiedCell(from.cell[i], d)]

LEMMA CopyStreamIs ==
    ASSUME NEW from \in Good, NEW s, NEW d \in Seqs
    PROVE  Becomes(EmptyStream, CopiedCells(from, d), WithSeq(from, s, 0, -1), CopyStream(from, s, d))
<1> DEFINE S == WithSeq(from, s, 0, -1)
           c == CopiedCells(from, d)
           up == {i \in Cells : from.cell[i].shift # 0}
           st == EmptyStream
           r == EachCopy(st, S, d, from)
<1>1. S \in SUBSET Cells /\ \A i \in S : from.cell[i].pos # -1 /\ s \in from.cell[i].seqs
  BY DEF WithSeq, InRange, IsEmpty
<1>2. from.cell \in [Cells -> Cell] /\ Fit(st) /\ st \in Good
  BY GoodCells, FitIsLoose, EmptyStreamIs
<1>3. ASSUME NEW i \in S
      PROVE  /\ c[i] \in Cell /\ c[i] = CopiedCell(from.cell[i], d) /\ c[i].pos # -1 /\ c[i].seqs # {}
             /\ from.cell[i] \in Cell /\ from.cell[i].pos \in Positions /\ c[i].shift = from.cell[i].shift
  <2>1. c[i] = CopiedCell(from.cell[i], d) /\ from.cell[i] \in Cell
    BY <1>1, <1>2 DEF CopiedCells
  <2>2. from.cell[i].pos \in Positions
    BY <1>1, GoodCells, FitIsLoose
  <2>3. from.cell[i].pos # -1
    BY <1>1
  <2> HIDE DEF c
  <2> QED BY <2>1, <2>2, <2>3 DEF Cell, CopiedCell
<1> DEFINE cc == [i \in Cells |-> IF i \in S THEN c[i] ELSE EmptyCell]
<1>4. cc \in [Cells -> Cell] /\ \A i \in S : cc[i] = c[i]
  BY <1>1, <1>3, EmptyIs
<1>5. Put(st, cc, S) = Put(st, c, S)
  BY DEF Put
<1>6. \A i \in Cells : i \in up <=> from.cell[i].shift # 0
  OBVIOUS
<1>7. \A i \in Cells : st.cell[i] = EmptyCell
  BY EmptyStreamIs
<1> HIDE DEF S, c, cc, up, st
<1>8. Sound(st, cc, up, S)
  BY <1>1, <1>3, <1>4, <1>6 DEF Sound
<1>9. ASSUME NEW i \in S, NEW t \in StreamType, Fit(t), t.cell[i] = st.cell[i]
      PROVE  CopyCell(t, i, from.cell[i], d) = Turned(t, i, cc[i], t.has_shift \/ i \in up)
  <2>1. t.has_shift \in BOOLEAN /\ t.cell[i] = EmptyCell /\ i \in Cells
    BY <1>1, <1>7, <1>9, FitIsLoose
  <2>2. CopyCell(t, i, from.cell[i], d) = Turned(t, i, CopiedCell(from.cell[i], d), t.has_shift \/ from.cell[i].shift # 0)
    BY <1>3, <1>9, <2>1, CopyCellIs
  <2>3. (t.has_shift \/ i \in up) = (t.has_shift \/ from.cell[i].shift # 0)
    BY <1>6, <2>1
  <2> QED BY <1>3, <1>4, <2>2, <2>3
<1>10. Changed(st, cc, up, S, r)
  BY <1>1, <1>2, <1>8, <1>9, CopyCellFold
<1> HIDE DEF r
<1>11. r \in Good
  <2>1. OwnedIn(cc, S)
    BY <1>3, <1>4 DEF OwnedIn
  <2>2. S \in SUBSET Cells /\ Fit(r) /\ r.cell = Put(st, cc, S)
    BY <1>1, <1>10 DEF Changed
  <2> QED BY <1>2, <2>1, <2>2, PutIsGood
<1>12. r.cell = Put(st, c, S)
  BY <1>5, <1>10 DEF Changed
<1>13. CopyStream(from, s, d) = [r EXCEPT !.head = from.head]
  BY DEF CopyStream, EachCopy, r, S, st
<1>14. from.head \in 0 .. NumCells
  BY GoodCells, FitIsLoose
<1>15. SameCells(r, [r EXCEPT !.head = from.head])
  BY <1>11, <1>14, WithHead
<1> QED BY <1>12, <1>13, <1>15 DEF Becomes, SameCells, S, c, st

\* set of one cell: all of it but the shift, which stays.
Again(a, shift) == [pos |-> a.pos, shift |-> shift, seqs |-> a.seqs]

LEMMA SetCellIs ==
    ASSUME NEW t, Fit(t), NEW i \in Cells, NEW a \in Cell, a.pos = -1 => a.seqs = {}
    PROVE  SetCell(t, i, a) = Turned(t, i, Again(a, t.cell[i].shift), t.has_shift)
<1> DEFINE c == Again(a, t.cell[i].shift)
           v == IF IsEmpty(t, i) THEN t ELSE SeqPosRm(t, i)
           n == IF c.pos = -1 THEN t.used \ {i} ELSE t.used \cup {i}
           u == [v EXCEPT !.cell[i] = c, !.used = IF c.pos = -1 THEN @ \ {i} ELSE @ \cup {i}]
           r == SetCell(t, i, a)
<1>1. /\ t \in Loose /\ t.cell \in [Cells -> LooseCell] /\ t.used \subseteq Cells /\ t.head \in 0 .. NumCells
      /\ t.seq_pos \in [Seqs -> [Positions -> Int]] /\ t.has_shift \in BOOLEAN /\ t.cell[i].shift \in Int
  BY FitIsLoose, LooseParts
<1>2. c \in LooseCell /\ c.pos = a.pos /\ c.seqs = a.seqs
  BY <1>1 DEF LooseCell, Cell, Positions, Again
<1>3. r = IF c.pos = -1 THEN u ELSE SeqPosAdd(u, i)
  BY DEF SetCell, Again
<1>4. /\ v \in Loose /\ v.cell = t.cell /\ v.used = t.used /\ v.has_shift = t.has_shift /\ v.head = t.head
      /\ \A s \in Seqs, p \in Positions : v.seq_pos[s][p] = t.seq_pos[s][p] - One(t.cell[i], s, p)
  <2>1. CASE IsEmpty(t, i)
    <3>1. t.cell[i] = EmptyCell /\ v = t
      BY <2>1 DEF IsEmpty, Fit
    <3>2. \A s \in Seqs, p \in Positions : One(t.cell[i], s, p) = 0 /\ t.seq_pos[s][p] \in Int
      BY <1>1, <3>1, EmptyIs DEF One
    <3> HIDE DEF v
    <3>3. \A s \in Seqs, p \in Positions : v.seq_pos[s][p] = t.seq_pos[s][p] - One(t.cell[i], s, p)
      <4> TAKE s \in Seqs, p \in Positions
      <4> QED BY <3>1, <3>2
    <3> QED BY <1>1, <3>1, <3>3
  <2>2. CASE ~IsEmpty(t, i)
    <3>1. v = SeqPosRm(t, i)
      BY <2>2
    <3> HIDE DEF v
    <3> QED BY <1>1, <3>1, SeqPosRmParts
  <2> QED BY <2>1, <2>2
<1> HIDE DEF v, c
<1>5. /\ u \in Loose /\ u.cell = [t.cell EXCEPT ![i] = c] /\ u.used = n /\ u.has_shift = t.has_shift /\ u.head = t.head
      /\ u.seq_pos = v.seq_pos /\ u.cell[i] = c
  <2>1. u = [v EXCEPT !.cell = [t.cell EXCEPT ![i] = c], !.used = n]
    BY <1>4
  <2>2. [t.cell EXCEPT ![i] = c] \in [Cells -> LooseCell] /\ [t.cell EXCEPT ![i] = c][i] = c
    BY <1>1, <1>2
  <2>3. n \subseteq Cells
    BY <1>1
  <2> HIDE DEF u, n
  <2> QED BY <1>4, <2>1, <2>2, <2>3 DEF Loose
<1> HIDE DEF u, r
<1>6. CASE c.pos = -1
  <2>1. \A s \in Seqs, p \in Positions : r.seq_pos[s][p] = t.seq_pos[s][p] - One(t.cell[i], s, p) + One(c, s, p)
    <3> TAKE s \in Seqs, p \in Positions
    <3>1. One(c, s, p) = 0 /\ One(t.cell[i], s, p) \in Int /\ t.seq_pos[s][p] \in Int
      BY <1>1, <1>2, <1>6, OneIs DEF One
    <3>2. r.seq_pos[s][p] = t.seq_pos[s][p] - One(t.cell[i], s, p)
      BY <1>3, <1>4, <1>5, <1>6
    <3> QED BY <3>1, <3>2
  <2>2. TurnsInto(t, i, c, t.has_shift, r)
    BY <1>3, <1>5, <1>6, <2>1 DEF TurnsInto
  <2>3. r = Turned(t, i, c, t.has_shift)
    BY <1>1, <1>2, <2>2, IsTurned
  <2> QED BY <2>3 DEF r, c
<1>7. CASE c.pos # -1
  <2>1. MoreAt(u, i, r)
    <3>1. r = SeqPosAdd(u, i)
      BY <1>3, <1>7
    <3>2. MoreAt(u, i, SeqPosAdd(u, i))
      BY <1>5, SeqPosAddParts
    <3> QED BY <3>1, <3>2
  <2>2. \A s \in Seqs, p \in Positions : r.seq_pos[s][p] = t.seq_pos[s][p] - One(t.cell[i], s, p) + One(c, s, p)
    <3> TAKE s \in Seqs, p \in Positions
    <3>1. r.seq_pos[s][p] = u.seq_pos[s][p] + One(u.cell[i], s, p)
      BY <2>1 DEF MoreAt
    <3> QED BY <1>4, <1>5, <3>1
  <2>3. TurnsInto(t, i, c, t.has_shift, r)
    BY <1>5, <1>7, <2>1, <2>2 DEF TurnsInto, MoreAt
  <2>4. r = Turned(t, i, c, t.has_shift)
    BY <1>1, <1>2, <2>3, IsTurned
  <2> QED BY <2>4 DEF r, c
<1> QED BY <1>6, <1>7

\* The cells S taken back to what they were in another stream, but for the shift.
TookBack(st, from, S, r) ==
    /\ r \in Good /\ r.has_shift = st.has_shift
    /\ r.cell = Put(st, [i \in Cells |-> Again(from.cell[i], 0)], S)

LEMMA TakeBackIs ==
    ASSUME NEW st \in Good, NEW from \in Good, NEW S \in SUBSET Cells, \A i \in S : st.cell[i].shift = 0,
           NEW h \in 0 .. NumCells
    PROVE  TookBack(st, from, S, [EachSet(st, S, from) EXCEPT !.head = h])
<1> DEFINE c == [i \in Cells |-> Again(from.cell[i], 0)]
           up == {}
           r == EachSet(st, S, from)
<1>1. from.cell \in [Cells -> Cell] /\ st.cell \in [Cells -> Cell] /\ Fit(st) /\ st.has_shift \in BOOLEAN
  BY GoodCells, FitIsLoose
<1>2. ASSUME NEW i \in Cells
      PROVE  /\ c[i] \in Cell /\ c[i] = Again(from.cell[i], 0) /\ (c[i].pos = -1 => c[i] = EmptyCell) /\ c[i].shift = 0
             /\ (c[i].seqs = {} => c[i].pos = -1) /\ (from.cell[i].pos = -1 => from.cell[i].seqs = {})
  <2>1. c[i] = Again(from.cell[i], 0) /\ from.cell[i] \in Cell
    BY <1>1
  <2>2. (from.cell[i].pos = -1 => from.cell[i] = EmptyCell) /\ (from.cell[i].seqs = {} => from.cell[i].pos = -1)
    BY GoodCells
  <2>3. from.cell[i].pos = -1 => from.cell[i].seqs = {}
    BY <2>2, EmptyIs
  <2> HIDE DEF c
  <2>4. c[i] \in Cell /\ c[i].pos = from.cell[i].pos /\ c[i].seqs = from.cell[i].seqs /\ c[i].shift = 0
    BY <2>1 DEF Cell, Again
  <2>5. c[i].pos = -1 => c[i] = EmptyCell
    <3>1. c[i] = [pos |-> from.cell[i].pos, shift |-> 0, seqs |-> from.cell[i].seqs]
      BY <2>1 DEF Again
    <3>2. ASSUME from.cell[i].pos = -1
          PROVE  c[i] = EmptyCell
      BY <2>3, <3>1, <3>2 DEF EmptyCell
    <3> QED BY <2>4, <3>2
  <2> QED BY <2>1, <2>2, <2>3, <2>4, <2>5
<1>3. c \in [Cells -> Cell]
  <2>1. c = [i \in Cells |-> c[i]]
    OBVIOUS
  <2> HIDE DEF c
  <2> QED BY <1>2, <2>1
<1> HIDE DEF c
<1>4. Sound(st, c, up, S)
  BY <1>2, <1>3 DEF Sound
<1>5. ASSUME NEW i \in S, NEW t \in StreamType, Fit(t), t.cell[i] = st.cell[i]
      PROVE  SetCell(t, i, from.cell[i]) = Turned(t, i, c[i], t.has_shift \/ i \in up)
  <2>1. t.has_shift \in BOOLEAN /\ i \in Cells /\ t.cell[i].shift = 0 /\ from.cell[i] \in Cell
    BY <1>1, <1>5, FitIsLoose
  <2>2. SetCell(t, i, from.cell[i]) = Turned(t, i, Again(from.cell[i], t.cell[i].shift), t.has_shift)
    BY <1>2, <1>5, <2>1, SetCellIs
  <2>3. (t.has_shift \/ i \in up) = t.has_shift
    BY <2>1
  <2> QED BY <1>2, <2>1, <2>2, <2>3
<1>6. Changed(st, c, up, S, r)
  BY <1>1, <1>4, <1>5, SetCellFold
<1> HIDE DEF r
<1>7. r \in Good
  <2>1. OwnedIn(c, S)
    BY <1>2 DEF OwnedIn
  <2>2. S \in SUBSET Cells /\ Fit(r) /\ r.cell = Put(st, c, S)
    BY <1>6 DEF Changed
  <2> QED BY <2>1, <2>2, PutIsGood
<1>8. r.has_shift = st.has_shift /\ r.cell = Put(st, c, S)
  <2>1. r.has_shift = (st.has_shift \/ S \cap up # {}) /\ r.cell = Put(st, c, S)
    BY <1>6 DEF Changed
  <2> QED BY <1>1, <2>1
<1> DEFINE q == [r EXCEPT !.head = h]
<1>9. SameCells(r, q)
  BY <1>7, WithHead
<1> HIDE DEF q
<1>10. TookBack(st, from, S, q)
  BY <1>8, <1>9 DEF TookBack, SameCells, c
<1> QED BY <1>10 DEF q, r

\* A token's sequences are added to its cell, one after the other.
TokenCell(p, T) == [pos |-> p, shift |-> 0, seqs |-> T]
Partly(st, i, p, T, u) ==
    /\ Fit(u) /\ u.has_shift = st.has_shift /\ u.head = st.head
    /\ u.cell = [st.cell EXCEPT ![i] = TokenCell(p, T)]

LEMMA PartlyMore ==
    ASSUME NEW st, Fit(st), NEW i \in Cells, NEW p \in Positions, NEW T \in SUBSET Seqs, NEW x \in T,
           NEW v, Partly(st, i, p, T \ {x}, v)
    PROVE  Partly(st, i, p, T, CellSeqAdd(v, i, x))
<1> DEFINE a == v.cell[i]
           b == TokenCell(p, T)
           h == v.has_shift
           w == CellSeqAdd(v, i, x)
<1>1. /\ Fit(v) /\ v \in Loose /\ v.has_shift \in BOOLEAN /\ v.used = {j \in Cells : v.cell[j].pos # -1}
      /\ v.cell = [st.cell EXCEPT ![i] = TokenCell(p, T \ {x})] /\ st.cell \in [Cells -> Cell]
      /\ v.has_shift = st.has_shift /\ v.head = st.head
  BY FitIsLoose DEF Partly, Fit
<1>2. a = TokenCell(p, T \ {x})
  BY <1>1
<1>3. p # -1 /\ p \in Int
  BY SizesAre DEF Positions
<1>4. a.pos # -1 /\ x \notin a.seqs /\ [a EXCEPT !.seqs = @ \cup {x}] = b
  <2>1. a = [pos |-> p, shift |-> 0, seqs |-> T \ {x}]
    BY <1>2 DEF TokenCell
  <2> HIDE DEF a
  <2>2. (T \ {x}) \cup {x} = T
    OBVIOUS
  <2> QED BY <1>3, <2>1, <2>2 DEF TokenCell
<1>5. b \in Cell /\ b.pos # -1 /\ b.shift = 0
  BY <1>3 DEF Cell, TokenCell
<1> HIDE DEF b
<1>6. i \in v.used
  <2>1. v.cell[i].pos # -1
    BY <1>4
  <2> QED BY <1>1, <2>1
<1>7. w = Turned(v, i, b, h)
  <2>1. a = v.cell[i] /\ x \in Seqs /\ v \in Loose /\ x \notin a.seqs /\ a.pos # -1
    BY <1>1, <1>4
  <2> HIDE DEF a
  <2>2. CellSeqAdd(v, i, x) = Turned(v, i, [a EXCEPT !.seqs = @ \cup {x}], v.has_shift)
    BY <1>6, <2>1, CellSeqAddIs
  <2> QED BY <1>4, <2>2
<1> HIDE DEF a, w
<1>8. TurnsWell(v, i, b, h, w)
  <2>1. (b.pos = -1 => b = EmptyCell) /\ (v.has_shift => h) /\ (~h => b.shift = 0) /\ h \in BOOLEAN
    BY <1>1, <1>5
  <2> HIDE DEF h
  <2>2. TurnsWell(v, i, b, h, Turned(v, i, b, h))
    BY <1>1, <1>5, <2>1, TurnedFit
  <2> QED BY <1>7, <2>2
<1>9. [v.cell EXCEPT ![i] = b] = [st.cell EXCEPT ![i] = b]
  BY <1>1
<1>10. Partly(st, i, p, T, w)
  BY <1>1, <1>8, <1>9 DEF Partly, TurnsWell, b
<1> QED BY <1>10 DEF w

EachToken(st, i, Q) == FoldSet(LAMBDA s, u : CellSeqAdd(u, i, s), st, Q)

LEMMA TokenFold ==
    ASSUME NEW st, Fit(st), NEW i \in Cells, NEW p \in Positions, NEW Q \in SUBSET Seqs,
           NEW b, Partly(st, i, p, {}, b)
    PROVE  Partly(st, i, p, Q, EachToken(b, i, Q))
<1> DEFINE H == {q \in (SUBSET Q) \X StreamType : Partly(st, i, p, q[1], q[2])}
           F == [q \in Q \X StreamType |-> CellSeqAdd(q[2], i, q[1])]
           ch   == [T \in (SUBSET Q) \ {{}} |-> CHOOSE x \in T : TRUE]
           D(h) == [T \in SUBSET Q |-> IF T = {} THEN b
                        ELSE CellSeqAdd(h[T \ {CHOOSE x \in T : TRUE}], i, CHOOSE x \in T : TRUE)]
           g    == CHOOSE h : h = D(h)
<1>0. \A v : Fit(v) => v \in StreamType
  BY DEF Fit
<1>1. \A T, v : <<T, v>> \in H <=> T \in SUBSET Q /\ v \in StreamType /\ Partly(st, i, p, T, v)
  OBVIOUS
<1>2. \A x \in Q, v \in StreamType : F[<<x, v>>] = CellSeqAdd(v, i, x)
  OBVIOUS
<1>3. Chooses(ch, Q) /\ \A T \in (SUBSET Q) \ {{}} : ch[T] = CHOOSE x \in T : TRUE
  BY AnyChoice
<1> HIDE DEF H, F, ch
<1>4. \A T \in (SUBSET Q) \ {{}} : ch[T] \in T /\ ch[T] \in Q /\ T \ {ch[T]} \in SUBSET Q /\ T \in SUBSET Seqs
  BY <1>3 DEF Chooses
<1>5. <<{}, b>> \in H
  BY <1>0, <1>1 DEF Partly
<1>6. ASSUME NEW T \in (SUBSET Q) \ {{}}, NEW v, <<T \ {ch[T]}, v>> \in H
      PROVE  <<T, F[<<ch[T], v>>]>> \in H /\ v \in StreamType
  <2>1. v \in StreamType /\ Partly(st, i, p, T \ {ch[T]}, v)
    BY <1>1, <1>6
  <2> DEFINE w == CellSeqAdd(v, i, ch[T])
  <2>2. F[<<ch[T], v>>] = w
    BY <1>2, <1>4, <2>1
  <2>3. Partly(st, i, p, T, w)
    BY <1>4, <2>1, PartlyMore
  <2> HIDE DEF w
  <2>4. w \in StreamType
    BY <1>0, <2>3 DEF Partly
  <2> QED BY <1>1, <1>4, <2>1, <2>2, <2>3, <2>4
<1>7. IsFiniteSet(Q)
  BY SubsetsFinite
<1>8. /\ \E h : Traces(h, ch, Q, b, H, F)
      /\ \A h : Follows(h, ch, Q, b, H, F) => <<Q, h[Q]>> \in H
  BY <1>3, <1>5, <1>6, <1>7, FoldFrom
<1>9. PICK h : Traces(h, ch, Q, b, H, F)
  BY <1>8
<1>10. h = D(h)
  <2>1. \A T \in (SUBSET Q) \ {{}} : h[T] = CellSeqAdd(h[T \ {ch[T]}], i, ch[T])
    <3> TAKE T \in (SUBSET Q) \ {{}}
    <3>1. <<T \ {ch[T]}, h[T \ {ch[T]}]>> \in H /\ h[T] = F[<<ch[T], h[T \ {ch[T]}]>>]
      BY <1>9 DEF Traces
    <3>2. h[T \ {ch[T]}] \in StreamType
      BY <1>6, <3>1
    <3> QED BY <1>2, <1>4, <3>1, <3>2
  <2> QED BY <1>3, <1>9, <2>1 DEF Traces
<1>11. g = D(g)
  BY <1>10
<1> HIDE DEF g
<1>12. Follows(g, ch, Q, b, H, F)
  <2>1. g[{}] = b
    BY <1>11
  <2>2. ASSUME NEW T \in (SUBSET Q) \ {{}}, <<T \ {ch[T]}, g[T \ {ch[T]}]>> \in H
        PROVE  g[T] = F[<<ch[T], g[T \ {ch[T]}]>>]
    <3>1. g[T] = CellSeqAdd(g[T \ {ch[T]}], i, ch[T])
      BY <1>3, <1>11
    <3>2. g[T \ {ch[T]}] \in StreamType
      BY <1>6, <2>2
    <3> QED BY <1>2, <1>4, <3>1, <3>2
  <2> QED BY <2>1, <2>2 DEF Follows
<1>13. EachToken(b, i, Q) = g[Q]
  BY DEF EachToken, FoldSet, MapThenFoldSet, g
<1> QED BY <1>1, <1>8, <1>12, <1>13

-----------------------------------------------------------------------------
(* Folds over tokens, sequences, ubatches and what was placed.             *)

\* The tokens of a ubatch in their cells.
EachPlaced(st, idxs, tokens, q) == FoldLeft(LAMBDA t, j : PlaceToken(t, idxs[j], tokens[j]), st, q)
PlacedSteps(H, V, st, idxs, tokens, q) ==
    /\ H \subseteq (SUBSET (1 .. Len(q))) \X V /\ <<{}, st>> \in H
    /\ \A T \in SUBSET (1 .. Len(q)) : \A x \in T : (\A y \in T : y <= x) => \A v \in V : <<T \ {x}, v>> \in H => <<T, PlaceToken(v, idxs[q[x]], tokens[q[x]])>> \in H

LEMMA PlacedRule ==
    ASSUME NEW idxs, NEW tokens, NEW st,
           NEW A, NEW q \in Seq(A),
           NEW V, NEW H, PlacedSteps(H, V, st, idxs, tokens, q)
    PROVE  <<1 .. Len(q), EachPlaced(st, idxs, tokens, q)>> \in H
<1> DEFINE S    == 1 .. Len(q)
           F    == [p \in S \X V |-> PlaceToken(p[2], idxs[q[p[1]]], tokens[q[p[1]]])]
           ch   == [T \in (SUBSET S) \ {{}} |-> Max(T)]
           D(h) == [T \in SUBSET S |-> IF T = {} THEN st ELSE PlaceToken(h[T \ {Max(T)}], idxs[q[Max(T)]], tokens[q[Max(T)]])]
           g    == CHOOSE h : h = D(h)
<1>12. /\ H \subseteq (SUBSET (1 .. Len(q))) \X V /\ <<{}, st>> \in H
      /\ \A T \in SUBSET (1 .. Len(q)) : \A x \in T : (\A y \in T : y <= x) => \A v \in V : <<T \ {x}, v>> \in H => <<T, PlaceToken(v, idxs[q[x]], tokens[q[x]])>> \in H
  BY DEF PlacedSteps
<1>0. Len(q) \in Nat /\ S = 1 .. Len(q) /\ DOMAIN q = S
  OBVIOUS
<1>1. \A x \in S, v \in V : F[<<x, v>>] = PlaceToken(v, idxs[q[x]], tokens[q[x]])
  OBVIOUS
<1>2. Chooses(ch, S) /\ IsFiniteSet(S) /\ \A T \in (SUBSET S) \ {{}} : ch[T] = Max(T)
  <2>1. IsFiniteSet(S)
    BY <1>0, FS_Interval
  <2>2. ASSUME NEW T \in (SUBSET S) \ {{}}
        PROVE  Max(T) \in T
    <3>1. T \in SUBSET (0 .. Len(q)) /\ T \in SUBSET Nat /\ T # {} /\ Len(q) \in Nat
      BY <1>0
    <3> QED BY <3>1, MaxIs
  <2> QED BY <2>1, <2>2 DEF Chooses
<1>3. \A T \in (SUBSET S) \ {{}} : \A y \in T : y <= ch[T]
  <2> TAKE T \in (SUBSET S) \ {{}}
  <2>1. T \in SUBSET (0 .. Len(q)) /\ T \in SUBSET Nat /\ T # {} /\ Len(q) \in Nat
    BY <1>0
  <2> QED BY <1>2, <2>1, MaxIs
<1> HIDE DEF F, ch
<1>4. \A T \in (SUBSET S) \ {{}} : ch[T] \in T /\ ch[T] \in S /\ T \in SUBSET S
  BY <1>2 DEF Chooses
<1>5. ASSUME NEW T \in (SUBSET S) \ {{}}, NEW v, <<T \ {ch[T]}, v>> \in H
      PROVE  <<T, F[<<ch[T], v>>]>> \in H /\ v \in V
  <2>1. v \in V
    BY <1>12, <1>5
  <2>2. F[<<ch[T], v>>] = PlaceToken(v, idxs[q[ch[T]]], tokens[q[ch[T]]])
    BY <1>1, <1>4, <2>1
  <2>3. <<T, PlaceToken(v, idxs[q[ch[T]]], tokens[q[ch[T]]])>> \in H
    BY <1>12, <1>4, <1>3, <1>5, <2>1
  <2> QED BY <2>1, <2>2, <2>3
<1>6. /\ \E h : Traces(h, ch, S, st, H, F)
      /\ \A h : Follows(h, ch, S, st, H, F) => <<S, h[S]>> \in H
  <2>1. \A T \in (SUBSET S) \ {{}} : \A v : <<T \ {ch[T]}, v>> \in H => <<T, F[<<ch[T], v>>]>> \in H
    BY <1>5
  <2> QED BY <1>12, <1>2, <2>1, FoldFrom
<1>7. PICK h : Traces(h, ch, S, st, H, F)
  BY <1>6
<1>8. h = D(h)
  <2>1. \A T \in (SUBSET S) \ {{}} : h[T] = PlaceToken(h[T \ {ch[T]}], idxs[q[ch[T]]], tokens[q[ch[T]]])
    <3> TAKE T \in (SUBSET S) \ {{}}
    <3>1. <<T \ {ch[T]}, h[T \ {ch[T]}]>> \in H /\ h[T] = F[<<ch[T], h[T \ {ch[T]}]>>]
      BY <1>7 DEF Traces
    <3>2. h[T \ {ch[T]}] \in V
      BY <1>5, <3>1
    <3> QED BY <1>1, <1>4, <3>1, <3>2
  <2> QED BY <1>2, <1>7, <2>1 DEF Traces
<1>9. g = D(g)
  BY <1>8
<1> HIDE DEF g
<1>10. Follows(g, ch, S, st, H, F)
  <2>1. g[{}] = st
    BY <1>9
  <2>2. ASSUME NEW T \in (SUBSET S) \ {{}}, <<T \ {ch[T]}, g[T \ {ch[T]}]>> \in H
        PROVE  g[T] = F[<<ch[T], g[T \ {ch[T]}]>>]
    <3>1. g[T] = PlaceToken(g[T \ {ch[T]}], idxs[q[ch[T]]], tokens[q[ch[T]]])
      BY <1>2, <1>9
    <3>2. g[T \ {ch[T]}] \in V
      BY <1>5, <2>2
    <3> QED BY <1>1, <1>4, <3>1, <3>2
  <2> QED BY <2>1, <2>2 DEF Follows
<1>11. EachPlaced(st, idxs, tokens, q) = g[S]
  BY <1>0 DEF EachPlaced, FoldLeft, MapThenFoldSet, g
<1> QED BY <1>6, <1>10, <1>11

\* What is overwritten, purged for the sequences Q.
PurgeSeq(t, s, before, idxs) ==
    IF SeqPosMin(t, s) <= Max(Lost(before, idxs, s)) THEN SeqRm(t, s, 0, Max(Lost(before, idxs, s)) + 1) ELSE t
EachPurged(st, Q, before, idxs) == FoldSet(LAMBDA s, t : PurgeSeq(t, s, before, idxs), st, Q)
PurgedSteps(H, V, st, Q, before, idxs) ==
    /\ H \subseteq (SUBSET (Q)) \X V /\ <<{}, st>> \in H
    /\ \A T \in SUBSET (Q) : \A x \in T : \A v \in V : <<T \ {x}, v>> \in H => <<T, PurgeSeq(v, x, before, idxs)>> \in H

LEMMA PurgedRule ==
    ASSUME NEW Q, NEW before, NEW idxs, NEW st,
           IsFiniteSet(Q), NEW V, NEW H, PurgedSteps(H, V, st, Q, before, idxs)
    PROVE  <<Q, EachPurged(st, Q, before, idxs)>> \in H
<1> DEFINE S    == Q
           F    == [p \in S \X V |-> PurgeSeq(p[2], p[1], before, idxs)]
           ch   == [T \in (SUBSET S) \ {{}} |-> CHOOSE x \in T : TRUE]
           D(h) == [T \in SUBSET S |-> IF T = {} THEN st ELSE PurgeSeq(h[T \ {CHOOSE x \in T : TRUE}], CHOOSE x \in T : TRUE, before, idxs)]
           g    == CHOOSE h : h = D(h)
<1>12. /\ H \subseteq (SUBSET (Q)) \X V /\ <<{}, st>> \in H
      /\ \A T \in SUBSET (Q) : \A x \in T : \A v \in V : <<T \ {x}, v>> \in H => <<T, PurgeSeq(v, x, before, idxs)>> \in H
  BY DEF PurgedSteps
<1>1. \A x \in S, v \in V : F[<<x, v>>] = PurgeSeq(v, x, before, idxs)
  OBVIOUS
<1>2. Chooses(ch, S) /\ IsFiniteSet(S) /\ \A T \in (SUBSET S) \ {{}} : ch[T] = CHOOSE x \in T : TRUE
  BY AnyChoice
<1> HIDE DEF F, ch
<1>4. \A T \in (SUBSET S) \ {{}} : ch[T] \in T /\ ch[T] \in S /\ T \in SUBSET S
  BY <1>2 DEF Chooses
<1>5. ASSUME NEW T \in (SUBSET S) \ {{}}, NEW v, <<T \ {ch[T]}, v>> \in H
      PROVE  <<T, F[<<ch[T], v>>]>> \in H /\ v \in V
  <2>1. v \in V
    BY <1>12, <1>5
  <2>2. F[<<ch[T], v>>] = PurgeSeq(v, ch[T], before, idxs)
    BY <1>1, <1>4, <2>1
  <2>3. <<T, PurgeSeq(v, ch[T], before, idxs)>> \in H
    BY <1>12, <1>4, <1>5, <2>1
  <2> QED BY <2>1, <2>2, <2>3
<1>6. /\ \E h : Traces(h, ch, S, st, H, F)
      /\ \A h : Follows(h, ch, S, st, H, F) => <<S, h[S]>> \in H
  <2>1. \A T \in (SUBSET S) \ {{}} : \A v : <<T \ {ch[T]}, v>> \in H => <<T, F[<<ch[T], v>>]>> \in H
    BY <1>5
  <2> QED BY <1>12, <1>2, <2>1, FoldFrom
<1>7. PICK h : Traces(h, ch, S, st, H, F)
  BY <1>6
<1>8. h = D(h)
  <2>1. \A T \in (SUBSET S) \ {{}} : h[T] = PurgeSeq(h[T \ {ch[T]}], ch[T], before, idxs)
    <3> TAKE T \in (SUBSET S) \ {{}}
    <3>1. <<T \ {ch[T]}, h[T \ {ch[T]}]>> \in H /\ h[T] = F[<<ch[T], h[T \ {ch[T]}]>>]
      BY <1>7 DEF Traces
    <3>2. h[T \ {ch[T]}] \in V
      BY <1>5, <3>1
    <3> QED BY <1>1, <1>4, <3>1, <3>2
  <2> QED BY <1>2, <1>7, <2>1 DEF Traces
<1>9. g = D(g)
  BY <1>8
<1> HIDE DEF g
<1>10. Follows(g, ch, S, st, H, F)
  <2>1. g[{}] = st
    BY <1>9
  <2>2. ASSUME NEW T \in (SUBSET S) \ {{}}, <<T \ {ch[T]}, g[T \ {ch[T]}]>> \in H
        PROVE  g[T] = F[<<ch[T], g[T \ {ch[T]}]>>]
    <3> DEFINE y == CHOOSE x \in T : TRUE
    <3>0. T \in SUBSET S /\ T # {} /\ ch[T] = y
      BY <1>2
    <3>3. g[T] = PurgeSeq(g[T \ {y}], y, before, idxs)
      BY <1>9, <3>0
    <3>1. g[T] = PurgeSeq(g[T \ {ch[T]}], ch[T], before, idxs)
      BY <3>0, <3>3
    <3>2. g[T \ {ch[T]}] \in V
      BY <1>5, <2>2
    <3> QED BY <1>1, <1>4, <3>1, <3>2
  <2> QED BY <2>1, <2>2 DEF Follows
<1>11. EachPurged(st, Q, before, idxs) = g[S]
  BY DEF EachPurged, FoldSet, MapThenFoldSet, g
<1> QED BY <1>6, <1>10, <1>11

\* The cells of a round that can be used, in the order of the round.
Usable(st, found, i) == IF CanUse(st, i) THEN Append(found, i) ELSE found
EachUsable(st, q, none) == FoldLeft(LAMBDA found, i : Usable(st, found, i), none, q)
UsableSteps(H, V, st, q, none) ==
    /\ H \subseteq (SUBSET (1 .. Len(q))) \X V /\ <<{}, none>> \in H
    /\ \A T \in SUBSET (1 .. Len(q)) : \A x \in T : (\A y \in T : y <= x) => \A v \in V : <<T \ {x}, v>> \in H => <<T, Usable(st, v, q[x])>> \in H

LEMMA UsableRule ==
    ASSUME NEW st, NEW none,
           NEW A, NEW q \in Seq(A),
           NEW V, NEW H, UsableSteps(H, V, st, q, none)
    PROVE  <<1 .. Len(q), EachUsable(st, q, none)>> \in H
<1> DEFINE S    == 1 .. Len(q)
           F    == [p \in S \X V |-> Usable(st, p[2], q[p[1]])]
           ch   == [T \in (SUBSET S) \ {{}} |-> Max(T)]
           D(h) == [T \in SUBSET S |-> IF T = {} THEN none ELSE Usable(st, h[T \ {Max(T)}], q[Max(T)])]
           g    == CHOOSE h : h = D(h)
<1>12. /\ H \subseteq (SUBSET (1 .. Len(q))) \X V /\ <<{}, none>> \in H
      /\ \A T \in SUBSET (1 .. Len(q)) : \A x \in T : (\A y \in T : y <= x) => \A v \in V : <<T \ {x}, v>> \in H => <<T, Usable(st, v, q[x])>> \in H
  BY DEF UsableSteps
<1>0. Len(q) \in Nat /\ S = 1 .. Len(q) /\ DOMAIN q = S
  OBVIOUS
<1>1. \A x \in S, v \in V : F[<<x, v>>] = Usable(st, v, q[x])
  OBVIOUS
<1>2. Chooses(ch, S) /\ IsFiniteSet(S) /\ \A T \in (SUBSET S) \ {{}} : ch[T] = Max(T)
  <2>1. IsFiniteSet(S)
    BY <1>0, FS_Interval
  <2>2. ASSUME NEW T \in (SUBSET S) \ {{}}
        PROVE  Max(T) \in T
    <3>1. T \in SUBSET (0 .. Len(q)) /\ T \in SUBSET Nat /\ T # {} /\ Len(q) \in Nat
      BY <1>0
    <3> QED BY <3>1, MaxIs
  <2> QED BY <2>1, <2>2 DEF Chooses
<1>3. \A T \in (SUBSET S) \ {{}} : \A y \in T : y <= ch[T]
  <2> TAKE T \in (SUBSET S) \ {{}}
  <2>1. T \in SUBSET (0 .. Len(q)) /\ T \in SUBSET Nat /\ T # {} /\ Len(q) \in Nat
    BY <1>0
  <2> QED BY <1>2, <2>1, MaxIs
<1> HIDE DEF F, ch
<1>4. \A T \in (SUBSET S) \ {{}} : ch[T] \in T /\ ch[T] \in S /\ T \in SUBSET S
  BY <1>2 DEF Chooses
<1>5. ASSUME NEW T \in (SUBSET S) \ {{}}, NEW v, <<T \ {ch[T]}, v>> \in H
      PROVE  <<T, F[<<ch[T], v>>]>> \in H /\ v \in V
  <2>1. v \in V
    BY <1>12, <1>5
  <2>2. F[<<ch[T], v>>] = Usable(st, v, q[ch[T]])
    BY <1>1, <1>4, <2>1
  <2>3. <<T, Usable(st, v, q[ch[T]])>> \in H
    BY <1>12, <1>4, <1>3, <1>5, <2>1
  <2> QED BY <2>1, <2>2, <2>3
<1>6. /\ \E h : Traces(h, ch, S, none, H, F)
      /\ \A h : Follows(h, ch, S, none, H, F) => <<S, h[S]>> \in H
  <2>1. \A T \in (SUBSET S) \ {{}} : \A v : <<T \ {ch[T]}, v>> \in H => <<T, F[<<ch[T], v>>]>> \in H
    BY <1>5
  <2> QED BY <1>12, <1>2, <2>1, FoldFrom
<1>7. PICK h : Traces(h, ch, S, none, H, F)
  BY <1>6
<1>8. h = D(h)
  <2>1. \A T \in (SUBSET S) \ {{}} : h[T] = Usable(st, h[T \ {ch[T]}], q[ch[T]])
    <3> TAKE T \in (SUBSET S) \ {{}}
    <3>1. <<T \ {ch[T]}, h[T \ {ch[T]}]>> \in H /\ h[T] = F[<<ch[T], h[T \ {ch[T]}]>>]
      BY <1>7 DEF Traces
    <3>2. h[T \ {ch[T]}] \in V
      BY <1>5, <3>1
    <3> QED BY <1>1, <1>4, <3>1, <3>2
  <2> QED BY <1>2, <1>7, <2>1 DEF Traces
<1>9. g = D(g)
  BY <1>8
<1> HIDE DEF g
<1>10. Follows(g, ch, S, none, H, F)
  <2>1. g[{}] = none
    BY <1>9
  <2>2. ASSUME NEW T \in (SUBSET S) \ {{}}, <<T \ {ch[T]}, g[T \ {ch[T]}]>> \in H
        PROVE  g[T] = F[<<ch[T], g[T \ {ch[T]}]>>]
    <3>1. g[T] = Usable(st, g[T \ {ch[T]}], q[ch[T]])
      BY <1>2, <1>9
    <3>2. g[T \ {ch[T]}] \in V
      BY <1>5, <2>2
    <3> QED BY <1>1, <1>4, <3>1, <3>2
  <2> QED BY <2>1, <2>2 DEF Follows
<1>11. EachUsable(st, q, none) = g[S]
  BY <1>0 DEF EachUsable, FoldLeft, MapThenFoldSet, g
<1> QED BY <1>6, <1>10, <1>11

\* The ubatches placed one after the other.
EachNext(acc, q) == FoldLeft(PlaceNext, acc, q)
NextSteps(H, V, acc, q) ==
    /\ H \subseteq (SUBSET (1 .. Len(q))) \X V /\ <<{}, acc>> \in H
    /\ \A T \in SUBSET (1 .. Len(q)) : \A x \in T : (\A y \in T : y <= x) => \A v \in V : <<T \ {x}, v>> \in H => <<T, PlaceNext(v, q[x])>> \in H

LEMMA NextRule ==
    ASSUME NEW acc,
           NEW A, NEW q \in Seq(A),
           NEW V, NEW H, NextSteps(H, V, acc, q)
    PROVE  <<1 .. Len(q), EachNext(acc, q)>> \in H
<1> DEFINE S    == 1 .. Len(q)
           F    == [p \in S \X V |-> PlaceNext(p[2], q[p[1]])]
           ch   == [T \in (SUBSET S) \ {{}} |-> Max(T)]
           D(h) == [T \in SUBSET S |-> IF T = {} THEN acc ELSE PlaceNext(h[T \ {Max(T)}], q[Max(T)])]
           g    == CHOOSE h : h = D(h)
<1>12. /\ H \subseteq (SUBSET (1 .. Len(q))) \X V /\ <<{}, acc>> \in H
      /\ \A T \in SUBSET (1 .. Len(q)) : \A x \in T : (\A y \in T : y <= x) => \A v \in V : <<T \ {x}, v>> \in H => <<T, PlaceNext(v, q[x])>> \in H
  BY DEF NextSteps
<1>0. Len(q) \in Nat /\ S = 1 .. Len(q) /\ DOMAIN q = S
  OBVIOUS
<1>1. \A x \in S, v \in V : F[<<x, v>>] = PlaceNext(v, q[x])
  OBVIOUS
<1>2. Chooses(ch, S) /\ IsFiniteSet(S) /\ \A T \in (SUBSET S) \ {{}} : ch[T] = Max(T)
  <2>1. IsFiniteSet(S)
    BY <1>0, FS_Interval
  <2>2. ASSUME NEW T \in (SUBSET S) \ {{}}
        PROVE  Max(T) \in T
    <3>1. T \in SUBSET (0 .. Len(q)) /\ T \in SUBSET Nat /\ T # {} /\ Len(q) \in Nat
      BY <1>0
    <3> QED BY <3>1, MaxIs
  <2> QED BY <2>1, <2>2 DEF Chooses
<1>3. \A T \in (SUBSET S) \ {{}} : \A y \in T : y <= ch[T]
  <2> TAKE T \in (SUBSET S) \ {{}}
  <2>1. T \in SUBSET (0 .. Len(q)) /\ T \in SUBSET Nat /\ T # {} /\ Len(q) \in Nat
    BY <1>0
  <2> QED BY <1>2, <2>1, MaxIs
<1> HIDE DEF F, ch
<1>4. \A T \in (SUBSET S) \ {{}} : ch[T] \in T /\ ch[T] \in S /\ T \in SUBSET S
  BY <1>2 DEF Chooses
<1>5. ASSUME NEW T \in (SUBSET S) \ {{}}, NEW v, <<T \ {ch[T]}, v>> \in H
      PROVE  <<T, F[<<ch[T], v>>]>> \in H /\ v \in V
  <2>1. v \in V
    BY <1>12, <1>5
  <2>2. F[<<ch[T], v>>] = PlaceNext(v, q[ch[T]])
    BY <1>1, <1>4, <2>1
  <2>3. <<T, PlaceNext(v, q[ch[T]])>> \in H
    BY <1>12, <1>4, <1>3, <1>5, <2>1
  <2> QED BY <2>1, <2>2, <2>3
<1>6. /\ \E h : Traces(h, ch, S, acc, H, F)
      /\ \A h : Follows(h, ch, S, acc, H, F) => <<S, h[S]>> \in H
  <2>1. \A T \in (SUBSET S) \ {{}} : \A v : <<T \ {ch[T]}, v>> \in H => <<T, F[<<ch[T], v>>]>> \in H
    BY <1>5
  <2> QED BY <1>12, <1>2, <2>1, FoldFrom
<1>7. PICK h : Traces(h, ch, S, acc, H, F)
  BY <1>6
<1>8. h = D(h)
  <2>1. \A T \in (SUBSET S) \ {{}} : h[T] = PlaceNext(h[T \ {ch[T]}], q[ch[T]])
    <3> TAKE T \in (SUBSET S) \ {{}}
    <3>1. <<T \ {ch[T]}, h[T \ {ch[T]}]>> \in H /\ h[T] = F[<<ch[T], h[T \ {ch[T]}]>>]
      BY <1>7 DEF Traces
    <3>2. h[T \ {ch[T]}] \in V
      BY <1>5, <3>1
    <3> QED BY <1>1, <1>4, <3>1, <3>2
  <2> QED BY <1>2, <1>7, <2>1 DEF Traces
<1>9. g = D(g)
  BY <1>8
<1> HIDE DEF g
<1>10. Follows(g, ch, S, acc, H, F)
  <2>1. g[{}] = acc
    BY <1>9
  <2>2. ASSUME NEW T \in (SUBSET S) \ {{}}, <<T \ {ch[T]}, g[T \ {ch[T]}]>> \in H
        PROVE  g[T] = F[<<ch[T], g[T \ {ch[T]}]>>]
    <3>1. g[T] = PlaceNext(g[T \ {ch[T]}], q[ch[T]])
      BY <1>2, <1>9
    <3>2. g[T \ {ch[T]}] \in V
      BY <1>5, <2>2
    <3> QED BY <1>1, <1>4, <3>1, <3>2
  <2> QED BY <2>1, <2>2 DEF Follows
<1>11. EachNext(acc, q) = g[S]
  BY <1>0 DEF EachNext, FoldLeft, MapThenFoldSet, g
<1> QED BY <1>6, <1>10, <1>11

\* What was placed taken back, from the last ubatch to the first.
EachRestored(all, q) == FoldRight(LAMBDA state, a : Restore(a, state), q, all)
RestoreSteps(H, V, all, q) ==
    /\ H \subseteq (SUBSET (1 .. Len(q))) \X V /\ <<{}, all>> \in H
    /\ \A T \in SUBSET (1 .. Len(q)) : \A x \in T : (\A y \in T : x <= y) => \A v \in V : <<T \ {x}, v>> \in H => <<T, Restore(v, q[x])>> \in H

LEMMA RestoreRule ==
    ASSUME NEW all,
           NEW A, NEW q \in Seq(A),
           NEW V, NEW H, RestoreSteps(H, V, all, q)
    PROVE  <<1 .. Len(q), EachRestored(all, q)>> \in H
<1> DEFINE S    == 1 .. Len(q)
           F    == [p \in S \X V |-> Restore(p[2], q[p[1]])]
           ch   == [T \in (SUBSET S) \ {{}} |-> Min(T)]
           D(h) == [T \in SUBSET S |-> IF T = {} THEN all ELSE Restore(h[T \ {Min(T)}], q[Min(T)])]
           g    == CHOOSE h : h = D(h)
<1>12. /\ H \subseteq (SUBSET (1 .. Len(q))) \X V /\ <<{}, all>> \in H
      /\ \A T \in SUBSET (1 .. Len(q)) : \A x \in T : (\A y \in T : x <= y) => \A v \in V : <<T \ {x}, v>> \in H => <<T, Restore(v, q[x])>> \in H
  BY DEF RestoreSteps
<1>0. Len(q) \in Nat /\ S = 1 .. Len(q) /\ DOMAIN q = S
  OBVIOUS
<1>1. \A x \in S, v \in V : F[<<x, v>>] = Restore(v, q[x])
  OBVIOUS
<1>2. Chooses(ch, S) /\ IsFiniteSet(S) /\ \A T \in (SUBSET S) \ {{}} : ch[T] = Min(T)
  <2>1. IsFiniteSet(S)
    BY <1>0, FS_Interval
  <2>2. ASSUME NEW T \in (SUBSET S) \ {{}}
        PROVE  Min(T) \in T
    <3>1. T \in SUBSET (0 .. Len(q)) /\ T \in SUBSET Nat /\ T # {} /\ Len(q) \in Nat
      BY <1>0
    <3> QED BY <3>1, MinIs
  <2> QED BY <2>1, <2>2 DEF Chooses
<1>3. \A T \in (SUBSET S) \ {{}} : \A y \in T : ch[T] <= y
  <2> TAKE T \in (SUBSET S) \ {{}}
  <2>1. T \in SUBSET (0 .. Len(q)) /\ T \in SUBSET Nat /\ T # {} /\ Len(q) \in Nat
    BY <1>0
  <2> QED BY <1>2, <2>1, MinIs
<1> HIDE DEF F, ch
<1>4. \A T \in (SUBSET S) \ {{}} : ch[T] \in T /\ ch[T] \in S /\ T \in SUBSET S
  BY <1>2 DEF Chooses
<1>5. ASSUME NEW T \in (SUBSET S) \ {{}}, NEW v, <<T \ {ch[T]}, v>> \in H
      PROVE  <<T, F[<<ch[T], v>>]>> \in H /\ v \in V
  <2>1. v \in V
    BY <1>12, <1>5
  <2>2. F[<<ch[T], v>>] = Restore(v, q[ch[T]])
    BY <1>1, <1>4, <2>1
  <2>3. <<T, Restore(v, q[ch[T]])>> \in H
    BY <1>12, <1>4, <1>3, <1>5, <2>1
  <2> QED BY <2>1, <2>2, <2>3
<1>6. /\ \E h : Traces(h, ch, S, all, H, F)
      /\ \A h : Follows(h, ch, S, all, H, F) => <<S, h[S]>> \in H
  <2>1. \A T \in (SUBSET S) \ {{}} : \A v : <<T \ {ch[T]}, v>> \in H => <<T, F[<<ch[T], v>>]>> \in H
    BY <1>5
  <2> QED BY <1>12, <1>2, <2>1, FoldFrom
<1>7. PICK h : Traces(h, ch, S, all, H, F)
  BY <1>6
<1>8. h = D(h)
  <2>1. \A T \in (SUBSET S) \ {{}} : h[T] = Restore(h[T \ {ch[T]}], q[ch[T]])
    <3> TAKE T \in (SUBSET S) \ {{}}
    <3>1. <<T \ {ch[T]}, h[T \ {ch[T]}]>> \in H /\ h[T] = F[<<ch[T], h[T \ {ch[T]}]>>]
      BY <1>7 DEF Traces
    <3>2. h[T \ {ch[T]}] \in V
      BY <1>5, <3>1
    <3> QED BY <1>1, <1>4, <3>1, <3>2
  <2> QED BY <1>2, <1>7, <2>1 DEF Traces
<1>9. g = D(g)
  BY <1>8
<1> HIDE DEF g
<1>10. Follows(g, ch, S, all, H, F)
  <2>1. g[{}] = all
    BY <1>9
  <2>2. ASSUME NEW T \in (SUBSET S) \ {{}}, <<T \ {ch[T]}, g[T \ {ch[T]}]>> \in H
        PROVE  g[T] = F[<<ch[T], g[T \ {ch[T]}]>>]
    <3>1. g[T] = Restore(g[T \ {ch[T]}], q[ch[T]])
      BY <1>2, <1>9
    <3>2. g[T \ {ch[T]}] \in V
      BY <1>5, <2>2
    <3> QED BY <1>1, <1>4, <3>1, <3>2
  <2> QED BY <2>1, <2>2 DEF Follows
<1>11. EachRestored(all, q) = g[S]
  BY <1>0 DEF EachRestored, FoldRight, MapThenFoldSet, g
<1> QED BY <1>6, <1>10, <1>11

\* What a ubatch has of the sequences Q is removed.
From(tokens, s) == Min({tokens[j].pos : j \in {j \in DOMAIN tokens : Min(tokens[j].seqs) = s}})
EachRemoved(st, Q, tokens) == FoldSet(LAMBDA s, t : SeqRm(t, s, From(tokens, s), -1), st, Q)
RemoveSteps(H, V, st, Q, tokens) ==
    /\ H \subseteq (SUBSET (Q)) \X V /\ <<{}, st>> \in H
    /\ \A T \in SUBSET (Q) : \A x \in T : \A v \in V : <<T \ {x}, v>> \in H => <<T, SeqRm(v, x, From(tokens, x), -1)>> \in H

LEMMA RemoveRule ==
    ASSUME NEW Q, NEW tokens, NEW st,
           IsFiniteSet(Q), NEW V, NEW H, RemoveSteps(H, V, st, Q, tokens)
    PROVE  <<Q, EachRemoved(st, Q, tokens)>> \in H
<1> DEFINE S    == Q
           F    == [p \in S \X V |-> SeqRm(p[2], p[1], From(tokens, p[1]), -1)]
           ch   == [T \in (SUBSET S) \ {{}} |-> CHOOSE x \in T : TRUE]
           D(h) == [T \in SUBSET S |-> IF T = {} THEN st ELSE SeqRm(h[T \ {CHOOSE x \in T : TRUE}], CHOOSE x \in T : TRUE, From(tokens, CHOOSE x \in T : TRUE), -1)]
           g    == CHOOSE h : h = D(h)
<1>12. /\ H \subseteq (SUBSET (Q)) \X V /\ <<{}, st>> \in H
      /\ \A T \in SUBSET (Q) : \A x \in T : \A v \in V : <<T \ {x}, v>> \in H => <<T, SeqRm(v, x, From(tokens, x), -1)>> \in H
  BY DEF RemoveSteps
<1>1. \A x \in S, v \in V : F[<<x, v>>] = SeqRm(v, x, From(tokens, x), -1)
  OBVIOUS
<1>2. Chooses(ch, S) /\ IsFiniteSet(S) /\ \A T \in (SUBSET S) \ {{}} : ch[T] = CHOOSE x \in T : TRUE
  BY AnyChoice
<1> HIDE DEF F, ch
<1>4. \A T \in (SUBSET S) \ {{}} : ch[T] \in T /\ ch[T] \in S /\ T \in SUBSET S
  BY <1>2 DEF Chooses
<1>5. ASSUME NEW T \in (SUBSET S) \ {{}}, NEW v, <<T \ {ch[T]}, v>> \in H
      PROVE  <<T, F[<<ch[T], v>>]>> \in H /\ v \in V
  <2>1. v \in V
    BY <1>12, <1>5
  <2>2. F[<<ch[T], v>>] = SeqRm(v, ch[T], From(tokens, ch[T]), -1)
    BY <1>1, <1>4, <2>1
  <2>3. <<T, SeqRm(v, ch[T], From(tokens, ch[T]), -1)>> \in H
    BY <1>12, <1>4, <1>5, <2>1
  <2> QED BY <2>1, <2>2, <2>3
<1>6. /\ \E h : Traces(h, ch, S, st, H, F)
      /\ \A h : Follows(h, ch, S, st, H, F) => <<S, h[S]>> \in H
  <2>1. \A T \in (SUBSET S) \ {{}} : \A v : <<T \ {ch[T]}, v>> \in H => <<T, F[<<ch[T], v>>]>> \in H
    BY <1>5
  <2> QED BY <1>12, <1>2, <2>1, FoldFrom
<1>7. PICK h : Traces(h, ch, S, st, H, F)
  BY <1>6
<1>8. h = D(h)
  <2>1. \A T \in (SUBSET S) \ {{}} : h[T] = SeqRm(h[T \ {ch[T]}], ch[T], From(tokens, ch[T]), -1)
    <3> TAKE T \in (SUBSET S) \ {{}}
    <3>1. <<T \ {ch[T]}, h[T \ {ch[T]}]>> \in H /\ h[T] = F[<<ch[T], h[T \ {ch[T]}]>>]
      BY <1>7 DEF Traces
    <3>2. h[T \ {ch[T]}] \in V
      BY <1>5, <3>1
    <3> QED BY <1>1, <1>4, <3>1, <3>2
  <2> QED BY <1>2, <1>7, <2>1 DEF Traces
<1>9. g = D(g)
  BY <1>8
<1> HIDE DEF g
<1>10. Follows(g, ch, S, st, H, F)
  <2>1. g[{}] = st
    BY <1>9
  <2>2. ASSUME NEW T \in (SUBSET S) \ {{}}, <<T \ {ch[T]}, g[T \ {ch[T]}]>> \in H
        PROVE  g[T] = F[<<ch[T], g[T \ {ch[T]}]>>]
    <3> DEFINE y == CHOOSE x \in T : TRUE
    <3>0. T \in SUBSET S /\ T # {} /\ ch[T] = y
      BY <1>2
    <3>3. g[T] = SeqRm(g[T \ {y}], y, From(tokens, y), -1)
      BY <1>9, <3>0
    <3>1. g[T] = SeqRm(g[T \ {ch[T]}], ch[T], From(tokens, ch[T]), -1)
      BY <3>0, <3>3
    <3>2. g[T \ {ch[T]}] \in V
      BY <1>5, <2>2
    <3> QED BY <1>1, <1>4, <3>1, <3>2
  <2> QED BY <2>1, <2>2 DEF Follows
<1>11. EachRemoved(st, Q, tokens) = g[S]
  BY DEF EachRemoved, FoldSet, MapThenFoldSet, g
<1> QED BY <1>6, <1>10, <1>11

\* The buffer copies, in the order they were asked for.
CopyData(d, c) == [d EXCEPT ![c[2]] = d[c[1]]]
EachCopied(data, q) == FoldLeft(LAMBDA d, c : CopyData(d, c), data, q)
DataSteps(H, V, data, q) ==
    /\ H \subseteq (SUBSET (1 .. Len(q))) \X V /\ <<{}, data>> \in H
    /\ \A T \in SUBSET (1 .. Len(q)) : \A x \in T : (\A y \in T : y <= x) => \A v \in V : <<T \ {x}, v>> \in H => <<T, CopyData(v, q[x])>> \in H

LEMMA DataRule ==
    ASSUME NEW data,
           NEW A, NEW q \in Seq(A),
           NEW V, NEW H, DataSteps(H, V, data, q)
    PROVE  <<1 .. Len(q), EachCopied(data, q)>> \in H
<1> DEFINE S    == 1 .. Len(q)
           F    == [p \in S \X V |-> CopyData(p[2], q[p[1]])]
           ch   == [T \in (SUBSET S) \ {{}} |-> Max(T)]
           D(h) == [T \in SUBSET S |-> IF T = {} THEN data ELSE CopyData(h[T \ {Max(T)}], q[Max(T)])]
           g    == CHOOSE h : h = D(h)
<1>12. /\ H \subseteq (SUBSET (1 .. Len(q))) \X V /\ <<{}, data>> \in H
      /\ \A T \in SUBSET (1 .. Len(q)) : \A x \in T : (\A y \in T : y <= x) => \A v \in V : <<T \ {x}, v>> \in H => <<T, CopyData(v, q[x])>> \in H
  BY DEF DataSteps
<1>0. Len(q) \in Nat /\ S = 1 .. Len(q) /\ DOMAIN q = S
  OBVIOUS
<1>1. \A x \in S, v \in V : F[<<x, v>>] = CopyData(v, q[x])
  OBVIOUS
<1>2. Chooses(ch, S) /\ IsFiniteSet(S) /\ \A T \in (SUBSET S) \ {{}} : ch[T] = Max(T)
  <2>1. IsFiniteSet(S)
    BY <1>0, FS_Interval
  <2>2. ASSUME NEW T \in (SUBSET S) \ {{}}
        PROVE  Max(T) \in T
    <3>1. T \in SUBSET (0 .. Len(q)) /\ T \in SUBSET Nat /\ T # {} /\ Len(q) \in Nat
      BY <1>0
    <3> QED BY <3>1, MaxIs
  <2> QED BY <2>1, <2>2 DEF Chooses
<1>3. \A T \in (SUBSET S) \ {{}} : \A y \in T : y <= ch[T]
  <2> TAKE T \in (SUBSET S) \ {{}}
  <2>1. T \in SUBSET (0 .. Len(q)) /\ T \in SUBSET Nat /\ T # {} /\ Len(q) \in Nat
    BY <1>0
  <2> QED BY <1>2, <2>1, MaxIs
<1> HIDE DEF F, ch
<1>4. \A T \in (SUBSET S) \ {{}} : ch[T] \in T /\ ch[T] \in S /\ T \in SUBSET S
  BY <1>2 DEF Chooses
<1>5. ASSUME NEW T \in (SUBSET S) \ {{}}, NEW v, <<T \ {ch[T]}, v>> \in H
      PROVE  <<T, F[<<ch[T], v>>]>> \in H /\ v \in V
  <2>1. v \in V
    BY <1>12, <1>5
  <2>2. F[<<ch[T], v>>] = CopyData(v, q[ch[T]])
    BY <1>1, <1>4, <2>1
  <2>3. <<T, CopyData(v, q[ch[T]])>> \in H
    BY <1>12, <1>4, <1>3, <1>5, <2>1
  <2> QED BY <2>1, <2>2, <2>3
<1>6. /\ \E h : Traces(h, ch, S, data, H, F)
      /\ \A h : Follows(h, ch, S, data, H, F) => <<S, h[S]>> \in H
  <2>1. \A T \in (SUBSET S) \ {{}} : \A v : <<T \ {ch[T]}, v>> \in H => <<T, F[<<ch[T], v>>]>> \in H
    BY <1>5
  <2> QED BY <1>12, <1>2, <2>1, FoldFrom
<1>7. PICK h : Traces(h, ch, S, data, H, F)
  BY <1>6
<1>8. h = D(h)
  <2>1. \A T \in (SUBSET S) \ {{}} : h[T] = CopyData(h[T \ {ch[T]}], q[ch[T]])
    <3> TAKE T \in (SUBSET S) \ {{}}
    <3>1. <<T \ {ch[T]}, h[T \ {ch[T]}]>> \in H /\ h[T] = F[<<ch[T], h[T \ {ch[T]}]>>]
      BY <1>7 DEF Traces
    <3>2. h[T \ {ch[T]}] \in V
      BY <1>5, <3>1
    <3> QED BY <1>1, <1>4, <3>1, <3>2
  <2> QED BY <1>2, <1>7, <2>1 DEF Traces
<1>9. g = D(g)
  BY <1>8
<1> HIDE DEF g
<1>10. Follows(g, ch, S, data, H, F)
  <2>1. g[{}] = data
    BY <1>9
  <2>2. ASSUME NEW T \in (SUBSET S) \ {{}}, <<T \ {ch[T]}, g[T \ {ch[T]}]>> \in H
        PROVE  g[T] = F[<<ch[T], g[T \ {ch[T]}]>>]
    <3>1. g[T] = CopyData(g[T \ {ch[T]}], q[ch[T]])
      BY <1>2, <1>9
    <3>2. g[T \ {ch[T]}] \in V
      BY <1>5, <2>2
    <3> QED BY <1>1, <1>4, <3>1, <3>2
  <2> QED BY <2>1, <2>2 DEF Follows
<1>11. EachCopied(data, q) = g[S]
  BY <1>0 DEF EachCopied, FoldLeft, MapThenFoldSet, g
<1> QED BY <1>6, <1>10, <1>11

\* The runs of the sequences, one after the other.
OneRun(runs, s, Q, n) == IF s \in Q THEN runs \o Run(s, n, {s}) ELSE runs
EachRun(runs, Q, n, q) == FoldLeft(LAMBDA r, s : OneRun(r, s, Q, n), runs, q)
RunsSteps(H, V, runs, Q, n, q) ==
    /\ H \subseteq (SUBSET (1 .. Len(q))) \X V /\ <<{}, runs>> \in H
    /\ \A T \in SUBSET (1 .. Len(q)) : \A x \in T : (\A y \in T : y <= x) => \A v \in V : <<T \ {x}, v>> \in H => <<T, OneRun(v, q[x], Q, n)>> \in H

LEMMA RunsRule ==
    ASSUME NEW Q, NEW n, NEW runs,
           NEW A, NEW q \in Seq(A),
           NEW V, NEW H, RunsSteps(H, V, runs, Q, n, q)
    PROVE  <<1 .. Len(q), EachRun(runs, Q, n, q)>> \in H
<1> DEFINE S    == 1 .. Len(q)
           F    == [p \in S \X V |-> OneRun(p[2], q[p[1]], Q, n)]
           ch   == [T \in (SUBSET S) \ {{}} |-> Max(T)]
           D(h) == [T \in SUBSET S |-> IF T = {} THEN runs ELSE OneRun(h[T \ {Max(T)}], q[Max(T)], Q, n)]
           g    == CHOOSE h : h = D(h)
<1>12. /\ H \subseteq (SUBSET (1 .. Len(q))) \X V /\ <<{}, runs>> \in H
      /\ \A T \in SUBSET (1 .. Len(q)) : \A x \in T : (\A y \in T : y <= x) => \A v \in V : <<T \ {x}, v>> \in H => <<T, OneRun(v, q[x], Q, n)>> \in H
  BY DEF RunsSteps
<1>0. Len(q) \in Nat /\ S = 1 .. Len(q) /\ DOMAIN q = S
  OBVIOUS
<1>1. \A x \in S, v \in V : F[<<x, v>>] = OneRun(v, q[x], Q, n)
  OBVIOUS
<1>2. Chooses(ch, S) /\ IsFiniteSet(S) /\ \A T \in (SUBSET S) \ {{}} : ch[T] = Max(T)
  <2>1. IsFiniteSet(S)
    BY <1>0, FS_Interval
  <2>2. ASSUME NEW T \in (SUBSET S) \ {{}}
        PROVE  Max(T) \in T
    <3>1. T \in SUBSET (0 .. Len(q)) /\ T \in SUBSET Nat /\ T # {} /\ Len(q) \in Nat
      BY <1>0
    <3> QED BY <3>1, MaxIs
  <2> QED BY <2>1, <2>2 DEF Chooses
<1>3. \A T \in (SUBSET S) \ {{}} : \A y \in T : y <= ch[T]
  <2> TAKE T \in (SUBSET S) \ {{}}
  <2>1. T \in SUBSET (0 .. Len(q)) /\ T \in SUBSET Nat /\ T # {} /\ Len(q) \in Nat
    BY <1>0
  <2> QED BY <1>2, <2>1, MaxIs
<1> HIDE DEF F, ch
<1>4. \A T \in (SUBSET S) \ {{}} : ch[T] \in T /\ ch[T] \in S /\ T \in SUBSET S
  BY <1>2 DEF Chooses
<1>5. ASSUME NEW T \in (SUBSET S) \ {{}}, NEW v, <<T \ {ch[T]}, v>> \in H
      PROVE  <<T, F[<<ch[T], v>>]>> \in H /\ v \in V
  <2>1. v \in V
    BY <1>12, <1>5
  <2>2. F[<<ch[T], v>>] = OneRun(v, q[ch[T]], Q, n)
    BY <1>1, <1>4, <2>1
  <2>3. <<T, OneRun(v, q[ch[T]], Q, n)>> \in H
    BY <1>12, <1>4, <1>3, <1>5, <2>1
  <2> QED BY <2>1, <2>2, <2>3
<1>6. /\ \E h : Traces(h, ch, S, runs, H, F)
      /\ \A h : Follows(h, ch, S, runs, H, F) => <<S, h[S]>> \in H
  <2>1. \A T \in (SUBSET S) \ {{}} : \A v : <<T \ {ch[T]}, v>> \in H => <<T, F[<<ch[T], v>>]>> \in H
    BY <1>5
  <2> QED BY <1>12, <1>2, <2>1, FoldFrom
<1>7. PICK h : Traces(h, ch, S, runs, H, F)
  BY <1>6
<1>8. h = D(h)
  <2>1. \A T \in (SUBSET S) \ {{}} : h[T] = OneRun(h[T \ {ch[T]}], q[ch[T]], Q, n)
    <3> TAKE T \in (SUBSET S) \ {{}}
    <3>1. <<T \ {ch[T]}, h[T \ {ch[T]}]>> \in H /\ h[T] = F[<<ch[T], h[T \ {ch[T]}]>>]
      BY <1>7 DEF Traces
    <3>2. h[T \ {ch[T]}] \in V
      BY <1>5, <3>1
    <3> QED BY <1>1, <1>4, <3>1, <3>2
  <2> QED BY <1>2, <1>7, <2>1 DEF Traces
<1>9. g = D(g)
  BY <1>8
<1> HIDE DEF g
<1>10. Follows(g, ch, S, runs, H, F)
  <2>1. g[{}] = runs
    BY <1>9
  <2>2. ASSUME NEW T \in (SUBSET S) \ {{}}, <<T \ {ch[T]}, g[T \ {ch[T]}]>> \in H
        PROVE  g[T] = F[<<ch[T], g[T \ {ch[T]}]>>]
    <3>1. g[T] = OneRun(g[T \ {ch[T]}], q[ch[T]], Q, n)
      BY <1>2, <1>9
    <3>2. g[T \ {ch[T]}] \in V
      BY <1>5, <2>2
    <3> QED BY <1>1, <1>4, <3>1, <3>2
  <2> QED BY <2>1, <2>2 DEF Follows
<1>11. EachRun(runs, Q, n, q) = g[S]
  BY <1>0 DEF EachRun, FoldLeft, MapThenFoldSet, g
<1> QED BY <1>6, <1>10, <1>11

-----------------------------------------------------------------------------
(* A ubatch in its cells.                                                  *)

\* A token is in cell i, which may have been used.
TokenIn(st, i, token, u) ==
    u \in Good /\ u.has_shift = st.has_shift /\ u.cell = [st.cell EXCEPT ![i] = TokenCell(token.pos, token.seqs)]

LEMMA PlaceTokenIs ==
    ASSUME NEW st \in Good, NEW i \in Cells, NEW token \in Token
    PROVE  TokenIn(st, i, token, PlaceToken(st, i, token))
<1> DEFINE t == IF IsEmpty(st, i) THEN st ELSE Rm(st, i)
           p == token.pos
           Q == token.seqs
           b == PosSet(t, i, p)
           u == EachToken(b, i, Q)
<1>1. p \in Positions /\ Q \in SUBSET Seqs /\ Q # {} /\ p \in Int /\ p # -1
  BY SizesAre DEF Token, Positions
<1>2. Fit(st) /\ st \in Loose /\ st.has_shift \in BOOLEAN /\ st.cell \in [Cells -> Cell]
  BY GoodCells, FitIsLoose
<1>3. Fit(t) /\ t.cell = [st.cell EXCEPT ![i] = EmptyCell] /\ t.head = st.head /\ t.has_shift = st.has_shift
  <2>1. CASE IsEmpty(st, i)
    <3>1. st.cell[i] = EmptyCell
      BY <2>1, GoodCells DEF IsEmpty
    <3>2. st.cell = [st.cell EXCEPT ![i] = EmptyCell]
      BY <1>2, <3>1
    <3> QED BY <1>2, <2>1, <3>2
  <2>2. CASE ~IsEmpty(st, i)
    <3> DEFINE h == st.has_shift
               w == Rm(st, i)
    <3>1. w = Turned(st, i, EmptyCell, h)
      BY <1>2, RmIs
    <3>2. h \in BOOLEAN /\ (st.has_shift => h)
      BY <1>2
    <3>3. t = w
      BY <2>2
    <3> HIDE DEF h, w, t
    <3>4. TurnsWell(st, i, EmptyCell, h, w)
      BY <1>2, <3>1, <3>2, EmptyIs, TurnedFit
    <3> QED BY <3>3, <3>4 DEF TurnsWell, h
  <2> QED BY <2>1, <2>2
<1> HIDE DEF t
<1>4. t \in Loose /\ t.cell[i] = EmptyCell /\ t.has_shift \in BOOLEAN
  BY <1>2, <1>3, FitIsLoose
<1>5. b = Turned(t, i, TokenCell(p, {}), t.has_shift)
  <2>1. b = Turned(t, i, [EmptyCell EXCEPT !.pos = p], t.has_shift)
    BY <1>1, <1>4, EmptyIs, PosSetIs
  <2>2. [EmptyCell EXCEPT !.pos = p] = TokenCell(p, {})
    BY DEF EmptyCell, TokenCell
  <2> QED BY <2>1, <2>2
<1>6. TokenCell(p, {}) \in Cell /\ TokenCell(p, {}).pos # -1 /\ TokenCell(p, {}).shift = 0
  BY <1>1 DEF TokenCell, Cell
<1> HIDE DEF b
<1>7. Partly(st, i, p, {}, b)
  <2> DEFINE c == TokenCell(p, {})
             h == t.has_shift
  <2>1. h \in BOOLEAN /\ (t.has_shift => h) /\ (c.pos = -1 => c = EmptyCell) /\ (~h => c.shift = 0) /\ c \in Cell
    BY <1>4, <1>6
  <2>2. b = Turned(t, i, c, h)
    BY <1>5
  <2> HIDE DEF c, h
  <2>3. TurnsWell(t, i, c, h, b)
    BY <1>3, <2>1, <2>2, TurnedFit
  <2>4. [t.cell EXCEPT ![i] = c] = [st.cell EXCEPT ![i] = c]
    BY <1>2, <1>3
  <2> QED BY <1>3, <2>3, <2>4 DEF TurnsWell, Partly, c, h
<1>8. Partly(st, i, p, Q, u)
  BY <1>1, <1>2, <1>7, TokenFold
<1>9. PlaceToken(st, i, token) = u
  BY DEF PlaceToken, EachToken, u, b, t
<1> HIDE DEF u
<1>10. Fit(u) /\ u.has_shift = st.has_shift /\ u.cell = [st.cell EXCEPT ![i] = TokenCell(p, Q)]
  BY <1>8 DEF Partly
<1>11. Owned(u)
  <2>1. TokenCell(p, Q).seqs = Q
    BY DEF TokenCell
  <2>2. \A j \in Cells : u.cell[j] = IF j = i THEN TokenCell(p, Q) ELSE st.cell[j]
    BY <1>2, <1>10
  <2> QED BY <1>1, <2>1, <2>2, GoodCells DEF Owned
<1> QED BY <1>9, <1>10, <1>11, GoodIs DEF TokenIn

\* The tokens T of a ubatch, each in a cell of its own.
Slot(idxs) == {idxs[j] : j \in DOMAIN idxs}
TokensIn(st, idxs, tokens, T, u) ==
    /\ u \in Good /\ u.has_shift = st.has_shift
    /\ \A j \in T : u.cell[idxs[j]] = TokenCell(tokens[j].pos, tokens[j].seqs)
    /\ \A i \in Cells : (\A j \in T : idxs[j] # i) => u.cell[i] = st.cell[i]

\* Different cells, one for each token.
Suits(idxs, tokens) ==
    /\ idxs \in Seq(Cells) /\ tokens \in Seq(Token) /\ Len(idxs) = Len(tokens) /\ Len(idxs) >= 1
    /\ \A i, j \in 1 .. Len(idxs) : idxs[i] = idxs[j] => i = j

LEMMA TokensMore ==
    ASSUME NEW st, NEW idxs, NEW tokens, Suits(idxs, tokens), NEW T \in SUBSET (1 .. Len(idxs)), NEW x \in T,
           NEW v, TokensIn(st, idxs, tokens, T \ {x}, v)
    PROVE  TokensIn(st, idxs, tokens, T, PlaceToken(v, idxs[x], tokens[x]))
<1> DEFINE w == PlaceToken(v, idxs[x], tokens[x])
<1>1. /\ idxs[x] \in Cells /\ tokens[x] \in Token /\ v \in Good /\ v.cell \in [Cells -> Cell]
      /\ \A j \in T \ {x} : idxs[j] \in Cells /\ idxs[j] # idxs[x]
  BY GoodCells, FitIsLoose DEF Suits, TokensIn
<1>2. TokenIn(v, idxs[x], tokens[x], w)
  BY <1>1, PlaceTokenIs
<1> HIDE DEF w
<1>3. w \in Good /\ w.has_shift = v.has_shift /\ w.cell = [v.cell EXCEPT ![idxs[x]] = TokenCell(tokens[x].pos, tokens[x].seqs)]
  BY <1>2 DEF TokenIn
<1>4. \A j \in T : w.cell[idxs[j]] = TokenCell(tokens[j].pos, tokens[j].seqs)
  <2> TAKE j \in T
  <2>1. CASE j = x
    BY <1>1, <1>3, <2>1
  <2>2. CASE j # x
    <3>1. w.cell[idxs[j]] = v.cell[idxs[j]]
      BY <1>1, <1>3, <2>2
    <3> QED BY <2>2, <3>1 DEF TokensIn
  <2> QED BY <2>1, <2>2
<1>5. \A i \in Cells : (\A j \in T : idxs[j] # i) => w.cell[i] = st.cell[i]
  BY <1>1, <1>3 DEF TokensIn
<1>6. TokensIn(st, idxs, tokens, T, w)
  BY <1>3, <1>4, <1>5 DEF TokensIn
<1> QED BY <1>6 DEF w

LEMMA TokensAreIn ==
    ASSUME NEW st \in Good, NEW idxs, NEW tokens, Suits(idxs, tokens), NEW q, q = [j \in DOMAIN idxs |-> j]
    PROVE  TokensIn(st, idxs, tokens, 1 .. Len(idxs), EachPlaced(st, idxs, tokens, q))
<1> DEFINE S == 1 .. Len(q)
           V == Good
           H == {y \in (SUBSET S) \X V : TokensIn(st, idxs, tokens, y[1], y[2])}
<1>1. q \in Seq(Nat) /\ Len(q) = Len(idxs) /\ \A j \in S : q[j] = j
  BY DEF Suits
<1>2. \A T, v : <<T, v>> \in H <=> T \in SUBSET S /\ v \in V /\ TokensIn(st, idxs, tokens, T, v)
  OBVIOUS
<1>3. H \subseteq (SUBSET S) \X V
  OBVIOUS
<1> HIDE DEF H
<1>4. <<{}, st>> \in H
  BY <1>2 DEF TokensIn
<1>5. ASSUME NEW T \in SUBSET S, NEW x \in T, NEW v \in V, <<T \ {x}, v>> \in H
      PROVE  <<T, PlaceToken(v, idxs[q[x]], tokens[q[x]])>> \in H
  <2>1. q[x] = x
    BY <1>1
  <2> DEFINE w == PlaceToken(v, idxs[x], tokens[x])
  <2>2. TokensIn(st, idxs, tokens, T, w)
    <3>1. T \in SUBSET (1 .. Len(idxs)) /\ TokensIn(st, idxs, tokens, T \ {x}, v)
      BY <1>1, <1>2, <1>5
    <3> QED BY <3>1, TokensMore
  <2>3. w \in V
    BY <2>2 DEF TokensIn
  <2> HIDE DEF w
  <2>4. <<T, w>> \in H
    BY <1>2, <2>2, <2>3
  <2> QED BY <2>1, <2>4 DEF w
<1>6. \A T \in SUBSET (1 .. Len(q)) : \A x \in T : (\A y \in T : y <= x) =>
          \A v \in V : <<T \ {x}, v>> \in H => <<T, PlaceToken(v, idxs[q[x]], tokens[q[x]])>> \in H
  BY <1>5
<1>8. PlacedSteps(H, V, st, idxs, tokens, q)
  BY <1>3, <1>4, <1>6 DEF PlacedSteps
<1> HIDE DEF V
<1>7. <<1 .. Len(q), EachPlaced(st, idxs, tokens, q)>> \in H
  BY <1>1, <1>8, PlacedRule
<1> QED BY <1>1, <1>2, <1>7

\* A stream that has less: cells that are gone, or in fewer sequences.
Thinner(u, t) ==
    /\ t \in Good /\ t.has_shift = u.has_shift
    /\ \A i \in Cells : /\ t.cell[i].seqs \subseteq u.cell[i].seqs
                        /\ \/ t.cell[i] = EmptyCell
                           \/ t.cell[i].pos = u.cell[i].pos /\ t.cell[i].shift = u.cell[i].shift

LEMMA ThinnerStill ==
    ASSUME NEW u, NEW v, NEW t, Thinner(u, v), Thinner(v, t)
    PROVE  Thinner(u, t)
<1>1. \A i \in Cells : v.cell[i] = EmptyCell => t.cell[i] = EmptyCell
  <2> TAKE i \in Cells
  <2>1. ASSUME v.cell[i] = EmptyCell
        PROVE  t.cell[i] = EmptyCell
    <3>1. t.cell[i].seqs = {} /\ t \in Good
      BY <2>1, EmptyIs DEF Thinner
    <3> QED BY <3>1, GoodCells
  <2> QED BY <2>1
<1> QED BY <1>1 DEF Thinner

LEMMA ThinnerIs ==
    ASSUME NEW st \in Good, NEW s, NEW p0, NEW p1
    PROVE  Thinner(st, SeqRm(st, s, p0, p1))
<1> DEFINE S == WithSeq(st, s, p0, p1)
           t == SeqRm(st, s, p0, p1)
<1>1. S \in SUBSET Cells /\ \A i \in S : st.cell[i].pos # -1 /\ s \in st.cell[i].seqs
  BY DEF WithSeq, InRange, IsEmpty
<1>2. Lessened(st, s, S, t) /\ st.cell \in [Cells -> Cell]
  BY SeqRmIs, GoodCells, FitIsLoose
<1> HIDE DEF S, t
<1>3. ASSUME NEW i \in Cells
      PROVE  /\ t.cell[i].seqs \subseteq st.cell[i].seqs
             /\ \/ t.cell[i] = EmptyCell
                \/ t.cell[i].pos = st.cell[i].pos /\ t.cell[i].shift = st.cell[i].shift
  <2>1. t.cell[i] = IF i \in S THEN Less(st.cell[i], s) ELSE st.cell[i]
    BY <1>2 DEF Lessened, Put, LessCells
  <2>2. i \in S => Less(st.cell[i], s) \in Cell /\ (Less(st.cell[i], s).pos = -1 => Less(st.cell[i], s) = EmptyCell)
           /\ Less(st.cell[i], s).seqs = st.cell[i].seqs \ {s}
           /\ (Less(st.cell[i], s).pos # -1 => Less(st.cell[i], s).pos = st.cell[i].pos /\ Less(st.cell[i], s).shift = st.cell[i].shift)
    BY <1>1, <1>2, LessIs
  <2> QED BY <2>1, <2>2
<1>4. Thinner(st, t)
  BY <1>2, <1>3 DEF Thinner, Lessened
<1> QED BY <1>4 DEF t
LEMMA ThinnerSelf == \A st \in Good : Thinner(st, st)
BY DEF Thinner

\* What is purged only makes a stream thinner, and nothing is if no sequence lost a position.
PurgedTo(before, st, idxs, t) ==
    /\ Thinner(st, t)
    /\ (\A s \in Seqs : Lost(before, idxs, s) = {}) => t = st

LEMMA PurgeIs ==
    ASSUME NEW before, NEW idxs, NEW st \in Good
    PROVE  PurgedTo(before, st, idxs, Purge(before, st, idxs))
<1> DEFINE Q == {s \in Seqs : Lost(before, idxs, s) # {}}
           t == EachPurged(st, Q, before, idxs)
           V == Good
           H == {y \in (SUBSET Q) \X V : Thinner(st, y[2]) /\ (y[1] = {} => y[2] = st)}
<1>1. IsFiniteSet(Q)
  BY SubsetsFinite
<1>2. Purge(before, st, idxs) = t
  BY DEF Purge, EachPurged, PurgeSeq
<1>3. \A T, v : <<T, v>> \in H <=> T \in SUBSET Q /\ v \in V /\ Thinner(st, v) /\ (T = {} => v = st)
  OBVIOUS
<1>4. H \subseteq (SUBSET Q) \X V
  OBVIOUS
<1>5. (\A s \in Seqs : Lost(before, idxs, s) = {}) => Q = {}
  OBVIOUS
<1> HIDE DEF H, Q
<1>6. <<{}, st>> \in H
  BY <1>3, ThinnerSelf
<1>7. ASSUME NEW T \in SUBSET Q, NEW x \in T, NEW v \in V, <<T \ {x}, v>> \in H
      PROVE  <<T, PurgeSeq(v, x, before, idxs)>> \in H
  <2> DEFINE w == PurgeSeq(v, x, before, idxs)
             e == Max(Lost(before, idxs, x)) + 1
  <2>1. w = v \/ w = SeqRm(v, x, 0, e)
    BY DEF PurgeSeq
  <2>2. Thinner(v, SeqRm(v, x, 0, e)) /\ Thinner(v, v) /\ Thinner(st, v)
    BY <1>3, <1>7, ThinnerIs, ThinnerSelf
  <2> HIDE DEF w, e
  <2>3. Thinner(v, w)
    BY <2>1, <2>2
  <2>4. Thinner(st, w) /\ w \in V
    BY <2>2, <2>3, ThinnerStill DEF Thinner
  <2>5. <<T, w>> \in H
    BY <1>3, <2>4
  <2> QED BY <2>5 DEF w
<1>8. PurgedSteps(H, V, st, Q, before, idxs)
  BY <1>4, <1>6, <1>7 DEF PurgedSteps
<1> HIDE DEF V
<1>9. <<Q, t>> \in H
  BY <1>1, <1>8, PurgedRule
<1> QED BY <1>2, <1>3, <1>5, <1>9 DEF PurgedTo

\* A ubatch in its cells: the tokens, and less of what was there.
PlacedIn(st, idxs, tokens, r) ==
    \E u : /\ TokensIn(st, idxs, tokens, 1 .. Len(idxs), u) /\ Thinner(u, r)
           /\ (\A s \in Seqs : Lost(st, idxs, s) = {}) => r.cell = u.cell

LEMMA PlaceIs ==
    ASSUME NEW st \in Good, NEW idxs, NEW tokens, Suits(idxs, tokens)
    PROVE  PlacedIn(st, idxs, tokens, Place(st, idxs, tokens))
<1> DEFINE q == [j \in DOMAIN idxs |-> j]
           u == EachPlaced(st, idxs, tokens, q)
           p == Purge(st, u, idxs)
           h == HeadAfter(idxs)
           r == [p EXCEPT !.head = h]
<1>1. Place(st, idxs, tokens) = r
  BY DEF Place, EachPlaced
<1>2. TokensIn(st, idxs, tokens, 1 .. Len(idxs), u)
  BY TokensAreIn
<1> HIDE DEF u, q
<1>3. u \in Good
  BY <1>2 DEF TokensIn
<1>4. PurgedTo(st, u, idxs, p)
  BY <1>3, PurgeIs
<1> HIDE DEF p
<1>5. h \in 0 .. NumCells
  <2>1. Last(idxs) \in Cells
    BY DEF Suits, Last
  <2> QED BY <2>1, CellsAre DEF HeadAfter
<1>6. Thinner(u, p) /\ p \in Good
  BY <1>4 DEF PurgedTo, Thinner
<1> HIDE DEF h
<1>7. SameCells(p, r)
  BY <1>5, <1>6, WithHead
<1> HIDE DEF r
<1>8. Thinner(u, r)
  BY <1>6, <1>7 DEF Thinner, SameCells
<1>9. (\A s \in Seqs : Lost(st, idxs, s) = {}) => r.cell = u.cell
  BY <1>4, <1>7 DEF PurgedTo, SameCells
<1> QED BY <1>1, <1>2, <1>8, <1>9 DEF PlacedIn

\* No shift comes of it, and the slot has none.
LEMMA PlacedShifts ==
    ASSUME NEW st \in Good, NEW idxs, NEW tokens, Suits(idxs, tokens), NEW r, PlacedIn(st, idxs, tokens, r)
    PROVE  /\ r \in Good /\ r.has_shift = st.has_shift
           /\ \A i \in Cells : st.cell[i].shift = 0 \/ i \in Range(idxs) => r.cell[i].shift = 0
<1>1. PICK u : TokensIn(st, idxs, tokens, 1 .. Len(idxs), u) /\ Thinner(u, r)
  BY DEF PlacedIn
<1>2. r \in Good /\ r.has_shift = st.has_shift
  BY <1>1 DEF TokensIn, Thinner
<1>3. ASSUME NEW i \in Cells, st.cell[i].shift = 0 \/ i \in Range(idxs)
      PROVE  r.cell[i].shift = 0
  <2>1. DOMAIN idxs = 1 .. Len(idxs)
    BY DEF Suits
  <2>2. i \in Range(idxs) <=> \E j \in 1 .. Len(idxs) : idxs[j] = i
    BY <2>1 DEF Range
  <2>3. \A j \in 1 .. Len(idxs) : u.cell[idxs[j]].shift = 0
    <3>1. \A p, T : TokenCell(p, T).shift = 0
      BY DEF TokenCell
    <3> QED BY <1>1, <3>1 DEF TokensIn
  <2>4. i \notin Range(idxs) => u.cell[i] = st.cell[i]
    BY <1>1, <2>2 DEF TokensIn
  <2>5. u.cell[i].shift = 0
    BY <1>3, <2>2, <2>3, <2>4
  <2> QED BY <1>1, <2>5, EmptyIs DEF Thinner
<1> QED BY <1>2, <1>3

LEMMA ModIs ==
    ASSUME NEW N \in Nat, N >= 1, NEW a \in Nat, a < N + N
    PROVE  a % N = IF a < N THEN a ELSE a - N
<1>1. /\ a % N \in Int /\ 0 <= a % N /\ a % N < N
      /\ a \div N \in Int /\ a = N * (a \div N) + (a % N)
  BY SMTT(30)
<1> DEFINE d == a \div N
           m == a % N
<1>2. d \in Int /\ m \in Int /\ 0 <= m /\ m < N /\ a = N * d + m
  BY <1>1
<1> HIDE DEF d, m
<1>3. d = 0 \/ d = 1
  <2>1. d >= 0
    BY <1>2, SMTT(30)
  <2>2. d <= 1
    BY <1>2, SMTT(30)
  <2> QED BY <1>2, <2>1, <2>2
<1>4. m = IF a < N THEN a ELSE a - N
  BY <1>2, <1>3
<1> QED BY <1>4 DEF m

\* The cells found for a ubatch: none, or as many as it has tokens, different and usable.
UsableCells(st, f, T, round) ==
    /\ f \in Seq(Cells)
    /\ \A j \in 1 .. Len(f) : CanUse(st, f[j]) /\ \E x \in T : f[j] = round[x]
    /\ \A i, j \in 1 .. Len(f) : f[i] = f[j] => i = j

FoundIn(st, n, r) ==
    r # <<>> => /\ r \in Seq(Cells) /\ Len(r) = n
                /\ \A j \in 1 .. n : CanUse(st, r[j])
                /\ \A i, j \in 1 .. n : r[i] = r[j] => i = j

LEMMA UsableMore ==
    ASSUME NEW st, NEW round \in Seq(Cells), \A x, y \in 1 .. Len(round) : round[x] = round[y] => x = y,
           NEW T \in SUBSET (1 .. Len(round)), NEW x \in T, NEW f, UsableCells(st, f, T \ {x}, round)
    PROVE  UsableCells(st, Usable(st, f, round[x]), T, round)
<1>1. round[x] \in Cells /\ \A j \in 1 .. Len(f) : f[j] # round[x]
  BY DEF UsableCells
<1>2. f \in Seq(Cells) /\ Len(f) \in Nat
  BY DEF UsableCells
<1>3. CASE CanUse(st, round[x])
  <2> DEFINE g == Append(f, round[x])
  <2>1. /\ g \in Seq(Cells) /\ Len(g) = Len(f) + 1 /\ g[Len(f) + 1] = round[x]
        /\ \A j \in 1 .. Len(f) : g[j] = f[j]
    BY <1>1, <1>2
  <2> HIDE DEF g
  <2>2. \A j \in 1 .. Len(g) : j = Len(f) + 1 \/ j \in 1 .. Len(f)
    BY <1>2, <2>1
  <2>3. \A j \in 1 .. Len(g) : CanUse(st, g[j]) /\ \E y \in T : g[j] = round[y]
    BY <1>3, <2>1, <2>2 DEF UsableCells
  <2>4. \A i, j \in 1 .. Len(g) : g[i] = g[j] => i = j
    BY <1>1, <2>1, <2>2 DEF UsableCells
  <2>5. UsableCells(st, g, T, round)
    BY <2>1, <2>3, <2>4 DEF UsableCells
  <2> QED BY <1>3, <2>5 DEF Usable, g
<1>4. CASE ~CanUse(st, round[x])
  BY <1>4 DEF Usable, UsableCells
<1> QED BY <1>3, <1>4

LEMMA FindSlotIs ==
    ASSUME NEW st \in Good, NEW n \in Nat, n >= 1
    PROVE  FoundIn(st, n, FindSlot(st, n))
<1> DEFINE start == IF st.head > Cardinality(st.used) + 2 * n THEN 0 ELSE st.head
           round == [j \in 1 .. NumCells |-> (start + j - 1) % NumCells]
           f     == EachUsable(st, round, <<>>)
           V == Seq(Cells)
           H == {y \in (SUBSET (1 .. Len(round))) \X V : UsableCells(st, y[2], y[1], round)}
<1>1. FindSlot(st, n) = IF Len(f) < n THEN <<>> ELSE SubSeq(f, 1, n)
  BY DEF FindSlot, EachUsable, Usable
<1>2. start \in 0 .. NumCells
  BY GoodCells, FitIsLoose, SizesAre
<1> HIDE DEF start
<1>3. /\ round \in Seq(Cells) /\ Len(round) = NumCells
      /\ \A x, y \in 1 .. Len(round) : round[x] = round[y] => x = y
  <2>1. ASSUME NEW j \in 1 .. NumCells
        PROVE  /\ round[j] = IF start + j - 1 < NumCells THEN start + j - 1 ELSE start + j - 1 - NumCells
               /\ round[j] \in Cells
    <3> DEFINE a == start + j - 1
    <3>1. a \in Nat /\ a < NumCells + NumCells /\ NumCells \in Nat /\ NumCells >= 1
      BY <1>2, SizesAre
    <3>2. a % NumCells = IF a < NumCells THEN a ELSE a - NumCells
      <4> HIDE DEF a
      <4> QED BY <3>1, ModIs
    <3>3. round[j] = a % NumCells
      OBVIOUS
    <3> HIDE DEF round
    <3> QED BY <1>2, <3>1, <3>2, <3>3, SizesAre DEF Cells
  <2>2. round \in Seq(Cells) /\ Len(round) = NumCells
    <3>1. round = [j \in 1 .. NumCells |-> round[j]]
      OBVIOUS
    <3> HIDE DEF round
    <3>2. round \in [1 .. NumCells -> Cells]
      BY <2>1, <3>1
    <3> QED BY <3>2, SizesAre
  <2>3. ASSUME NEW x \in 1 .. NumCells, NEW y \in 1 .. NumCells, round[x] = round[y]
        PROVE  x = y
    <3> HIDE DEF round
    <3> QED BY <1>2, <2>1, <2>3, SizesAre
  <2> HIDE DEF round
  <2> QED BY <2>2, <2>3
<1>4. \A T, v : <<T, v>> \in H <=> T \in SUBSET (1 .. Len(round)) /\ v \in V /\ UsableCells(st, v, T, round)
  OBVIOUS
<1>5. H \subseteq (SUBSET (1 .. Len(round))) \X V
  OBVIOUS
<1> HIDE DEF H, round
<1>6. <<{}, <<>>>> \in H
  <2>1. <<>> \in V /\ UsableCells(st, <<>>, {}, round)
    BY DEF UsableCells
  <2> QED BY <1>4, <2>1
<1>7. ASSUME NEW T \in SUBSET (1 .. Len(round)), NEW x \in T, NEW v \in V, <<T \ {x}, v>> \in H
      PROVE  <<T, Usable(st, v, round[x])>> \in H
  <2> DEFINE w == Usable(st, v, round[x])
  <2>1. UsableCells(st, w, T, round)
    BY <1>3, <1>4, <1>7, UsableMore
  <2> HIDE DEF w
  <2>2. <<T, w>> \in H
    BY <1>4, <2>1 DEF UsableCells
  <2> QED BY <2>2 DEF w
<1>8. UsableSteps(H, V, st, round, <<>>)
  BY <1>5, <1>6, <1>7 DEF UsableSteps
<1> HIDE DEF V
<1>9. <<1 .. Len(round), f>> \in H
  BY <1>3, <1>8, UsableRule
<1>10. UsableCells(st, f, 1 .. Len(round), round)
  BY <1>4, <1>9
<1> HIDE DEF f
<1>11. CASE ~(Len(f) < n)
  <2>1. f \in Seq(Cells) /\ n <= Len(f) /\ Len(f) \in Nat
    BY <1>10, <1>11 DEF UsableCells
  <2> DEFINE r == SubSeq(f, 1, n)
  <2>2. r \in Seq(Cells) /\ Len(r) = n /\ \A i \in 1 .. n : r[i] = f[i] /\ i \in 1 .. Len(f)
    BY <2>1, StartOf
  <2>3. FindSlot(st, n) = r
    BY <1>1, <1>11
  <2> HIDE DEF r
  <2>4. \A j \in 1 .. n : CanUse(st, r[j])
    BY <1>10, <2>2 DEF UsableCells
  <2>5. \A i, j \in 1 .. n : r[i] = r[j] => i = j
    BY <1>10, <2>2 DEF UsableCells
  <2>6. FoundIn(st, n, r)
    BY <2>2, <2>4, <2>5 DEF FoundIn
  <2> QED BY <2>3, <2>6
<1> QED BY <1>1, <1>11 DEF FoundIn
-----------------------------------------------------------------------------
(* Ubatches, one after the other.                                          *)

\* Tokens of one sequence each, unless callers decode tokens of several.
All      == [Streams -> Good]
Batched  == {t \in Token : Coupled \/ \E s \in Seqs : t.seqs = {s}}
Ubatches == UNION {[K -> Seq(Batched) \ {<<>>}] : K \in SUBSET Streams}
Sinfos   == UNION {[K -> Seq(Cells)] : K \in SUBSET Streams}
Fits(sinfo, ubatch) ==
    sinfo \in Sinfos /\ DOMAIN sinfo = DOMAIN ubatch /\ \A k \in DOMAIN ubatch : Suits(sinfo[k], ubatch[k])

LEMMA UbatchIs ==
    ASSUME NEW u \in Ubatches
    PROVE  /\ DOMAIN u \subseteq Streams
           /\ \A k \in DOMAIN u : u[k] \in Seq(Token) /\ u[k] \in Seq(Batched) /\ Len(u[k]) \in Nat /\ Len(u[k]) >= 1
<1>1. PICK K \in SUBSET Streams : u \in [K -> Seq(Batched) \ {<<>>}]
  BY DEF Ubatches
<1>2. \A q \in Seq(Batched) : q # <<>> => Len(q) \in Nat /\ Len(q) >= 1
  OBVIOUS
<1>3. Batched \subseteq Token
  BY DEF Batched
<1>4. \A q \in Seq(Batched) : q \in Seq(Token)
  BY <1>3
<1>5. DOMAIN u = K /\ \A k \in K : u[k] \in Seq(Batched) /\ u[k] # <<>>
  BY <1>1
<1> QED BY <1>2, <1>4, <1>5

\* The cells found for a ubatch fit it, and can be used.
CanUseAll(all, sinfo) == \A k \in DOMAIN sinfo : \A i \in Range(sinfo[k]) : CanUse(all[k], i)

LEMMA FindIs ==
    ASSUME NEW all \in All, NEW u \in Ubatches, NEW sinfo, sinfo = Find(all, u)
    PROVE  /\ sinfo \in Sinfos
           /\ (\A k \in DOMAIN sinfo : sinfo[k] # <<>>) => Fits(sinfo, u) /\ CanUseAll(all, sinfo)
<1> DEFINE K == DOMAIN u
<1>1. sinfo = [k \in K |-> FindSlot(all[k], Len(u[k]))] /\ DOMAIN sinfo = K
  BY DEF Find
<1>2. K \in SUBSET Streams /\ \A k \in K : u[k] \in Seq(Token) /\ Len(u[k]) \in Nat /\ Len(u[k]) >= 1
  BY UbatchIs
<1>3. \A k \in K : all[k] \in Good
  BY <1>2 DEF All
<1> HIDE DEF K
<1>4. ASSUME NEW k \in K
      PROVE  FoundIn(all[k], Len(u[k]), sinfo[k])
  <2>1. FoundIn(all[k], Len(u[k]), FindSlot(all[k], Len(u[k])))
    BY <1>2, <1>3, FindSlotIs
  <2> QED BY <1>1, <2>1
<1>5. \A k \in K : sinfo[k] \in Seq(Cells)
  <2> TAKE k \in K
  <2>1. sinfo[k] = <<>> => sinfo[k] \in Seq(Cells)
    OBVIOUS
  <2> QED BY <1>4, <2>1 DEF FoundIn
<1>6. sinfo \in Sinfos
  <2>1. sinfo \in [K -> Seq(Cells)]
    BY <1>1, <1>5
  <2> QED BY <1>2, <2>1 DEF Sinfos
<1>7. ASSUME \A k \in K : sinfo[k] # <<>>
      PROVE  Fits(sinfo, u) /\ CanUseAll(all, sinfo)
  <2>1. ASSUME NEW k \in K
        PROVE  Suits(sinfo[k], u[k]) /\ \A i \in Range(sinfo[k]) : CanUse(all[k], i)
    <3>1. /\ sinfo[k] \in Seq(Cells) /\ Len(sinfo[k]) = Len(u[k])
          /\ \A j \in 1 .. Len(u[k]) : CanUse(all[k], sinfo[k][j])
          /\ \A i, j \in 1 .. Len(u[k]) : sinfo[k][i] = sinfo[k][j] => i = j
      BY <1>4, <1>7 DEF FoundIn
    <3>2. DOMAIN sinfo[k] = 1 .. Len(u[k])
      BY <3>1
    <3> QED BY <1>2, <3>1, <3>2 DEF Suits, Range
  <2> QED BY <1>1, <1>6, <2>1 DEF Fits, CanUseAll, K
<1> QED BY <1>1, <1>6, <1>7

\* apply_ubatch, in each of its streams.
Applied(all, sinfo, u, r) ==
    /\ r \in All
    /\ \A k \in DOMAIN u : PlacedIn(all[k], sinfo[k], u[k], r[k])
    /\ \A k \in Streams : k \notin DOMAIN u => r[k] = all[k]

LEMMA ApplyIs ==
    ASSUME NEW all \in All, NEW u \in Ubatches, NEW sinfo, Fits(sinfo, u)
    PROVE  Applied(all, sinfo, u, Apply(all, sinfo, u))
<1> DEFINE r == Apply(all, sinfo, u)
<1>1. r = [k \in Streams |-> IF k \in DOMAIN u THEN Place(all[k], sinfo[k], u[k]) ELSE all[k]]
  BY DEF Apply
<1>2. \A k \in Streams : all[k] \in Good
  BY DEF All
<1>3. DOMAIN u \subseteq Streams
  BY UbatchIs
<1> HIDE DEF r
<1>4. ASSUME NEW k \in DOMAIN u
      PROVE  PlacedIn(all[k], sinfo[k], u[k], r[k]) /\ r[k] \in Good
  <2>1. Suits(sinfo[k], u[k]) /\ all[k] \in Good /\ k \in Streams
    BY <1>2, <1>3 DEF Fits
  <2>2. PlacedIn(all[k], sinfo[k], u[k], Place(all[k], sinfo[k], u[k]))
    BY <2>1, PlaceIs
  <2>3. r[k] = Place(all[k], sinfo[k], u[k])
    BY <1>1, <2>1
  <2>4. PlacedIn(all[k], sinfo[k], u[k], r[k])
    BY <2>2, <2>3
  <2> QED BY <2>1, <2>4, PlacedShifts
<1>5. \A k \in Streams : k \notin DOMAIN u => r[k] = all[k]
  BY <1>1
<1>6. r \in All
  <2>1. \A k \in Streams : r[k] \in Good
    BY <1>2, <1>4, <1>5
  <2>2. r = [k \in Streams |-> r[k]]
    BY <1>1
  <2> QED BY <2>1, <2>2 DEF All
<1>7. Applied(all, sinfo, u, r)
  BY <1>4, <1>5, <1>6 DEF Applied
<1> QED BY <1>7 DEF r

\* What placing has come to.
State == [sinfo : Sinfos, old : All]
Acc   == [ok : BOOLEAN, now : All, states : Seq(State)]
Start(all) == [ok |-> TRUE, now |-> all, states |-> <<>>]

\* One ubatch more, or no cells for it.
Failed(acc) == [acc EXCEPT !.ok = FALSE]
OneMore(acc, sinfo, u) ==
    [ok |-> TRUE, now |-> Apply(acc.now, sinfo, u), states |-> Append(acc.states, [sinfo |-> sinfo, old |-> acc.now])]
Stepped(acc, u, r) ==
    \/ r = Failed(acc)
    \/ \E sinfo \in Sinfos : acc.ok /\ Fits(sinfo, u) /\ CanUseAll(acc.now, sinfo) /\ r = OneMore(acc, sinfo, u)

LEMMA PlaceNextIs ==
    ASSUME NEW acc \in Acc, NEW u \in Ubatches
    PROVE  Stepped(acc, u, PlaceNext(acc, u)) /\ PlaceNext(acc, u) \in Acc
<1> DEFINE sinfo == Find(acc.now, u)
           found == \A k \in DOMAIN sinfo : sinfo[k] # <<>>
           r     == PlaceNext(acc, u)
<1>1. r = IF ~acc.ok \/ ~found THEN Failed(acc) ELSE OneMore(acc, sinfo, u)
  BY DEF PlaceNext, Failed, OneMore
<1>2. acc.now \in All /\ acc.states \in Seq(State) /\ acc.ok \in BOOLEAN
  BY DEF Acc
<1>3. sinfo \in Sinfos /\ (found => Fits(sinfo, u) /\ CanUseAll(acc.now, sinfo))
  BY <1>2, FindIs
<1> HIDE DEF sinfo, r, found
<1>4. ASSUME ~acc.ok \/ ~found
      PROVE  Stepped(acc, u, r) /\ r \in Acc
  <2>1. Failed(acc) \in Acc
    BY DEF Failed, Acc
  <2> QED BY <1>1, <1>4, <2>1 DEF Stepped
<1>5. ASSUME acc.ok, found
      PROVE  Stepped(acc, u, r) /\ r \in Acc
  <2>1. Apply(acc.now, sinfo, u) \in All
    BY <1>2, <1>3, <1>5, ApplyIs DEF Applied
  <2>2. [sinfo |-> sinfo, old |-> acc.now] \in State
    BY <1>2, <1>3 DEF State
  <2>3. OneMore(acc, sinfo, u) \in Acc
    BY <1>2, <2>1, <2>2 DEF OneMore, Acc
  <2> QED BY <1>1, <1>3, <1>5, <2>3 DEF Stepped
<1>6. Stepped(acc, u, r) /\ r \in Acc
  BY <1>2, <1>4, <1>5
<1> QED BY <1>6 DEF r

\* What holds of the start and goes on with each step holds of what was placed.
Progresses(I, all) ==
    /\ <<0, Start(all)>> \in I
    /\ \A m \in 1 .. Len(ubatches), acc \in Acc, r \in Acc :
          <<m - 1, acc>> \in I /\ Stepped(acc, ubatches[m], r) => <<m, r>> \in I

LEMMA PlacedIs ==
    ASSUME NEW all \in All, ubatches \in Seq(Ubatches), NEW I, Progresses(I, all)
    PROVE  <<Len(ubatches), Placed(all)>> \in I /\ Placed(all) \in Acc
<1> DEFINE n == Len(ubatches)
           q == ubatches
           b == Start(all)
           V == Acc
           H == {y \in (SUBSET (1 .. n)) \X V : \A m \in 0 .. n : y[1] = 1 .. m => <<m, y[2]>> \in I}
<1>1. n \in Nat /\ q \in Seq(Ubatches) /\ Len(q) = n
  OBVIOUS
<1>2. \A T, v : <<T, v>> \in H <=> T \in SUBSET (1 .. n) /\ v \in V /\ \A m \in 0 .. n : T = 1 .. m => <<m, v>> \in I
  OBVIOUS
<1>3. H \subseteq (SUBSET (1 .. n)) \X V
  OBVIOUS
<1> HIDE DEF H
<1>4. b \in V
  BY DEF Start, Acc
<1>5. <<{}, b>> \in H
  <2>1. \A m \in 0 .. n : {} = 1 .. m => m = 0
    <3> TAKE m \in 0 .. n
    <3>1. m >= 1 => 1 \in 1 .. m
      BY <1>1
    <3> QED BY <1>1, <3>1
  <2> QED BY <1>2, <1>4, <2>1 DEF Progresses
<1>6. ASSUME NEW T \in SUBSET (1 .. n), NEW x \in T, \A y \in T : y <= x, NEW v \in V, <<T \ {x}, v>> \in H
      PROVE  <<T, PlaceNext(v, q[x])>> \in H
  <2> DEFINE w == PlaceNext(v, q[x])
  <2>1. q[x] \in Ubatches /\ x \in 1 .. n
    BY <1>1
  <2>2. Stepped(v, ubatches[x], w) /\ w \in V
    BY <2>1, PlaceNextIs
  <2> HIDE DEF w
  <2>3. ASSUME NEW m \in 0 .. n, T = 1 .. m
        PROVE  <<m, w>> \in I
    <3>1. m = x /\ m \in 1 .. n /\ m - 1 \in 0 .. n
      <4>1. m >= 1 /\ x <= m
        BY <1>1, <2>3
      <4>2. m \in T
        BY <1>1, <2>3, <4>1
      <4>3. m <= x
        BY <1>6, <4>2
      <4> QED BY <1>1, <2>1, <4>1, <4>3
    <3>2. T \ {x} = 1 .. (m - 1)
      BY <1>1, <2>3, <3>1
    <3>3. <<m - 1, v>> \in I
      BY <1>2, <1>6, <3>1, <3>2
    <3> QED BY <2>2, <3>1, <3>3 DEF Progresses
  <2>4. <<T, w>> \in H
    BY <1>2, <2>2, <2>3
  <2> QED BY <2>4 DEF w
<1>7. NextSteps(H, V, b, q)
  BY <1>1, <1>3, <1>5, <1>6 DEF NextSteps
<1> HIDE DEF V, b
<1>8. <<1 .. Len(q), EachNext(b, q)>> \in H
  BY <1>1, <1>7, NextRule
<1>9. Placed(all) = EachNext(b, q)
  BY DEF Placed, EachNext, b, Start
<1> QED BY <1>1, <1>2, <1>8, <1>9 DEF V
LEMMA SlotIs ==
    ASSUME NEW state \in State, NEW k \in DOMAIN state.sinfo
    PROVE  k \in Streams /\ state.sinfo[k] \in Seq(Cells) /\ Range(state.sinfo[k]) \in SUBSET Cells /\ state.old[k] \in Good
<1>1. state.sinfo \in Sinfos /\ state.old \in All
  BY DEF State
<1>2. k \in Streams /\ state.sinfo[k] \in Seq(Cells)
  BY <1>1 DEF Sinfos
<1>3. Range(state.sinfo[k]) \in SUBSET Cells
  BY <1>2 DEF Range
<1> QED BY <1>1, <1>2, <1>3 DEF All

\* No cell of a slot has a shift.
SlotShifts(all, sinfo) == \A k \in DOMAIN sinfo : \A i \in Range(sinfo[k]) : all[k].cell[i].shift = 0
Settled(all, states)   == \A j \in 1 .. Len(states) : SlotShifts(all, states[j].sinfo)

\* A ubatch is taken back.
RestoredTo(all, state, r) ==
    /\ r \in All
    /\ \A k \in Streams : IF k \in DOMAIN state.sinfo
                          THEN TookBack(all[k], state.old[k], Range(state.sinfo[k]), r[k])
                          ELSE r[k] = all[k]

\* The place of a stream in a slot is the number of a stream.
LEMMA StrmIndexIs ==
    ASSUME NEW sinfo \in Sinfos, NEW k \in DOMAIN sinfo
    PROVE  StrmIndex(sinfo, k) \in Streams
<1> DEFINE S == {j \in DOMAIN sinfo : j < k}
<1>1. k \in Streams /\ DOMAIN sinfo \subseteq Streams
  BY DEF Sinfos
<1>2. k \in Nat /\ DOMAIN sinfo \subseteq Nat
  BY <1>1, SizesAssumption DEF Streams, Seqs
<1>3. S \subseteq 0 .. k - 1
  BY <1>2
<1>6. IsFiniteSet(0 .. k - 1) /\ Cardinality(0 .. k - 1) = k
  <2>1. k - 1 \in Int /\ 0 \in Int /\ (IF 0 > k - 1 THEN 0 ELSE k - 1 - 0 + 1) = k
    BY <1>2
  <2> QED BY <2>1, FS_Interval
<1>4. IsFiniteSet(S) /\ Cardinality(S) <= k /\ Cardinality(S) \in Nat
  <2> HIDE DEF S
  <2> QED BY <1>3, <1>6, FS_Subset, FS_CardinalityType
<1>5. StrmIndex(sinfo, k) = Cardinality(S)
  BY DEF StrmIndex
<1> HIDE DEF S
<1> QED BY <1>1, <1>2, <1>4, <1>5, SizesAssumption DEF Streams, Seqs

LEMMA RestoreIs ==
    ASSUME NEW all \in All, NEW state \in State, SlotShifts(all, state.sinfo)
    PROVE  RestoredTo(all, state, Restore(all, state))
<1> DEFINE r == Restore(all, state)
           h(k)    == state.old[StrmIndex(state.sinfo, k)].head
           took(k) == [EachSet(all[k], Range(state.sinfo[k]), state.old[k]) EXCEPT !.head = h(k)]
<1>1. r = [k \in Streams |-> IF k \notin DOMAIN state.sinfo THEN all[k] ELSE took(k)]
  BY DEF Restore, EachSet
<1>2. \A k \in Streams : all[k] \in Good
  BY DEF All
<1>3. ASSUME NEW k \in DOMAIN state.sinfo
      PROVE  TookBack(all[k], state.old[k], Range(state.sinfo[k]), took(k))
  <2>1. k \in Streams /\ Range(state.sinfo[k]) \in SUBSET Cells /\ state.old[k] \in Good /\ all[k] \in Good
    BY <1>2, SlotIs
  <2>2. \A i \in Range(state.sinfo[k]) : all[k].cell[i].shift = 0
    BY DEF SlotShifts
  <2>3. h(k) \in 0 .. NumCells
    <3>1. state.sinfo \in Sinfos /\ state.old \in All
      BY DEF State
    <3>2. StrmIndex(state.sinfo, k) \in Streams
      BY <3>1, StrmIndexIs
    <3>3. state.old[StrmIndex(state.sinfo, k)] \in Good
      BY <3>1, <3>2 DEF All
    <3> QED BY <3>3, GoodIs DEF Fit, StreamType
  <2> HIDE DEF h
  <2> QED BY <2>1, <2>2, <2>3, TakeBackIs
<1> HIDE DEF r, took
<1>4. \A k \in Streams : IF k \in DOMAIN state.sinfo
                          THEN TookBack(all[k], state.old[k], Range(state.sinfo[k]), r[k])
                          ELSE r[k] = all[k]
  BY <1>1, <1>3
<1>5. r \in All
  <2>1. \A k \in Streams : r[k] \in Good
    BY <1>2, <1>4 DEF TookBack
  <2>2. r = [k \in Streams |-> r[k]]
    BY <1>1
  <2> QED BY <2>1, <2>2 DEF All
<1>6. RestoredTo(all, state, r)
  BY <1>4, <1>5 DEF RestoredTo
<1> QED BY <1>6 DEF r

\* Neither placing a ubatch nor taking it back gives a cell a shift, or loses has_shift.
Quieter(all, r) ==
    /\ r \in All
    /\ \A k \in Streams : /\ r[k].has_shift = all[k].has_shift
                          /\ \A i \in Cells : all[k].cell[i].shift = 0 => r[k].cell[i].shift = 0

LEMMA AppliedQuieter ==
    ASSUME NEW all \in All, NEW u \in Ubatches, NEW sinfo, Fits(sinfo, u), NEW r, Applied(all, sinfo, u, r)
    PROVE  Quieter(all, r) /\ SlotShifts(r, sinfo)
<1>1. \A k \in Streams : all[k] \in Good
  BY DEF All
<1>2. DOMAIN u \subseteq Streams /\ DOMAIN sinfo = DOMAIN u
  BY UbatchIs DEF Fits
<1>3. ASSUME NEW k \in DOMAIN u
      PROVE  /\ r[k].has_shift = all[k].has_shift
             /\ \A i \in Cells : all[k].cell[i].shift = 0 \/ i \in Range(sinfo[k]) => r[k].cell[i].shift = 0
             /\ Range(sinfo[k]) \subseteq Cells
  <2>1. Suits(sinfo[k], u[k]) /\ all[k] \in Good /\ PlacedIn(all[k], sinfo[k], u[k], r[k])
    BY <1>1, <1>2 DEF Fits, Applied
  <2>2. Range(sinfo[k]) \subseteq Cells
    BY <2>1 DEF Suits, Range
  <2> QED BY <2>1, <2>2, PlacedShifts
<1>4. \A k \in Streams : k \notin DOMAIN u => r[k] = all[k]
  BY DEF Applied
<1>5. SlotShifts(r, sinfo)
  BY <1>2, <1>3 DEF SlotShifts
<1> QED BY <1>3, <1>4, <1>5 DEF Applied, Quieter

LEMMA RestoredQuieter ==
    ASSUME NEW all \in All, NEW state \in State, NEW r, RestoredTo(all, state, r)
    PROVE  Quieter(all, r)
<1>1. ASSUME NEW k \in Streams
      PROVE  /\ r[k].has_shift = all[k].has_shift
             /\ \A i \in Cells : all[k].cell[i].shift = 0 => r[k].cell[i].shift = 0
  <2>1. CASE k \in DOMAIN state.sinfo
    <3>1. TookBack(all[k], state.old[k], Range(state.sinfo[k]), r[k])
      BY <2>1 DEF RestoredTo
    <3>2. \A i \in Cells : r[k].cell[i] = IF i \in Range(state.sinfo[k]) THEN Again(state.old[k].cell[i], 0) ELSE all[k].cell[i]
      BY <3>1 DEF TookBack, Put
    <3>3. \A c : Again(c, 0).shift = 0
      BY DEF Again
    <3> QED BY <3>1, <3>2, <3>3 DEF TookBack
  <2>2. CASE k \notin DOMAIN state.sinfo
    BY <2>2 DEF RestoredTo
  <2> QED BY <2>1, <2>2
<1> QED BY <1>1 DEF RestoredTo, Quieter

LEMMA QuieterStill ==
    ASSUME NEW all, NEW r, Quieter(all, r), NEW sinfo \in Sinfos, SlotShifts(all, sinfo)
    PROVE  SlotShifts(r, sinfo)
<1>1. ASSUME NEW k \in DOMAIN sinfo, NEW i \in Range(sinfo[k])
      PROVE  k \in Streams /\ i \in Cells
  BY DEF Sinfos, Range
<1> QED BY <1>1 DEF SlotShifts, Quieter

\* What was placed: as many ubatches as it says, and their cells fit them.
AreFit(acc) ==
    /\ Len(acc.states) <= Len(ubatches) /\ (acc.ok => Len(acc.states) = Len(ubatches))
    /\ \A j \in 1 .. Len(acc.states) : Fits(acc.states[j].sinfo, ubatches[j])

LEMMA AppendIs ==
    ASSUME NEW A, NEW s \in Seq(A), NEW e \in A
    PROVE  /\ Append(s, e) \in Seq(A) /\ Len(Append(s, e)) = Len(s) + 1 /\ Append(s, e)[Len(s) + 1] = e
           /\ \A j \in 1 .. Len(s) : Append(s, e)[j] = s[j]
           /\ \A j \in 1 .. Len(s) + 1 : j = Len(s) + 1 \/ j \in 1 .. Len(s)
OBVIOUS

LEMMA PlacedFit ==
    ASSUME NEW all \in All, ubatches \in Seq(Ubatches), NEW acc, acc = Placed(all)
    PROVE  acc \in Acc /\ AreFit(acc) /\ Settled(acc.now, acc.states) /\ Quieter(all, acc.now)
<1> DEFINE I == {y \in (0 .. Len(ubatches)) \X Acc :
                    /\ Len(y[2].states) <= y[1] /\ (y[2].ok => Len(y[2].states) = y[1])
                    /\ \A j \in 1 .. Len(y[2].states) : Fits(y[2].states[j].sinfo, ubatches[j])
                    /\ Settled(y[2].now, y[2].states) /\ Quieter(all, y[2].now)}
<1>1. \A m, v : <<m, v>> \in I <=>
          /\ m \in 0 .. Len(ubatches) /\ v \in Acc
          /\ Len(v.states) <= m /\ (v.ok => Len(v.states) = m)
          /\ \A j \in 1 .. Len(v.states) : Fits(v.states[j].sinfo, ubatches[j])
          /\ Settled(v.now, v.states) /\ Quieter(all, v.now)
  OBVIOUS
<1> HIDE DEF I
<1>2. <<0, Start(all)>> \in I
  <2>1. Start(all) \in Acc /\ Start(all).states = <<>> /\ Start(all).now = all
    BY DEF Start, Acc
  <2>2. Quieter(all, all)
    BY DEF Quieter
  <2>3. Len(<<>>) = 0 /\ 0 \in 0 .. Len(ubatches) /\ \A j \in 1 .. 0 : FALSE
    OBVIOUS
  <2> QED BY <1>1, <2>1, <2>2, <2>3 DEF Settled
<1>3. ASSUME NEW m \in 1 .. Len(ubatches), NEW v \in Acc, NEW r \in Acc, <<m - 1, v>> \in I, Stepped(v, ubatches[m], r)
      PROVE  <<m, r>> \in I
  <2>1. /\ Len(v.states) <= m - 1 /\ (v.ok => Len(v.states) = m - 1)
        /\ \A j \in 1 .. Len(v.states) : Fits(v.states[j].sinfo, ubatches[j])
        /\ Settled(v.now, v.states) /\ Quieter(all, v.now)
    BY <1>1, <1>3
  <2>2. v.states \in Seq(State) /\ v.now \in All /\ Len(v.states) \in Nat /\ m \in Nat /\ ubatches[m] \in Ubatches /\ v.ok \in BOOLEAN
    BY DEF Acc
  <2>3. CASE r = Failed(v)
    <3>1. r.ok = FALSE /\ r.states = v.states /\ r.now = v.now
      BY <2>3 DEF Failed, Acc
    <3>2. m \in 0 .. Len(ubatches) /\ Len(v.states) <= m
      BY <2>1, <2>2
    <3> QED BY <1>1, <2>1, <3>1, <3>2
  <2>4. ASSUME NEW sinfo \in Sinfos, v.ok, Fits(sinfo, ubatches[m]), r = OneMore(v, sinfo, ubatches[m])
        PROVE  <<m, r>> \in I
    <3> DEFINE e == [sinfo |-> sinfo, old |-> v.now]
               w == Apply(v.now, sinfo, ubatches[m])
               s == Append(v.states, e)
    <3>1. r.ok = TRUE /\ r.states = s /\ r.now = w /\ e.sinfo = sinfo
      BY <2>4 DEF OneMore
    <3>2. e \in State
      BY <2>2 DEF State
    <3> HIDE DEF e, w
    <3>3. /\ s \in Seq(State) /\ Len(s) = m /\ s[m] = e /\ \A j \in 1 .. m - 1 : s[j] = v.states[j]
          /\ \A j \in 1 .. m : j = m \/ j \in 1 .. m - 1
      <4>1. Len(v.states) = m - 1 /\ Len(v.states) + 1 = m
        BY <2>1, <2>2, <2>4
      <4> QED BY <2>2, <3>2, <4>1, AppendIs
    <3> HIDE DEF s
    <3>4. Applied(v.now, sinfo, ubatches[m], w)
      BY <2>2, <2>4, ApplyIs DEF w
    <3>5. Quieter(v.now, w) /\ SlotShifts(w, sinfo)
      BY <2>2, <2>4, <3>4, AppliedQuieter
    <3>6. Quieter(all, w)
      BY <2>1, <3>5 DEF Quieter
    <3>7. \A j \in 1 .. m : Fits(s[j].sinfo, ubatches[j])
      BY <2>1, <2>4, <3>1, <3>3
    <3>8. Settled(w, s)
      <4>1. ASSUME NEW j \in 1 .. m
            PROVE  SlotShifts(w, s[j].sinfo)
        <5>1. CASE j = m
          BY <3>1, <3>3, <3>5, <5>1
        <5>2. CASE j \in 1 .. m - 1
          <6>0. Len(v.states) = m - 1 /\ v.states[j] \in State
            BY <2>1, <2>2, <2>4, <5>2
          <6>1. v.states[j].sinfo \in Sinfos
            BY <6>0 DEF State
          <6>2. SlotShifts(v.now, v.states[j].sinfo)
            BY <2>1, <5>2, <6>0 DEF Settled
          <6> QED BY <3>3, <3>5, <5>2, <6>1, <6>2, QuieterStill
        <5> QED BY <3>3, <5>1, <5>2
      <4> QED BY <3>3, <4>1 DEF Settled
    <3>9. m \in 0 .. Len(ubatches) /\ m <= m
      BY <2>2
    <3> QED BY <1>1, <3>1, <3>3, <3>6, <3>7, <3>8, <3>9
  <2> QED BY <1>3, <2>3, <2>4 DEF Stepped
<1>4. Progresses(I, all)
  BY <1>2, <1>3 DEF Progresses
<1>5. <<Len(ubatches), acc>> \in I /\ acc \in Acc
  BY <1>4, PlacedIs
<1> QED BY <1>1, <1>5 DEF AreFit

\* A ubatch taken back leaves the others as they were to be taken back.
LEMMA RestoredSettled ==
    ASSUME NEW q \in Seq(State), NEW v \in All, Settled(v, q), NEW x \in 1 .. Len(q), NEW w, w = Restore(v, q[x])
    PROVE  Settled(w, q) /\ Quieter(v, w) /\ w \in All
<1>1. q[x] \in State /\ SlotShifts(v, q[x].sinfo)
  BY DEF Settled
<1>2. RestoredTo(v, q[x], w)
  BY <1>1, RestoreIs
<1>3. Quieter(v, w) /\ w \in All
  BY <1>1, <1>2, RestoredQuieter DEF RestoredTo
<1>4. ASSUME NEW j \in 1 .. Len(q)
      PROVE  SlotShifts(w, q[j].sinfo)
  <2>1. q[j] \in State
    OBVIOUS
  <2>2. q[j].sinfo \in Sinfos /\ SlotShifts(v, q[j].sinfo)
    BY <2>1 DEF State, Settled
  <2> QED BY <1>3, <2>2, QuieterStill
<1> QED BY <1>3, <1>4 DEF Settled

\* What was placed is taken back.
LEMMA RestoredIs ==
    ASSUME NEW acc \in Acc, Settled(acc.now, acc.states)
    PROVE  Quieter(acc.now, Restored(acc))
<1> DEFINE q == acc.states
           b == acc.now
           V == All
           H == {y \in (SUBSET (1 .. Len(q))) \X V : Settled(y[2], q) /\ Quieter(b, y[2])}
<1>1. q \in Seq(State) /\ b \in V
  BY DEF Acc
<1>2. \A T, v : <<T, v>> \in H <=> T \in SUBSET (1 .. Len(q)) /\ v \in V /\ Settled(v, q) /\ Quieter(b, v)
  OBVIOUS
<1>3. H \subseteq (SUBSET (1 .. Len(q))) \X V
  OBVIOUS
<1> HIDE DEF H
<1>4. <<{}, b>> \in H
  BY <1>1, <1>2 DEF Quieter
<1>5. ASSUME NEW T \in SUBSET (1 .. Len(q)), NEW x \in T, NEW v \in V, <<T \ {x}, v>> \in H
      PROVE  <<T, Restore(v, q[x])>> \in H
  <2> DEFINE w == Restore(v, q[x])
  <2>1. Settled(v, q) /\ Quieter(b, v) /\ x \in 1 .. Len(q)
    BY <1>2, <1>5
  <2>2. Settled(w, q) /\ Quieter(v, w) /\ w \in All
    BY <1>1, <2>1, RestoredSettled
  <2> HIDE DEF w
  <2>4. w \in V /\ Quieter(b, w)
    BY <2>1, <2>2 DEF Quieter
  <2>6. <<T, w>> \in H
    BY <1>2, <2>2, <2>4
  <2> QED BY <2>6 DEF w
<1>6. RestoreSteps(H, V, b, q)
  BY <1>3, <1>4, <1>5 DEF RestoreSteps
<1> HIDE DEF V
<1>7. <<1 .. Len(q), EachRestored(b, q)>> \in H
  BY <1>1, <1>6, RestoreRule
<1>8. Restored(acc) = EachRestored(b, q)
  BY DEF Restored, EachRestored
<1> QED BY <1>2, <1>7, <1>8
-----------------------------------------------------------------------------
(* What decode cuts and updates.                                           *)

\* A sequence that has no position is in no cell.
LEMMA PosOfIs ==
    ASSUME NEW st \in Good, NEW s \in Seqs
    PROVE  /\ PosOf(st, s) \in SUBSET (0 .. MaxPos) /\ MaxPos \in Nat
           /\ \A p \in Positions : p \in PosOf(st, s) <=> \E i \in Cells : s \in st.cell[i].seqs /\ st.cell[i].pos = p
           /\ \A i \in Cells : s \in st.cell[i].seqs => st.cell[i].pos \in PosOf(st, s)
<1>1. PosOf(st, s) \in SUBSET (0 .. MaxPos) /\ MaxPos \in Nat
  BY SizesAre DEF PosOf, Positions
<1>2. ASSUME NEW p \in Positions
      PROVE  p \in PosOf(st, s) <=> \E i \in Cells : s \in st.cell[i].seqs /\ st.cell[i].pos = p
  <2>1. st.seq_pos[s][p] = Cardinality(At(st.cell, s, p))
    BY GoodCells DEF Fit
  <2>2. At(st.cell, s, p) \subseteq Cells
    BY DEF At
  <2>3. Cardinality(At(st.cell, s, p)) = 0 <=> At(st.cell, s, p) = {}
    BY <2>2, SubsetsFinite, FS_EmptySet
  <2> QED BY <2>1, <2>3 DEF At, PosOf
<1>3. ASSUME NEW i \in Cells, s \in st.cell[i].seqs
      PROVE  st.cell[i].pos \in Positions
  <2>1. st.cell[i].pos # -1
    BY <1>3, GoodCells, EmptyIs
  <2> QED BY <2>1, GoodCells
<1> QED BY <1>1, <1>2, <1>3

LEMMA SeqPosMaxIs ==
    ASSUME NEW st \in Good, NEW s \in Seqs
    PROVE  /\ SeqPosMax(st, s) \in Int /\ SeqPosMax(st, s) >= -1
           /\ SeqPosMax(st, s) = -1 => \A i \in Cells : s \notin st.cell[i].seqs
           /\ \A i \in Cells : s \in st.cell[i].seqs => st.cell[i].pos <= SeqPosMax(st, s)
<1>1. /\ PosOf(st, s) \in SUBSET (0 .. MaxPos) /\ MaxPos \in Nat
      /\ \A i \in Cells : s \in st.cell[i].seqs => st.cell[i].pos \in PosOf(st, s)
  BY PosOfIs
<1>2. CASE PosOf(st, s) = {}
  BY <1>1, <1>2 DEF SeqPosMax
<1>3. CASE PosOf(st, s) # {}
  <2>1. Max(PosOf(st, s)) \in PosOf(st, s) /\ \A n \in PosOf(st, s) : n <= Max(PosOf(st, s))
    BY <1>1, <1>3, MaxIs
  <2>2. SeqPosMax(st, s) = Max(PosOf(st, s))
    BY <1>3 DEF SeqPosMax
  <2> QED BY <1>1, <2>1, <2>2
<1> QED BY <1>2, <1>3

\* What a failed ubatch loses: of the first sequence of each token, its position and the later ones.
RemovedFrom(st, tokens, t) ==
    /\ Thinner(st, t)
    /\ \A j \in DOMAIN tokens, i \in Cells :
          st.cell[i].pos >= tokens[j].pos => Min(tokens[j].seqs) \notin t.cell[i].seqs

\* The first sequences of the tokens.
Firsts(tokens) == {Min(tokens[j].seqs) : j \in DOMAIN tokens}
RemovedAll(st, T, tokens, v) ==
    Thinner(st, v) /\ \A s \in T, i \in Cells : st.cell[i].pos >= From(tokens, s) => s \notin v.cell[i].seqs

LEMMA RemovedMore ==
    ASSUME NEW st \in Good, NEW tokens, NEW T, NEW x \in T, NEW v, RemovedAll(st, T \ {x}, tokens, v)
    PROVE  RemovedAll(st, T, tokens, SeqRm(v, x, From(tokens, x), -1))
<1> DEFINE e == From(tokens, x)
           S == WithSeq(v, x, e, -1)
           w == SeqRm(v, x, e, -1)
<1>1. Thinner(st, v) /\ v \in Good /\ \A s \in T \ {x}, i \in Cells : st.cell[i].pos >= From(tokens, s) => s \notin v.cell[i].seqs
  BY DEF RemovedAll, Thinner
<1>2. Thinner(v, w)
  BY <1>1, ThinnerIs
<1>3. S \in SUBSET Cells /\ \A i \in Cells : i \in S <=> v.cell[i].pos >= e /\ v.cell[i].pos # -1 /\ x \in v.cell[i].seqs
  BY DEF WithSeq, InRange, IsEmpty
<1>4. Lessened(v, x, S, w) /\ v.cell \in [Cells -> Cell]
  BY <1>1, SeqRmIs, GoodCells, FitIsLoose
<1> HIDE DEF S, w
<1>5. \A i \in Cells : st.cell[i].pos >= e => x \notin w.cell[i].seqs
  <2> TAKE i \in Cells
  <2>1. ASSUME st.cell[i].pos >= e, x \in v.cell[i].seqs
        PROVE  x \notin w.cell[i].seqs
    <3>1. v.cell[i] # EmptyCell /\ v.cell[i].pos # -1
      BY <1>1, <2>1, EmptyIs, GoodCells
    <3>2. v.cell[i].pos = st.cell[i].pos
      BY <1>1, <3>1 DEF Thinner
    <3>3. i \in S
      BY <1>3, <2>1, <3>1, <3>2
    <3>4. w.cell[i] = Less(v.cell[i], x)
      BY <1>4, <3>3 DEF Lessened, Put, LessCells
    <3>5. Less(v.cell[i], x).seqs = v.cell[i].seqs \ {x}
      BY <1>4, <2>1, <3>1, LessIs
    <3> QED BY <3>4, <3>5
  <2> QED BY <1>2, <2>1 DEF Thinner
<1>6. Thinner(st, w)
  BY <1>1, <1>2, ThinnerStill
<1>7. \A s \in T \ {x}, i \in Cells : st.cell[i].pos >= From(tokens, s) => s \notin w.cell[i].seqs
  BY <1>1, <1>2 DEF Thinner
<1>8. RemovedAll(st, T, tokens, w)
  BY <1>5, <1>6, <1>7 DEF RemovedAll
<1> QED BY <1>8 DEF w

LEMMA RemoveFromIs ==
    ASSUME NEW st \in Good, NEW tokens \in Seq(Token)
    PROVE  RemovedFrom(st, tokens, RemoveFrom(st, tokens))
<1> DEFINE Q == Firsts(tokens)
           t == EachRemoved(st, Q, tokens)
           V == Good
           H == {y \in (SUBSET Q) \X V : RemovedAll(st, y[1], tokens, y[2])}
<1>0. ASSUME NEW j \in DOMAIN tokens
      PROVE  /\ Min(tokens[j].seqs) \in Seqs /\ Min(tokens[j].seqs) \in Q
             /\ From(tokens, Min(tokens[j].seqs)) <= tokens[j].pos
             /\ From(tokens, Min(tokens[j].seqs)) \in Int /\ tokens[j].pos \in Int
  <2>1. tokens[j] \in Token
    OBVIOUS
  <2>2. tokens[j].seqs \in SUBSET Nat /\ tokens[j].seqs \in SUBSET Seqs /\ tokens[j].seqs # {}
    BY <2>1, SizesAre DEF Token, Seqs
  <2> DEFINE P == {tokens[x].pos : x \in {x \in DOMAIN tokens : Min(tokens[x].seqs) = Min(tokens[j].seqs)}}
  <2>3. tokens[j].pos \in P
    OBVIOUS
  <2>4. P \in SUBSET Nat
    <3>1. \A x \in DOMAIN tokens : tokens[x] \in Token
      OBVIOUS
    <3>2. \A y \in Token : y.pos \in Nat
      BY SizesAre DEF Token, Positions
    <3> QED BY <3>1, <3>2
  <2>5. From(tokens, Min(tokens[j].seqs)) = Min(P)
    BY DEF From
  <2> HIDE DEF P
  <2> QED BY <2>2, <2>3, <2>4, <2>5, MinIs DEF Firsts
<1>1. IsFiniteSet(Q)
  BY <1>0, SubsetsFinite DEF Firsts
<1>2. RemoveFrom(st, tokens) = t
  BY DEF RemoveFrom, EachRemoved, From, Firsts
<1>3. \A T, v : <<T, v>> \in H <=> T \in SUBSET Q /\ v \in V /\ RemovedAll(st, T, tokens, v)
  OBVIOUS
<1>4. H \subseteq (SUBSET Q) \X V
  OBVIOUS
<1> HIDE DEF H, Q
<1>5. <<{}, st>> \in H
  BY <1>3, ThinnerSelf DEF RemovedAll
<1>6. ASSUME NEW T \in SUBSET Q, NEW x \in T, NEW v \in V, <<T \ {x}, v>> \in H
      PROVE  <<T, SeqRm(v, x, From(tokens, x), -1)>> \in H
  <2> DEFINE w == SeqRm(v, x, From(tokens, x), -1)
  <2>1. RemovedAll(st, T \ {x}, tokens, v)
    BY <1>3, <1>6
  <2>2. RemovedAll(st, T, tokens, w)
    BY <2>1, RemovedMore
  <2> HIDE DEF w
  <2>3. w \in V /\ RemovedAll(st, T, tokens, w)
    BY <2>2 DEF RemovedAll, Thinner
  <2>4. <<T, w>> \in H
    BY <1>3, <2>3
  <2> QED BY <2>4 DEF w
<1>7. RemoveSteps(H, V, st, Q, tokens)
  BY <1>4, <1>5, <1>6 DEF RemoveSteps
<1> HIDE DEF V
<1>8. <<Q, t>> \in H
  BY <1>1, <1>7, RemoveRule
<1> HIDE DEF t
<1>9. RemovedAll(st, Q, tokens, t)
  BY <1>3, <1>8
<1>10. \A j \in DOMAIN tokens, i \in Cells :
          st.cell[i].pos >= tokens[j].pos => Min(tokens[j].seqs) \notin t.cell[i].seqs
  <2> TAKE j \in DOMAIN tokens, i \in Cells
  <2> DEFINE e == From(tokens, Min(tokens[j].seqs))
  <2>1. e <= tokens[j].pos /\ Min(tokens[j].seqs) \in Q
    BY <1>0
  <2>2. st.cell[i].pos \in Int
    BY GoodCells, FitIsLoose DEF Cell, Positions
  <2>3. e \in Int /\ tokens[j].pos \in Int
    BY <1>0
  <2>4. st.cell[i].pos >= tokens[j].pos => st.cell[i].pos >= e
    <3> HIDE DEF e
    <3> QED BY <2>1, <2>2, <2>3
  <2> QED BY <1>9, <2>1, <2>4 DEF RemovedAll
<1> QED BY <1>2, <1>9, <1>10 DEF RemovedAll, RemovedFrom

\* When the shift is done the cells have none, and stay what they were otherwise.
LEMMA UnshiftedIs ==
    ASSUME NEW st \in Good
    PROVE  Unshifted(st) \in Good
<1> DEFINE f == [i \in Cells |-> [st.cell[i] EXCEPT !.shift = 0]]
           t == Unshifted(st)
<1>1. /\ Fit(st) /\ st \in StreamType /\ st.cell \in [Cells -> Cell]
      /\ \A i \in Cells : (st.cell[i].pos = -1 => st.cell[i] = EmptyCell) /\ (st.cell[i].seqs = {} => st.cell[i].pos = -1)
  BY GoodCells, FitIsLoose DEF Fit
<1>2. ASSUME NEW i \in Cells
      PROVE  f[i] \in Cell /\ f[i].pos = st.cell[i].pos /\ f[i].seqs = st.cell[i].seqs /\ f[i].shift = 0
  <2>1. f[i] = [st.cell[i] EXCEPT !.shift = 0] /\ st.cell[i] \in Cell
    BY <1>1
  <2> HIDE DEF f
  <2> QED BY <2>1 DEF Cell
<1>3. f \in [Cells -> Cell]
  <2>1. f = [i \in Cells |-> f[i]]
    OBVIOUS
  <2> HIDE DEF f
  <2> QED BY <1>2, <2>1
<1>4. t = [st EXCEPT !.has_shift = FALSE, !.cell = f]
  BY DEF Unshifted
<1> HIDE DEF f, t
<1>5. /\ t \in StreamType /\ t.cell = f /\ t.has_shift = FALSE /\ t.used = st.used /\ t.seq_pos = st.seq_pos
      /\ t.head = st.head
  BY <1>1, <1>3, <1>4 DEF StreamType
<1>6. \A s \in Seqs, p \in Positions : At(t.cell, s, p) = At(st.cell, s, p)
  BY <1>2, <1>5 DEF At
<1>7. \A i \in Cells : t.cell[i].pos = -1 => t.cell[i] = EmptyCell
  <2> TAKE i \in Cells
  <2>1. ASSUME t.cell[i].pos = -1
        PROVE  t.cell[i] = EmptyCell
    <3>1. st.cell[i] = EmptyCell
      BY <1>1, <1>2, <1>5, <2>1
    <3>2. t.cell[i] \in Cell /\ t.cell[i].pos = -1 /\ t.cell[i].seqs = {} /\ t.cell[i].shift = 0
      BY <1>2, <1>5, <3>1, EmptyIs
    <3> QED BY <3>2 DEF Cell, EmptyCell
  <2> QED BY <2>1
<1>8. Fit(t)
  <2>1. t.used = {i \in Cells : t.cell[i].pos # -1}
    BY <1>1, <1>2, <1>5 DEF Fit
  <2>2. \A s \in Seqs, p \in Positions : t.seq_pos[s][p] = Cardinality(At(t.cell, s, p))
    BY <1>1, <1>5, <1>6 DEF Fit
  <2>3. \A i \in Cells : t.cell[i].shift = 0
    BY <1>2, <1>5
  <2> QED BY <1>5, <1>7, <2>1, <2>2, <2>3 DEF Fit
<1>9. Owned(t)
  BY <1>1, <1>2, <1>5 DEF Owned
<1> QED BY <1>8, <1>9, GoodIs DEF t

\* The pending updates keep the types.
Ropes == [Streams -> [Cells -> Int]]

LEMMA ShiftIs ==
    ASSUME NEW data \in Ropes, NEW all \in All, NEW shifted, Shift(data, all, shifted)
    PROVE  stream' \in All /\ rope' \in Ropes
<1>1. \A k \in Streams : all[k] \in Good /\ Unshifted(all[k]) \in Good
  BY UnshiftedIs DEF All
<1>2. CASE shifted /\ HasShift(all)
  <2>1. /\ rope' = [k \in Streams |-> [i \in Cells |-> data[k][i] + all[k].cell[i].shift]]
        /\ stream' = [k \in Streams |-> Unshifted(all[k])]
    BY <1>2 DEF Shift
  <2>2. \A k \in Streams, i \in Cells : data[k][i] + all[k].cell[i].shift \in Int
    <3> TAKE k \in Streams, i \in Cells
    <3>1. data[k][i] \in Int
      BY DEF Ropes
    <3>2. all[k].cell[i].shift \in Int
      BY <1>1, GoodCells, FitIsLoose
    <3> QED BY <3>1, <3>2
  <2>3. rope' \in Ropes
    BY <2>1, <2>2 DEF Ropes
  <2> QED BY <1>1, <2>1, <2>3 DEF All
<1>3. CASE ~(shifted /\ HasShift(all))
  BY <1>3 DEF Shift
<1> QED BY <1>2, <1>3

LEMMA CopiedIs ==
    ASSUME NEW data \in Ropes, copies \in Seq(Streams \X Streams)
    PROVE  Copied(data) \in Ropes
<1> DEFINE q == copies
           V == Ropes
           H == (SUBSET (1 .. Len(q))) \X V
<1>1. \A T, v : <<T, v>> \in H <=> T \in SUBSET (1 .. Len(q)) /\ v \in V
  OBVIOUS
<1>2. H \subseteq (SUBSET (1 .. Len(q))) \X V
  OBVIOUS
<1> HIDE DEF H
<1>3. <<{}, data>> \in H
  BY <1>1
<1>4. ASSUME NEW T \in SUBSET (1 .. Len(q)), NEW x \in T, NEW v \in V
      PROVE  <<T, CopyData(v, q[x])>> \in H
  <2>1. q[x] \in Streams \X Streams
    OBVIOUS
  <2>2. q[x][1] \in Streams /\ q[x][2] \in Streams
    BY <2>1
  <2>3. [v EXCEPT ![q[x][2]] = v[q[x][1]]] \in Ropes
    BY <2>2 DEF Ropes
  <2> QED BY <1>1, <2>3 DEF CopyData
<1>5. DataSteps(H, V, data, q)
  BY <1>2, <1>3, <1>4 DEF DataSteps
<1> HIDE DEF V
<1>6. <<1 .. Len(q), EachCopied(data, q)>> \in H
  BY <1>5, DataRule
<1>7. Copied(data) = EachCopied(data, q)
  BY DEF Copied, EachCopied, CopyData
<1> QED BY <1>1, <1>6, <1>7 DEF V
\* The tokens of a sequence, after what it has.
LEMMA RunIs ==
    ASSUME stream \in All, NEW s \in Seqs, NEW n \in Nat, n >= 1, NEW Q \in (SUBSET Seqs) \ {{}},
           SeqPosMax(stream[StreamOf(s)], s) + n <= MaxPos, Coupled \/ \E x \in Seqs : Q = {x}
    PROVE  Run(s, n, Q) \in Seq(Batched) /\ Len(Run(s, n, Q)) = n
<1> DEFINE p == SeqPosMax(stream[StreamOf(s)], s)
           r == [j \in 1 .. n |-> [pos |-> p + j, seqs |-> Q]]
<1>1. StreamOf(s) \in Streams
  BY DEF StreamOf, Streams
<1>2. p \in Int /\ p >= -1
  BY <1>1, SeqPosMaxIs DEF All
<1>3. Run(s, n, Q) = r
  BY DEF Run
<1> HIDE DEF p
<1>4. \A j \in 1 .. n : [pos |-> p + j, seqs |-> Q] \in Batched
  <2> TAKE j \in 1 .. n
  <2>1. p + j \in Positions
    BY <1>2, SizesAre DEF Positions, p
  <2>2. [pos |-> p + j, seqs |-> Q] \in Token
    BY <2>1 DEF Token
  <2> QED BY <2>2 DEF Batched
<1>5. r \in [1 .. n -> Batched]
  BY <1>4
<1> HIDE DEF r
<1>6. r \in Seq(Batched) /\ Len(r) = n
  BY <1>5
<1> QED BY <1>3, <1>6

LEMMA JoinIs ==
    ASSUME NEW A, NEW s \in Seq(A), NEW t \in Seq(A)
    PROVE  s \o t \in Seq(A) /\ Len(s \o t) = Len(s) + Len(t)
OBVIOUS

\* The runs of several sequences in one.
LEMMA RunsAre ==
    ASSUME stream \in All, NEW n \in Nat, n >= 1, NEW Q \in (SUBSET Seqs) \ {{}},
           \A s \in Q : SeqPosMax(stream[StreamOf(s)], s) + n <= MaxPos,
           NEW q, q = [j \in 1 .. NumSeqs |-> j - 1]
    PROVE  EachRun(<<>>, Q, n, q) \in Seq(Batched) \ {<<>>}
<1> DEFINE b == <<>>
           V == Seq(Batched)
           H == {y \in (SUBSET (1 .. Len(q))) \X V : (\E x \in y[1] : q[x] \in Q) => Len(y[2]) >= 1}
<1>1. NumSeqs \in Nat /\ q \in Seq(Int) /\ Len(q) = NumSeqs /\ \A j \in 1 .. NumSeqs : q[j] = j - 1
  BY SizesAre
<1>2. \A T, v : <<T, v>> \in H <=> T \in SUBSET (1 .. Len(q)) /\ v \in V /\ ((\E x \in T : q[x] \in Q) => Len(v) >= 1)
  OBVIOUS
<1>3. H \subseteq (SUBSET (1 .. Len(q))) \X V
  OBVIOUS
<1> HIDE DEF H
<1>4. <<{}, b>> \in H
  <2>1. b \in V /\ {} \in SUBSET (1 .. Len(q))
    OBVIOUS
  <2> QED BY <1>2, <2>1
<1>5. ASSUME NEW T \in SUBSET (1 .. Len(q)), NEW x \in T, NEW v \in V, <<T \ {x}, v>> \in H
      PROVE  <<T, OneRun(v, q[x], Q, n)>> \in H
  <2> DEFINE w == OneRun(v, q[x], Q, n)
  <2>1. Len(v) \in Nat /\ ((\E y \in T \ {x} : q[y] \in Q) => Len(v) >= 1)
    BY <1>2, <1>5
  <2>2. ASSUME q[x] \in Q
        PROVE  w \in V /\ ((\E y \in T : q[y] \in Q) => Len(w) >= 1)
    <3> DEFINE r == Run(q[x], n, {q[x]})
    <3>1. q[x] \in Seqs /\ {q[x]} \in (SUBSET Seqs) \ {{}} /\ (\E y \in Seqs : {q[x]} = {y}) /\ SeqPosMax(stream[StreamOf(q[x])], q[x]) + n <= MaxPos
      BY <2>2
    <3>2. r \in Seq(Batched) /\ Len(r) = n
      BY <3>1, RunIs
    <3> HIDE DEF r
    <3>3. v \o r \in V /\ Len(v \o r) = Len(v) + Len(r)
      BY <3>2, JoinIs
    <3>4. w = v \o r
      BY <2>2 DEF OneRun, r
    <3> HIDE DEF w
    <3> QED BY <1>2, <2>1, <3>2, <3>3, <3>4
  <2>3. ASSUME q[x] \notin Q
        PROVE  w \in V /\ ((\E y \in T : q[y] \in Q) => Len(w) >= 1)
    <3>1. w = v
      BY <2>3 DEF OneRun
    <3>2. (\E y \in T : q[y] \in Q) => \E y \in T \ {x} : q[y] \in Q
      BY <2>3
    <3> HIDE DEF w
    <3> QED BY <2>1, <3>1, <3>2
  <2> HIDE DEF w
  <2>4. w \in V /\ ((\E y \in T : q[y] \in Q) => Len(w) >= 1)
    BY <2>2, <2>3
  <2>5. <<T, w>> \in H
    BY <1>2, <2>4
  <2> QED BY <2>5 DEF w
<1>6. RunsSteps(H, V, b, Q, n, q)
  BY <1>3, <1>4, <1>5 DEF RunsSteps
<1> HIDE DEF V
<1>7. <<1 .. Len(q), EachRun(b, Q, n, q)>> \in H
  BY <1>1, <1>6, RunsRule
<1>8. \E x \in 1 .. Len(q) : q[x] \in Q
  <2>1. PICK s \in Q : s \in Seqs
    OBVIOUS
  <2>2. s + 1 \in 1 .. NumSeqs /\ q[s + 1] = s
    BY <1>1, <2>1 DEF Seqs
  <2> QED BY <1>1, <2>2
<1> DEFINE r == EachRun(b, Q, n, q)
<1> HIDE DEF r
<1>11. <<1 .. Len(q), r>> \in H
  BY <1>7 DEF r
<1>9. r \in V /\ Len(r) >= 1
  BY <1>2, <1>8, <1>11, ZenonT(60)
<1>10. r \in Seq(Batched) /\ r # <<>>
  BY <1>9 DEF V
<1> QED BY <1>10 DEF r, b

\* The pieces of a run are not empty.
LEMMA Pieces ==
    ASSUME NEW len \in Nat, len >= 1, NEW size \in Nat, size >= 1
    PROVE  /\ (len + size - 1) \div size \in Nat /\ (len + size - 1) \div size >= 1
           /\ \A j \in 1 .. (len + size - 1) \div size :
                /\ (j - 1) * size \in Nat /\ (j - 1) * size + 1 <= len
                /\ j * size = (j - 1) * size + size
<1> DEFINE a == len + size - 1
           d == a \div size
           m == a % size
<1>1. d \in Int /\ m \in Int /\ 0 <= m /\ m < size /\ a = size * d + m /\ a \in Nat /\ a >= size
  BY SMTT(30)
<1> HIDE DEF d, m
<1>2. d >= 1
  <2>1. CASE d <= 0
    <3>1. size * d <= 0
      BY <1>1, <2>1, SMTT(30)
    <3> QED BY <1>1, <3>1
  <2> QED BY <1>1, <2>1
<1>3. ASSUME NEW j \in 1 .. d
      PROVE  (j - 1) * size \in Nat /\ (j - 1) * size + 1 <= len /\ j * size = (j - 1) * size + size
  <2>1. j \in Int /\ 1 <= j /\ j <= d
    BY <1>1
  <2>2. j * size = (j - 1) * size + size /\ (j - 1) * size \in Int
    BY <2>1, SMTT(30)
  <2>3. (j - 1) * size >= 0
    BY <2>1, SMTT(30)
  <2>4. j * size <= size * d
    BY <1>1, <2>1, SMTT(30)
  <2>5. size * d <= len + size - 1 /\ size * d \in Int /\ j * size \in Int
    BY <1>1, <2>1 DEF a
  <2> QED BY <2>2, <2>3, <2>4, <2>5
<1> QED BY <1>1, <1>2, <1>3 DEF d

\* A batch is cut into ubatches.
LEMMA SplitIs ==
    ASSUME NEW K \in (SUBSET Streams) \ {{}}, NEW runs \in [K -> Seq(Batched)], NEW len \in Nat, len >= 1,
           \A k \in K : Len(runs[k]) = len, NEW size \in Nat, size >= 1
    PROVE  Split(runs, size) \in Seq(Ubatches) /\ Len(Split(runs, size)) >= 1
<1> DEFINE d == (len + size - 1) \div size
           piece(j, k) == SubSeq(runs[k], (j - 1) * size + 1, Min({j * size, len}))
           r == [j \in 1 .. d |-> [k \in K |-> piece(j, k)]]
<1>1. DOMAIN runs = K /\ {Len(runs[k]) : k \in DOMAIN runs} = {len}
  OBVIOUS
<1>2. Max({len}) = len
  BY DEF Max
<1>3. Split(runs, size) = r
  BY <1>1, <1>2 DEF Split
<1>4. /\ d \in Nat /\ d >= 1
      /\ \A j \in 1 .. d : (j - 1) * size \in Nat /\ (j - 1) * size + 1 <= len /\ j * size = (j - 1) * size + size
  BY Pieces
<1> HIDE DEF d
<1>5. ASSUME NEW j \in 1 .. d, NEW k \in K
      PROVE  piece(j, k) \in Seq(Batched) \ {<<>>}
  <2> DEFINE a == (j - 1) * size
             e == j * size
             z == Min({e, len})
  <2>1. a \in Nat /\ a + 1 <= len /\ e = a + size
    BY <1>4
  <2> HIDE DEF a
  <2>2. e \in Int
    BY <2>1
  <2> HIDE DEF e
  <2>3. z = IF e <= len THEN e ELSE len
    BY <2>2, MinOfTwo
  <2> HIDE DEF z
  <2>4. z \in Int /\ z <= len /\ z >= a + 1 /\ runs[k] \in Seq(Batched) /\ Len(runs[k]) = len /\ a + 1 \in Nat /\ a + 1 >= 1
    BY <2>1, <2>2, <2>3
  <2>5. SubSeq(runs[k], a + 1, z) \in Seq(Batched) /\ Len(SubSeq(runs[k], a + 1, z)) = z - (a + 1) + 1
    BY <2>4, PartOf
  <2> DEFINE y == SubSeq(runs[k], a + 1, z)
  <2> HIDE DEF y
  <2>6. y \in Seq(Batched) /\ Len(y) >= 1
    BY <2>1, <2>4, <2>5 DEF y
  <2>7. y # <<>>
    BY <2>6
  <2> QED BY <2>6, <2>7 DEF a, z, e, y
<1> HIDE DEF piece
<1>6. \A j \in 1 .. d : [k \in K |-> piece(j, k)] \in Ubatches
  <2> TAKE j \in 1 .. d
  <2>1. [k \in K |-> piece(j, k)] \in [K -> Seq(Batched) \ {<<>>}]
    BY <1>5
  <2> QED BY <2>1 DEF Ubatches
<1>7. r \in [1 .. d -> Ubatches]
  BY <1>6
<1> HIDE DEF r
<1>8. r \in Seq(Ubatches) /\ Len(r) = d
  BY <1>4, <1>7
<1> QED BY <1>3, <1>4, <1>8

\* decode starts with ubatches to place.
LEMMA DecodeCuts ==
    ASSUME stream \in All, NEW Q \in (SUBSET Seqs) \ {{}}, NEW n \in 1 .. MaxTokens, NEW shared \in BOOLEAN,
           NEW shifted, Decode(Q, n, shared, shifted)
    PROVE  ubatches' \in Seq(Ubatches) /\ ubatches' # <<>>
<1> DEFINE q     == [j \in 1 .. NumSeqs |-> j - 1]
           apart == EachRun(<<>>, Q, n, q)
           all   == IF shared THEN Run(Min(Q), n, Q) ELSE apart
           size  == Max({1, NumUbatch \div Cardinality(Q)})
           runs  == [s \in Q |-> Run(s, n, {s})]
<1>1. /\ \A s \in Q : SeqPosMax(stream[StreamOf(s)], s) + n <= MaxPos
      /\ ubatches' = IF Unified THEN Split([k \in {0} |-> all], NumUbatch) ELSE Split(runs, size)
  BY DEF Decode, EachRun, OneRun
<1>2. n \in Nat /\ n >= 1 /\ NumUbatch \in Nat /\ NumUbatch >= 1
  BY SizesAre
<1>3. apart \in Seq(Batched) \ {<<>>}
  BY <1>1, <1>2, RunsAre
<1>4. shared => Run(Min(Q), n, Q) \in Seq(Batched) \ {<<>>}
  <2>0. shared => Coupled
    BY DEF Decode
  <2>1. Min(Q) \in Q
    <3>1. Q \in SUBSET Nat /\ Q # {}
      BY SizesAre DEF Seqs
    <3> QED BY <3>1, MinIs
  <2> DEFINE s == Min(Q)
             r == Run(s, n, Q)
  <2> HIDE DEF s
  <2>2. s \in Seqs /\ SeqPosMax(stream[StreamOf(s)], s) + n <= MaxPos
    BY <1>1, <2>1 DEF s
  <2>3. Coupled => r \in Seq(Batched) /\ Len(r) = n
    BY <1>2, <2>2, RunIs
  <2> HIDE DEF r
  <2>4. Coupled => r # <<>>
    BY <1>2, <2>3
  <2> QED BY <2>0, <2>3, <2>4 DEF r, s
<1> HIDE DEF apart
<1>5. all \in Seq(Batched) \ {<<>>}
  BY <1>3, <1>4
<1> HIDE DEF all
<1>6. CASE Unified
  <2> DEFINE one == [k \in {0} |-> all]
  <2>1. {0} \in (SUBSET Streams) \ {{}} /\ one \in [{0} -> Seq(Batched)] /\ \A k \in {0} : Len(one[k]) = Len(all)
    BY <1>5, <1>6 DEF Streams
  <2>2. Len(all) \in Nat /\ Len(all) >= 1
    BY <1>5
  <2>3. ubatches' = Split(one, NumUbatch)
    BY <1>1, <1>6
  <2> HIDE DEF one
  <2>4. Split(one, NumUbatch) \in Seq(Ubatches) /\ Len(Split(one, NumUbatch)) >= 1
    BY <1>2, <2>1, <2>2, SplitIs
  <2>5. ubatches' \in Seq(Ubatches) /\ Len(ubatches') >= 1
    BY <2>3, <2>4
  <2> QED BY <2>5
<1>7. CASE ~Unified
  <2>1. Q \in (SUBSET Streams) \ {{}}
    BY <1>7 DEF Streams
  <2>2. \A s \in Q : runs[s] \in Seq(Batched) /\ Len(runs[s]) = n
    <3> TAKE s \in Q
    <3>1. s \in Seqs /\ {s} \in (SUBSET Seqs) \ {{}} /\ (\E x \in Seqs : {s} = {x}) /\ SeqPosMax(stream[StreamOf(s)], s) + n <= MaxPos
      BY <1>1
    <3>2. Run(s, n, {s}) \in Seq(Batched) /\ Len(Run(s, n, {s})) = n
      BY <1>2, <3>1, RunIs
    <3> QED BY <3>2
  <2>3. runs \in [Q -> Seq(Batched)]
    <3>1. runs = [s \in Q |-> runs[s]]
      OBVIOUS
    <3> HIDE DEF runs
    <3> QED BY <2>2, <3>1
  <2>4. size \in Nat /\ size >= 1
    <3>1. Cardinality(Q) \in Nat /\ Cardinality(Q) >= 1
      <4>1. IsFiniteSet(Q)
        BY SubsetsFinite
      <4>2. Cardinality(Q) \in Nat /\ Cardinality(Q) # 0
        BY <4>1, FS_CardinalityType, FS_EmptySet
      <4> QED BY <4>2
    <3> DEFINE c == Cardinality(Q)
               x == NumUbatch \div c
    <3>2. x \in Int
      <4> HIDE DEF c
      <4> QED BY <1>2, <3>1, SMTT(30) DEF c
    <3> HIDE DEF x
    <3>3. Max({1, x}) = IF 1 >= x THEN 1 ELSE x
      BY <3>2, MaxOfTwo
    <3>4. size = Max({1, x})
      BY DEF x
    <3> HIDE DEF size
    <3> QED BY <3>2, <3>3, <3>4
  <2> HIDE DEF runs, size
  <2>5. Split(runs, size) \in Seq(Ubatches) /\ Len(Split(runs, size)) >= 1
    BY <1>2, <2>1, <2>2, <2>3, <2>4, SplitIs
  <2>6. ubatches' \in Seq(Ubatches) /\ Len(ubatches') >= 1
    BY <1>1, <1>7, <2>5
  <2> QED BY <2>6
<1> QED BY <1>6, <1>7
-----------------------------------------------------------------------------
(* The steps keep the invariant.                                           *)

KInv ==
    /\ stream \in All /\ rope \in Ropes /\ copies \in Seq(Streams \X Streams)
    /\ pc \in {"idle", "prepare", "retry", "apply"}
    /\ ubatches \in Seq(Ubatches) /\ sinfos \in Seq(Sinfos)
    /\ pc # "idle" => ubatches # <<>>
    /\ pc = "apply" => /\ Len(sinfos) = Len(ubatches)
                       /\ \A j \in 1 .. Len(ubatches) : Fits(sinfos[j], ubatches[j])

LEMMA InitKInv == Init => KInv
<1> SUFFICES ASSUME Init PROVE KInv
  OBVIOUS
<1>1. stream \in All
  BY EmptyStreamIs DEF Init, All
<1>2. rope \in Ropes
  BY DEF Init, Ropes
<1>3. copies = <<>> /\ pc = "idle" /\ ubatches = <<>> /\ sinfos = <<>>
  BY DEF Init
<1>4. <<>> \in Seq(Streams \X Streams) /\ <<>> \in Seq(Ubatches) /\ <<>> \in Seq(Sinfos)
  OBVIOUS
<1> QED BY <1>1, <1>2, <1>3, <1>4 DEF KInv

\* A caller's operation on one stream.
LEMMA SetIs ==
    ASSUME KInv, NEW k \in Streams, NEW st \in Good, Set(k, st)
    PROVE  pc = "idle" /\ stream' \in All
<1>1. stream' = [stream EXCEPT ![k] = st] /\ pc = "idle"
  BY DEF Set
<1> QED BY <1>1 DEF KInv, All

LEMMA IdleStays ==
    ASSUME KInv, pc = "idle", stream' \in All, Only
    PROVE  KInv'
<1>1. rope' = rope /\ copies' = copies /\ pc' = pc /\ ubatches' = ubatches /\ sinfos' = sinfos
  BY DEF Only
<1> QED BY <1>1 DEF KInv

LEMMA StreamOfIs == \A s \in Seqs : StreamOf(s) \in Streams
BY DEF StreamOf, Streams

LEMMA ClearKInv == KInv /\ Clear => KInv'
<1> SUFFICES ASSUME KInv, Clear PROVE KInv'
  OBVIOUS
<1>1. pc = "idle" /\ stream' = [k \in Streams |-> EmptyStream] /\ Only
  BY DEF Clear
<1>2. stream' \in All
  BY <1>1, EmptyStreamIs DEF All
<1> QED BY <1>1, <1>2, IdleStays

LEMMA RemoveSeqKInv == ASSUME KInv, NEW s \in Seqs, NEW r, RemoveSeq(s, r) PROVE KInv'
<1> DEFINE k == StreamOf(s)
           st == SeqRm(stream[k], s, r[1], r[2])
<1>1. k \in Streams /\ stream[k] \in Good
  BY StreamOfIs DEF KInv, All
<1>2. Set(k, st) /\ Only
  BY DEF RemoveSeq
<1>3. st \in Good
  BY <1>1, SeqRmIs DEF Lessened
<1> HIDE DEF k, st
<1> QED BY <1>1, <1>2, <1>3, SetIs, IdleStays

LEMMA RemoveAnyKInv == ASSUME KInv, NEW r, RemoveAny(r) PROVE KInv'
<1>1. pc = "idle" /\ stream' = [k \in Streams |-> RmAny(stream[k], r[1], r[2])] /\ Only
  BY DEF RemoveAny
<1>2. \A k \in Streams : RmAny(stream[k], r[1], r[2]) \in Good
  <2> TAKE k \in Streams
  <2>1. stream[k] \in Good
    BY DEF KInv, All
  <2> QED BY <2>1, RmAnyIs DEF Becomes
<1>3. stream' \in All
  BY <1>1, <1>2 DEF All
<1> QED BY <1>1, <1>3, IdleStays

LEMMA KeepKInv == ASSUME KInv, NEW s \in Seqs, Keep(s) PROVE KInv'
<1> DEFINE k == StreamOf(s)
           st == SeqKeep(stream[k], s)
<1>1. k \in Streams /\ stream[k] \in Good
  BY StreamOfIs DEF KInv, All
<1>2. Set(k, st) /\ Only
  BY DEF Keep
<1>3. st \in Good
  BY <1>1, SeqKeepIs DEF Becomes
<1> HIDE DEF k, st
<1> QED BY <1>1, <1>2, <1>3, SetIs, IdleStays

LEMMA CopyKInv == ASSUME KInv, NEW s \in Seqs, NEW d \in Seqs, NEW r, Copy(s, d, r) PROVE KInv'
<1>1. CASE Unified
  <2> DEFINE st == SeqCp(stream[0], s, d, r[1], r[2])
  <2>1. SeqPosMax(stream[0], d) = -1 /\ Set(0, st) /\ Only
    BY <1>1 DEF Copy
  <2>2. 0 \in Streams /\ stream[0] \in Good
    BY <1>1 DEF Streams, KInv, All
  <2>3. \A i \in Cells : d \notin stream[0].cell[i].seqs
    BY <2>1, <2>2, SeqPosMaxIs
  <2>4. st \in Good
    BY <2>2, <2>3, SeqCpIs DEF Becomes
  <2> HIDE DEF st
  <2> QED BY <2>1, <2>2, <2>4, SetIs, IdleStays
<1>2. CASE ~Unified
  <2> DEFINE k == StreamOf(d)
             st == CopyStream(stream[StreamOf(s)], s, d)
             e == <<StreamOf(s), StreamOf(d)>>
  <2>1. Set(k, st) /\ copies' = Append(copies, e) /\ UNCHANGED <<rope, pc, ubatches, sinfos>>
    BY <1>2 DEF Copy
  <2>2. k \in Streams /\ StreamOf(s) \in Streams /\ stream[StreamOf(s)] \in Good /\ e \in Streams \X Streams
    BY StreamOfIs DEF KInv, All
  <2>3. st \in Good
    BY <2>2, CopyStreamIs DEF Becomes
  <2> HIDE DEF k, st, e
  <2>4. pc = "idle" /\ stream' \in All
    BY <2>1, <2>2, <2>3, SetIs
  <2>5. copies' \in Seq(Streams \X Streams)
    BY <2>1, <2>2 DEF KInv
  <2> QED BY <2>1, <2>4, <2>5 DEF KInv
<1> QED BY <1>1, <1>2

LEMMA AddKInv == ASSUME KInv, NEW s \in Seqs, NEW r, NEW delta \in Deltas, Add(s, r, delta) PROVE KInv'
<1> DEFINE k == StreamOf(s)
           st == SeqAdd(stream[k], s, r[1], r[2], delta)
<1>1. k \in Streams /\ stream[k] \in Good
  BY StreamOfIs DEF KInv, All
<1>2. Set(k, st) /\ Only /\ \A i \in WithSeq(stream[k], s, r[1], r[2]) : stream[k].cell[i].pos + delta <= MaxPos
  BY DEF Add
<1>3. delta \in Int
  BY SizesAssumption
<1>4. st \in Good
  BY <1>1, <1>2, <1>3, SeqAddIs DEF Becomes
<1> HIDE DEF k, st
<1> QED BY <1>1, <1>2, <1>4, SetIs, IdleStays

LEMMA DivKInv == ASSUME KInv, NEW s \in Seqs, NEW r, NEW d \in Divisors, Div(s, r, d) PROVE KInv'
<1> DEFINE k == StreamOf(s)
           st == SeqDiv(stream[k], s, r[1], r[2], d)
<1>1. k \in Streams /\ stream[k] \in Good
  BY StreamOfIs DEF KInv, All
<1>2. Set(k, st) /\ Only
  BY DEF Div
<1>3. d \in Nat /\ d >= 1
  BY SizesAssumption
<1>4. st \in Good
  BY <1>1, <1>3, SeqDivIs DEF Becomes
<1> HIDE DEF k, st
<1> QED BY <1>1, <1>2, <1>4, SetIs, IdleStays

LEMMA DecodeKInv ==
    ASSUME KInv, NEW Q \in (SUBSET Seqs) \ {{}}, NEW n \in 1 .. MaxTokens, NEW shared \in BOOLEAN, NEW shifted,
           Decode(Q, n, shared, shifted)
    PROVE  KInv'
<1>1. pc' = "prepare" /\ Shift(Copied(rope), stream, shifted) /\ copies' = <<>> /\ sinfos' = sinfos
  BY DEF Decode
<1>2. ubatches' \in Seq(Ubatches) /\ ubatches' # <<>>
  BY DecodeCuts DEF KInv
<1>3. Copied(rope) \in Ropes
  BY CopiedIs DEF KInv
<1>4. stream' \in All /\ rope' \in Ropes
  BY <1>1, <1>3, ShiftIs DEF KInv
<1>5. copies' \in Seq(Streams \X Streams)
  BY <1>1
<1> QED BY <1>1, <1>2, <1>4, <1>5 DEF KInv

LEMMA PrepareKInv == KInv /\ Prepare => KInv'
<1> SUFFICES ASSUME KInv, Prepare PROVE KInv'
  OBVIOUS
<1> DEFINE acc == Placed(stream)
<1>1. /\ acc.ok /\ stream' = Restored(acc) /\ sinfos' = [j \in DOMAIN ubatches |-> acc.states[j].sinfo]
      /\ pc' = "apply" /\ rope' = rope /\ copies' = copies /\ ubatches' = ubatches /\ pc \in {"prepare", "retry"}
  BY DEF Prepare
<1>2. stream \in All /\ ubatches \in Seq(Ubatches) /\ ubatches # <<>>
  BY <1>1 DEF KInv
<1>3. acc \in Acc /\ AreFit(acc) /\ Settled(acc.now, acc.states)
  BY <1>2, PlacedFit
<1> HIDE DEF acc
<1>4. stream' \in All
  BY <1>1, <1>3, RestoredIs DEF Quieter
<1>5. DOMAIN ubatches = 1 .. Len(ubatches) /\ Len(acc.states) = Len(ubatches) /\ Len(ubatches) \in Nat
  BY <1>1, <1>2, <1>3 DEF AreFit
<1>6. \A j \in 1 .. Len(ubatches) : sinfos'[j] \in Sinfos /\ Fits(sinfos'[j], ubatches[j])
  <2> TAKE j \in 1 .. Len(ubatches)
  <2>1. Fits(acc.states[j].sinfo, ubatches[j])
    BY <1>3, <1>5 DEF AreFit
  <2>2. sinfos'[j] = acc.states[j].sinfo
    BY <1>1, <1>5
  <2> QED BY <2>1, <2>2 DEF Fits
<1>7. sinfos' \in Seq(Sinfos) /\ Len(sinfos') = Len(ubatches)
  <2>1. sinfos' = [j \in 1 .. Len(ubatches) |-> sinfos'[j]]
    BY <1>1, <1>5
  <2>2. sinfos' \in [1 .. Len(ubatches) -> Sinfos]
    BY <1>6, <2>1
  <2> QED BY <1>5, <2>2
<1> QED BY <1>1, <1>2, <1>4, <1>6, <1>7 DEF KInv

LEMMA PrepareFailsKInv == ASSUME KInv, NEW shifted, PrepareFails(shifted) PROVE KInv'
<1> DEFINE acc == Placed(stream)
           all == Restored(acc)
           b   == shifted /\ pc = "prepare"
<1>1. /\ Shift(rope, all, b) /\ copies' = copies /\ sinfos' = sinfos /\ pc \in {"prepare", "retry"}
      /\ \/ pc' = "retry" /\ ubatches' = ubatches
         \/ pc' = "idle" /\ ubatches' = <<>>
  BY DEF PrepareFails
<1>2. stream \in All /\ ubatches \in Seq(Ubatches) /\ ubatches # <<>> /\ rope \in Ropes
  BY <1>1 DEF KInv
<1>3. acc \in Acc /\ Settled(acc.now, acc.states)
  BY <1>2, PlacedFit
<1> HIDE DEF acc
<1>4. all \in All
  BY <1>3, RestoredIs DEF Quieter
<1> HIDE DEF all, b
<1>5. stream' \in All /\ rope' \in Ropes
  BY <1>1, <1>2, <1>4, ShiftIs
<1>6. <<>> \in Seq(Ubatches)
  OBVIOUS
<1> QED BY <1>1, <1>5, <1>6 DEF KInv

\* The next ubatch to place, and its cells.
LEMMA HeadIs ==
    ASSUME KInv, pc = "apply"
    PROVE  /\ Ubatch \in Ubatches /\ Sinfo \in Sinfos /\ Fits(Sinfo, Ubatch)
           /\ Len(ubatches) \in Nat /\ Len(ubatches) >= 1 /\ Len(sinfos) = Len(ubatches)
           /\ Ubatch = ubatches[1] /\ Sinfo = sinfos[1]
<1>1. ubatches \in Seq(Ubatches) /\ sinfos \in Seq(Sinfos) /\ ubatches # <<>> /\ Len(sinfos) = Len(ubatches)
  BY DEF KInv
<1>2. Len(ubatches) \in Nat /\ Len(ubatches) >= 1
  BY <1>1
<1>3. Ubatch = ubatches[1] /\ Sinfo = sinfos[1]
  BY <1>1 DEF Ubatch, Sinfo
<1>4. Fits(Sinfo, Ubatch)
  BY <1>2, <1>3 DEF KInv
<1> QED BY <1>1, <1>2, <1>3, <1>4

LEMMA TailIs ==
    ASSUME NEW A, NEW s \in Seq(A), Len(s) >= 1
    PROVE  Tail(s) \in Seq(A) /\ Len(Tail(s)) = Len(s) - 1 /\ \A j \in 1 .. Len(s) - 1 : Tail(s)[j] = s[j + 1]
OBVIOUS

\* The keys that are written: of the cells of the slot, for the positions of their tokens.
Index(q, i) == SelectInSeq(q, LAMBDA c : c = i)

LEMMA IndexIs ==
    ASSUME NEW A, NEW q \in Seq(A), NEW i
    PROVE  /\ Index(q, i) \in 0 .. Len(q)
           /\ Index(q, i) # 0 => q[Index(q, i)] = i
           /\ Index(q, i) = 0 => \A j \in 1 .. Len(q) : q[j] # i
<1> DEFINE I == {j \in 1 .. Len(q) : q[j] = i}
<1>1. Index(q, i) = IF I # {} THEN Min(I) ELSE 0
  BY DEF Index, SelectInSeq
<1>2. I \in SUBSET Nat
  OBVIOUS
<1>3. CASE I # {}
  <2>1. Min(I) \in I
    BY <1>2, <1>3, MinIs
  <2> QED BY <1>1, <1>3, <2>1
<1>4. CASE I = {}
  BY <1>1, <1>4
<1> QED BY <1>3, <1>4

LEMMA WrittenIs ==
    ASSUME KInv, pc = "apply"
    PROVE  /\ Written \in Ropes
           /\ \A k \in Streams, i \in Cells :
                 IF k \in DOMAIN Ubatch /\ Index(Sinfo[k], i) # 0
                 THEN Written[k][i] = Ubatch[k][Index(Sinfo[k], i)].pos
                 ELSE Written[k][i] = rope[k][i]
<1> DEFINE w(k, i) == IF Index(Sinfo[k], i) = 0 THEN rope[k][i] ELSE Ubatch[k][Index(Sinfo[k], i)].pos
           f(k) == IF k \notin DOMAIN Ubatch THEN rope[k] ELSE [i \in Cells |-> w(k, i)]
<1>1. Written = [k \in Streams |-> f(k)]
  BY DEF Written, Index
<1>2. rope \in [Streams -> [Cells -> Int]] /\ Fits(Sinfo, Ubatch)
  BY HeadIs DEF KInv, Ropes
<1>3. ASSUME NEW k \in DOMAIN Ubatch, NEW i \in Cells, k \in Streams
      PROVE  w(k, i) \in Int
  <2>1. /\ Sinfo[k] \in Seq(Cells) /\ Ubatch[k] \in Seq(Token) /\ Len(Sinfo[k]) = Len(Ubatch[k]) /\ rope[k][i] \in Int
    BY <1>2, <1>3 DEF Fits, Suits
  <2>2. Index(Sinfo[k], i) \in 0 .. Len(Ubatch[k])
    BY <2>1, IndexIs
  <2>3. Index(Sinfo[k], i) # 0 => Ubatch[k][Index(Sinfo[k], i)] \in Token
    BY <2>1, <2>2
  <2>4. \A t \in Token : t.pos \in Int
    BY SizesAre DEF Token, Positions
  <2> QED BY <2>1, <2>3, <2>4
<1> HIDE DEF w
<1>4. \A k \in Streams : f(k) \in [Cells -> Int]
  BY <1>2, <1>3
<1>5. Written \in Ropes
  BY <1>1, <1>4 DEF Ropes
<1>6. \A k \in Streams, i \in Cells : Written[k][i] = IF k \notin DOMAIN Ubatch THEN rope[k][i] ELSE w(k, i)
  BY <1>1
<1> QED BY <1>5, <1>6 DEF w

LEMMA ProcessKInv == KInv /\ Process => KInv'
<1> SUFFICES ASSUME KInv, Process PROVE KInv'
  OBVIOUS
<1>1. /\ pc = "apply" /\ stream' = Apply(stream, Sinfo, Ubatch) /\ rope' = Written /\ copies' = copies
      /\ ubatches' = Tail(ubatches) /\ sinfos' = Tail(sinfos)
      /\ pc' = IF Len(ubatches) = 1 THEN "idle" ELSE "apply"
  BY DEF Process
<1>2. /\ Ubatch \in Ubatches /\ Fits(Sinfo, Ubatch) /\ Len(ubatches) \in Nat /\ Len(ubatches) >= 1
      /\ Len(sinfos) = Len(ubatches)
  BY <1>1, HeadIs
<1>3. stream' \in All
  <2>1. stream \in All
    BY DEF KInv
  <2> QED BY <1>1, <1>2, <2>1, ApplyIs DEF Applied
<1>4. rope' \in Ropes
  BY <1>1, WrittenIs
<1>5. /\ ubatches' \in Seq(Ubatches) /\ Len(ubatches') = Len(ubatches) - 1
      /\ \A j \in 1 .. Len(ubatches) - 1 : ubatches'[j] = ubatches[j + 1]
  BY <1>1, <1>2, TailIs DEF KInv
<1>6. /\ sinfos' \in Seq(Sinfos) /\ Len(sinfos') = Len(ubatches) - 1
      /\ \A j \in 1 .. Len(ubatches) - 1 : sinfos'[j] = sinfos[j + 1]
  <2>1. sinfos \in Seq(Sinfos) /\ Len(sinfos) >= 1
    BY <1>2 DEF KInv
  <2> QED BY <1>1, <1>2, <2>1, TailIs
<1>7. \A j \in 1 .. Len(ubatches') : Fits(sinfos'[j], ubatches'[j])
  <2> TAKE j \in 1 .. Len(ubatches')
  <2>1. j \in 1 .. Len(ubatches) - 1 /\ j + 1 \in 1 .. Len(ubatches)
    BY <1>2, <1>5
  <2>2. Fits(sinfos[j + 1], ubatches[j + 1])
    BY <1>1, <2>1 DEF KInv
  <2> QED BY <1>5, <1>6, <2>1, <2>2
<1>8. pc' # "idle" => ubatches' # <<>>
  <2>1. Len(ubatches) # 1 => Len(ubatches') >= 1
    BY <1>2, <1>5
  <2>2. Len(<<>>) = 0
    OBVIOUS
  <2>3. Len(ubatches) # 1 => ubatches' # <<>>
    BY <2>1, <2>2
  <2> QED BY <1>1, <2>3
<1> QED BY <1>1, <1>3, <1>4, <1>5, <1>6, <1>7, <1>8 DEF KInv

LEMMA ProcessFailsKInv == KInv /\ ProcessFails => KInv'
<1> SUFFICES ASSUME KInv, ProcessFails PROVE KInv'
  OBVIOUS
<1> DEFINE all == Apply(stream, Sinfo, Ubatch)
<1>1. /\ pc = "apply" /\ (rope' = rope \/ rope' = Written) /\ copies' = copies
      /\ stream' = [k \in Streams |-> IF k \in DOMAIN Ubatch THEN RemoveFrom(all[k], Ubatch[k]) ELSE all[k]]
      /\ ubatches' = <<>> /\ sinfos' = <<>> /\ pc' = "idle"
  BY DEF ProcessFails
<1>2. Ubatch \in Ubatches /\ Fits(Sinfo, Ubatch)
  BY <1>1, HeadIs
<1>3. all \in All
  <2>1. stream \in All
    BY DEF KInv
  <2> QED BY <1>2, <2>1, ApplyIs DEF Applied
<1> HIDE DEF all
<1>4. stream' \in All
  <2>1. ASSUME NEW k \in Streams
        PROVE  all[k] \in Good /\ (k \in DOMAIN Ubatch => RemoveFrom(all[k], Ubatch[k]) \in Good)
    <3>1. all[k] \in Good
      BY <1>3 DEF All
    <3>2. k \in DOMAIN Ubatch => Ubatch[k] \in Seq(Token)
      BY <1>2, UbatchIs
    <3> QED BY <3>1, <3>2, RemoveFromIs DEF RemovedFrom, Thinner
  <2> QED BY <1>1, <2>1 DEF All
<1>5. rope' \in Ropes
  BY <1>1, WrittenIs DEF KInv
<1>6. <<>> \in Seq(Ubatches) /\ <<>> \in Seq(Sinfos)
  OBVIOUS
<1> QED BY <1>1, <1>4, <1>5, <1>6 DEF KInv

LEMMA NextKInv == KInv /\ [Next]_vars => KInv'
<1> SUFFICES ASSUME KInv, [Next]_vars PROVE KInv'
  OBVIOUS
<1>1. CASE UNCHANGED vars
  BY <1>1 DEF vars, KInv
<1>2. CASE Clear
  BY <1>2, ClearKInv
<1>3. ASSUME NEW r \in Ranges, RemoveAny(r) PROVE KInv'
  BY <1>3, RemoveAnyKInv
<1>4. ASSUME NEW r \in Ranges, NEW s \in Seqs, RemoveSeq(s, r) PROVE KInv'
  BY <1>4, RemoveSeqKInv
<1>5. ASSUME NEW r \in Ranges, NEW s \in Seqs, NEW d \in Seqs, Copy(s, d, r) PROVE KInv'
  BY <1>5, CopyKInv
<1>6. ASSUME NEW r \in Ranges, NEW s \in Seqs, NEW delta \in Deltas, Add(s, r, delta) PROVE KInv'
  BY <1>6, AddKInv
<1>7. ASSUME NEW r \in Ranges, NEW s \in Seqs, NEW d \in Divisors, Div(s, r, d) PROVE KInv'
  BY <1>7, DivKInv
<1>8. ASSUME NEW s \in Seqs, Keep(s) PROVE KInv'
  BY <1>8, KeepKInv
<1>9. ASSUME NEW Q \in (SUBSET Seqs) \ {{}}, NEW n \in 1 .. MaxTokens, NEW shared \in BOOLEAN,
             NEW shifted \in BOOLEAN, Decode(Q, n, shared, shifted)
      PROVE  KInv'
  BY <1>9, DecodeKInv
<1>10. CASE Prepare
  BY <1>10, PrepareKInv
<1>11. ASSUME NEW shifted \in BOOLEAN, PrepareFails(shifted) PROVE KInv'
  BY <1>11, PrepareFailsKInv
<1>12. CASE Process
  BY <1>12, ProcessKInv
<1>13. CASE ProcessFails
  BY <1>13, ProcessFailsKInv
<1> QED BY <1>1, <1>2, <1>3, <1>4, <1>5, <1>6, <1>7, <1>8, <1>9, <1>10, <1>11, <1>12, <1>13 DEF Next

\* The cells and what is kept beside them stay in agreement, and decode goes on only
\* with ubatches that have cells of their own.
THEOREM SpecKInv == Spec => []KInv
<1>1. Init => KInv
  BY InitKInv
<1>2. KInv /\ [Next]_vars => KInv'
  BY NextKInv
<1> QED BY <1>1, <1>2, PTL DEF Spec

\* Every variable keeps its type.
THEOREM SpecKvTypeOK == Spec => []TypeOK
<1>1. KInv => TypeOK
  <2> SUFFICES ASSUME KInv PROVE TypeOK
    OBVIOUS
  <2>1. stream \in [Streams -> [cell : [Cells -> Cell], used : SUBSET Cells, has_shift : BOOLEAN,
                                seq_pos : [Seqs -> [Positions -> Nat]], head : 0 .. NumCells]]
    <3>1. Good \subseteq StreamType
      BY DEF Good
    <3>2. stream \in [Streams -> StreamType]
      BY <3>1 DEF KInv, All
    <3> QED BY <3>2 DEF StreamType
  <2>2. \A j \in DOMAIN ubatches : \A k \in DOMAIN ubatches[j] : k \in Streams /\ ubatches[j][k] \in Seq(Token)
    <3>1. \A j \in DOMAIN ubatches : ubatches[j] \in Ubatches
      BY DEF KInv
    <3> QED BY <3>1, UbatchIs
  <2>3. \A j \in DOMAIN sinfos : \A k \in DOMAIN sinfos[j] : k \in Streams /\ sinfos[j][k] \in Seq(Cells)
    <3>1. \A j \in DOMAIN sinfos : sinfos[j] \in Sinfos
      BY DEF KInv
    <3> QED BY <3>1 DEF Sinfos
  <2> QED BY <2>1, <2>2, <2>3 DEF KInv, TypeOK, Ropes
<1> QED BY <1>1, SpecKInv, PTL

\* The used cells, the counts of the positions and the shifts are those of the cells,
\* whatever callers do (llama-kv-cells.h:461-499).
THEOREM SpecIndexMatches == Spec => []IndexMatches
<1>1. KInv => IndexMatches
  <2> SUFFICES ASSUME KInv, NEW k \in Streams
               PROVE  LET st == stream[k] IN
                        /\ st.used = {i \in Cells : ~IsEmpty(st, i)}
                        /\ \A s \in Seqs, p \in Positions :
                              st.seq_pos[s][p] = Cardinality({i \in Cells : s \in st.cell[i].seqs /\ st.cell[i].pos = p})
                        /\ \A i \in Cells : /\ IsEmpty(st, i) <=> st.cell[i].seqs = {}
                                            /\ IsEmpty(st, i) \/ ~st.has_shift => st.cell[i].shift = 0
    BY DEF IndexMatches
  <2> DEFINE st == stream[k]
  <2>1. st \in Good
    BY DEF KInv, All
  <2> HIDE DEF st
  <2>2. st.used = {i \in Cells : ~IsEmpty(st, i)}
    BY <2>1, GoodCells DEF IsEmpty
  <2>3. \A s \in Seqs, p \in Positions :
           st.seq_pos[s][p] = Cardinality({i \in Cells : s \in st.cell[i].seqs /\ st.cell[i].pos = p})
    BY <2>1, GoodCells DEF Fit, At
  <2>4. \A i \in Cells : /\ IsEmpty(st, i) <=> st.cell[i].seqs = {}
                         /\ IsEmpty(st, i) \/ ~st.has_shift => st.cell[i].shift = 0
    BY <2>1, GoodCells, EmptyIs DEF IsEmpty
  <2> QED BY <2>2, <2>3, <2>4 DEF st
<1> QED BY <1>1, SpecKInv, PTL
-----------------------------------------------------------------------------
(* A ubatch that failed.                                                   *)

LEMMA FailureRemovesIs == KInv /\ [Next]_vars => FailureRemoves
<1> SUFFICES ASSUME KInv, pc = "apply", ProcessFails,
                    NEW k \in DOMAIN Sinfo, NEW j \in DOMAIN Sinfo[k]
             PROVE  stream'[k].cell[Sinfo[k][j]].seqs \subseteq Ubatch[k][j].seqs \ {Min(Ubatch[k][j].seqs)}
  BY DEF FailureRemoves
<1> DEFINE all == Apply(stream, Sinfo, Ubatch)
           r   == all[k]
           i   == Sinfo[k][j]
           y   == Ubatch[k][j]
           t   == RemoveFrom(r, Ubatch[k])
<1>1. stream' = [l \in Streams |-> IF l \in DOMAIN Ubatch THEN RemoveFrom(all[l], Ubatch[l]) ELSE all[l]]
  BY DEF ProcessFails
<1>2. Ubatch \in Ubatches /\ Fits(Sinfo, Ubatch) /\ stream \in All
  BY HeadIs DEF KInv
<1>3. k \in Streams /\ k \in DOMAIN Ubatch /\ Suits(Sinfo[k], Ubatch[k])
  BY <1>2, UbatchIs DEF Fits
<1>4. DOMAIN Sinfo[k] = 1 .. Len(Sinfo[k]) /\ DOMAIN Ubatch[k] = 1 .. Len(Sinfo[k]) /\ i \in Cells /\ Ubatch[k] \in Seq(Token)
  BY <1>3 DEF Suits
<1>5. Applied(stream, Sinfo, Ubatch, all)
  BY <1>2, ApplyIs
<1>6. stream'[k] = t
  BY <1>1, <1>3
<1> HIDE DEF all
<1>7. PlacedIn(stream[k], Sinfo[k], Ubatch[k], r) /\ r \in Good
  BY <1>3, <1>5 DEF Applied, All
<1>8. RemovedFrom(r, Ubatch[k], t)
  BY <1>4, <1>7, RemoveFromIs
<1> HIDE DEF r, t
<1>9. PICK u : TokensIn(stream[k], Sinfo[k], Ubatch[k], 1 .. Len(Sinfo[k]), u) /\ Thinner(u, r)
  BY <1>7 DEF PlacedIn
<1>10. u.cell[i] = TokenCell(y.pos, y.seqs)
  BY <1>4, <1>9 DEF TokensIn
<1>11. TokenCell(y.pos, y.seqs).pos = y.pos /\ TokenCell(y.pos, y.seqs).seqs = y.seqs
  BY DEF TokenCell
<1>12. y \in Token /\ y.pos \in Int
  <2>1. y \in Token
    BY <1>4
  <2> QED BY <2>1, SizesAre DEF Token, Positions
<1>13. j \in DOMAIN Ubatch[k]
  BY <1>4
<1> HIDE DEF i, y
<1>14. r.cell[i].seqs \subseteq y.seqs /\ t.cell[i].seqs \subseteq r.cell[i].seqs
  BY <1>4, <1>8, <1>9, <1>10, <1>11 DEF Thinner, RemovedFrom, i
<1>15. CASE r.cell[i] = EmptyCell
  BY <1>6, <1>14, <1>15, EmptyIs DEF i, y
<1>16. CASE r.cell[i] # EmptyCell
  <2>1. r.cell[i].pos = y.pos
    BY <1>4, <1>9, <1>10, <1>11, <1>16 DEF Thinner, i
  <2>2. Min(y.seqs) \notin t.cell[i].seqs
    BY <1>4, <1>8, <1>12, <1>13, <2>1 DEF RemovedFrom, i, y
  <2> QED BY <1>6, <1>14, <2>2 DEF i, y
<1> QED BY <1>15, <1>16

\* The cells of a ubatch that failed are in none of the sequences that come first in its
\* tokens, nor in any that is not the token's (llama-context.cpp:1819).
THEOREM SpecFailureRemoves == Spec => [][FailureRemoves]_vars
<1>1. KInv /\ [Next]_vars => [FailureRemoves]_vars
  BY FailureRemovesIs
<1> QED BY <1>1, SpecKInv, PTL DEF Spec
-----------------------------------------------------------------------------
(* Without a window: cells are found among the empty ones, and what was    *)
(* placed is taken back exactly.                                           *)

LEMMA SameGood ==
    ASSUME NEW t \in Good, NEW u \in Good, t.cell = u.cell, t.has_shift = u.has_shift, t.head = u.head
    PROVE  t = u
<1>1. t \in Loose /\ u \in Loose /\ t.used = u.used
  <2>1. t \in Loose /\ t.used = {i \in Cells : t.cell[i].pos # -1}
    BY GoodCells
  <2>2. u \in Loose /\ u.used = {i \in Cells : u.cell[i].pos # -1}
    BY GoodCells
  <2> QED BY <2>1, <2>2
<1>2. \A s \in Seqs, p \in Positions : t.seq_pos[s][p] = u.seq_pos[s][p]
  BY GoodCells DEF Fit
<1> QED BY <1>1, <1>2, SameStream

\* Every cell of a slot is empty.
SlotEmpty(all, sinfo) == \A k \in DOMAIN sinfo : \A i \in Range(sinfo[k]) : all[k].cell[i] = EmptyCell

LEMMA CanUseEmpty ==
    ASSUME Window = 0, NEW all \in All, NEW sinfo \in Sinfos, CanUseAll(all, sinfo)
    PROVE  SlotEmpty(all, sinfo)
<1> SUFFICES ASSUME NEW k \in DOMAIN sinfo, NEW i \in Range(sinfo[k])
             PROVE  all[k].cell[i] = EmptyCell
  BY DEF SlotEmpty
<1>1. k \in Streams /\ i \in Cells
  BY DEF Sinfos, Range
<1>2. CanUse(all[k], i) /\ all[k] \in Good
  BY <1>1 DEF CanUseAll, All
<1>3. all[k].cell[i].pos = -1
  BY <1>2 DEF CanUse, IsMasked, IsEmpty
<1> QED BY <1>1, <1>2, <1>3, GoodCells

\* A ubatch in empty cells: they are used, and nothing else changes.
InEmpty(st, idxs, tokens, r) ==
    /\ r \in Good /\ r.has_shift = st.has_shift
    /\ \A j \in 1 .. Len(idxs) : r.cell[idxs[j]] = TokenCell(tokens[j].pos, tokens[j].seqs)
    /\ \A i \in Cells : IF i \in Range(idxs) THEN r.cell[i] # EmptyCell ELSE r.cell[i] = st.cell[i]

LEMMA PlacedInEmpty ==
    ASSUME NEW st \in Good, NEW idxs, NEW tokens, Suits(idxs, tokens), NEW r, PlacedIn(st, idxs, tokens, r),
           \A i \in Range(idxs) : st.cell[i] = EmptyCell
    PROVE  InEmpty(st, idxs, tokens, r)
<1>1. PICK u : /\ TokensIn(st, idxs, tokens, 1 .. Len(idxs), u) /\ Thinner(u, r)
               /\ (\A s \in Seqs : Lost(st, idxs, s) = {}) => r.cell = u.cell
  BY DEF PlacedIn
<1>2. \A s \in Seqs : Lost(st, idxs, s) = {}
  <2>1. \A s \in Seqs, i \in Range(idxs) : st.cell[i].seqs # {s}
    BY EmptyIs
  <2> QED BY <2>1 DEF Lost
<1>3. r \in Good /\ r.has_shift = st.has_shift /\ r.cell = u.cell
  BY <1>1, <1>2 DEF TokensIn, Thinner
<1>4. DOMAIN idxs = 1 .. Len(idxs) /\ DOMAIN tokens = 1 .. Len(idxs) /\ tokens \in Seq(Token)
  BY DEF Suits
<1>5. \A j \in 1 .. Len(idxs) : r.cell[idxs[j]] = TokenCell(tokens[j].pos, tokens[j].seqs)
  BY <1>1, <1>3 DEF TokensIn
<1>6. \A j \in 1 .. Len(idxs) : TokenCell(tokens[j].pos, tokens[j].seqs) # EmptyCell
  <2> TAKE j \in 1 .. Len(idxs)
  <2>1. tokens[j] \in Token
    BY <1>4
  <2>2. TokenCell(tokens[j].pos, tokens[j].seqs).seqs # {}
    BY <2>1 DEF Token, TokenCell
  <2> QED BY <2>2, EmptyIs
<1>7. ASSUME NEW i \in Cells
      PROVE  IF i \in Range(idxs) THEN r.cell[i] # EmptyCell ELSE r.cell[i] = st.cell[i]
  <2>1. i \in Range(idxs) <=> \E j \in 1 .. Len(idxs) : idxs[j] = i
    BY <1>4 DEF Range
  <2> QED BY <1>1, <1>3, <1>5, <1>6, <2>1 DEF TokensIn
<1> QED BY <1>3, <1>5, <1>7 DEF InEmpty

\* In each stream of the ubatch.
AppliedInEmpty(all, sinfo, u, r) ==
    /\ r \in All
    /\ \A k \in DOMAIN u : InEmpty(all[k], sinfo[k], u[k], r[k])
    /\ \A k \in Streams : k \notin DOMAIN u => r[k] = all[k]

LEMMA ApplyInEmpty ==
    ASSUME NEW all \in All, NEW u \in Ubatches, NEW sinfo, Fits(sinfo, u), SlotEmpty(all, sinfo)
    PROVE  AppliedInEmpty(all, sinfo, u, Apply(all, sinfo, u))
<1> DEFINE r == Apply(all, sinfo, u)
<1>1. Applied(all, sinfo, u, r)
  BY ApplyIs
<1> HIDE DEF r
<1>2. ASSUME NEW k \in DOMAIN u
      PROVE  InEmpty(all[k], sinfo[k], u[k], r[k])
  <2>1. k \in Streams /\ Suits(sinfo[k], u[k]) /\ PlacedIn(all[k], sinfo[k], u[k], r[k]) /\ k \in DOMAIN sinfo
    BY <1>1, UbatchIs DEF Applied, Fits
  <2>2. all[k] \in Good /\ \A i \in Range(sinfo[k]) : all[k].cell[i] = EmptyCell
    BY <2>1 DEF All, SlotEmpty
  <2> QED BY <2>1, <2>2, PlacedInEmpty
<1>3. AppliedInEmpty(all, sinfo, u, r)
  BY <1>1, <1>2 DEF Applied, AppliedInEmpty
<1> QED BY <1>3 DEF r

\* Streams that differ in their heads only.
Same(v, w) ==
    /\ v \in All /\ w \in All
    /\ \A k \in Streams : v[k].cell = w[k].cell /\ v[k].has_shift = w[k].has_shift

LEMMA SameIs ==
    ASSUME NEW v, NEW w, Same(v, w)
    PROVE  /\ \A k \in Streams : v[k] = [w[k] EXCEPT !.head = v[k].head]
           /\ \A sinfo \in Sinfos : SlotEmpty(w, sinfo) => SlotEmpty(v, sinfo)
<1>1. ASSUME NEW k \in Streams
      PROVE  v[k] = [w[k] EXCEPT !.head = v[k].head]
  <2> DEFINE u == [w[k] EXCEPT !.head = v[k].head]
  <2>1. v[k] \in Good /\ w[k] \in Good /\ v[k].head \in 0 .. NumCells
    <3>1. v[k] \in Good /\ w[k] \in Good
      BY DEF Same, All
    <3> QED BY <3>1, GoodIs DEF Fit, StreamType
  <2>2. SameCells(w[k], u) /\ u.head = v[k].head
    BY <2>1, WithHead
  <2> HIDE DEF u
  <2>3. u \in Good /\ u.cell = v[k].cell /\ u.has_shift = v[k].has_shift
    BY <2>2 DEF SameCells, Same
  <2>4. v[k] = u
    BY <2>1, <2>2, <2>3, SameGood
  <2> QED BY <2>4 DEF u
<1>2. ASSUME NEW sinfo \in Sinfos, SlotEmpty(w, sinfo)
      PROVE  SlotEmpty(v, sinfo)
  <2>1. DOMAIN sinfo \subseteq Streams
    BY DEF Sinfos
  <2> QED BY <1>2, <2>1 DEF SlotEmpty, Same
<1> QED BY <1>1, <1>2

\* A ubatch taken back from cells that were empty leaves what there was before it.
LEMMA RestoreInEmpty ==
    ASSUME NEW state \in State, NEW u \in Ubatches, Fits(state.sinfo, u), SlotEmpty(state.old, state.sinfo),
           NEW there, AppliedInEmpty(state.old, state.sinfo, u, there),
           NEW now, Same(now, there), SlotShifts(now, state.sinfo)
    PROVE  Same(Restore(now, state), state.old)
<1> DEFINE r == Restore(now, state)
<1>1. RestoredTo(now, state, r)
  BY RestoreIs DEF Same
<1> HIDE DEF r
<1>2. state.old \in All /\ DOMAIN state.sinfo = DOMAIN u /\ r \in All
  BY <1>1 DEF State, Fits, RestoredTo
<1>3. ASSUME NEW k \in Streams
      PROVE  r[k].cell = state.old[k].cell /\ r[k].has_shift = state.old[k].has_shift
  <2>0. now[k].cell = there[k].cell /\ now[k].has_shift = there[k].has_shift
    BY DEF Same
  <2>1. CASE k \in DOMAIN u
    <3>1. TookBack(now[k], state.old[k], Range(state.sinfo[k]), r[k]) /\ InEmpty(state.old[k], state.sinfo[k], u[k], there[k])
      BY <1>1, <1>2, <2>1 DEF RestoredTo, AppliedInEmpty
    <3>2. r[k] \in Good /\ state.old[k] \in Good /\ r[k].has_shift = state.old[k].has_shift
      BY <1>2, <2>0, <3>1 DEF TookBack, InEmpty, All
    <3>3. Again(EmptyCell, 0) = EmptyCell
      BY DEF Again, EmptyCell
    <3>4. \A i \in Range(state.sinfo[k]) : state.old[k].cell[i] = EmptyCell
      BY <1>2, <2>1 DEF SlotEmpty
    <3>5. \A i \in Cells : r[k].cell[i] = IF i \in Range(state.sinfo[k]) THEN Again(state.old[k].cell[i], 0) ELSE now[k].cell[i]
      BY <3>1 DEF TookBack, Put
    <3>6. \A i \in Cells : r[k].cell[i] = state.old[k].cell[i]
      BY <2>0, <3>1, <3>3, <3>4, <3>5 DEF InEmpty
    <3>7. r[k].cell \in [Cells -> Cell] /\ state.old[k].cell \in [Cells -> Cell]
      BY <3>2, GoodCells, FitIsLoose
    <3>8. r[k].cell = state.old[k].cell
      BY <3>6, <3>7
    <3> QED BY <3>2, <3>8
  <2>2. CASE k \notin DOMAIN u
    <3>1. r[k] = now[k] /\ there[k] = state.old[k]
      BY <1>1, <1>2, <2>2 DEF RestoredTo, AppliedInEmpty
    <3> QED BY <2>0, <3>1
  <2> QED BY <2>1, <2>2
<1>4. Same(r, state.old)
  BY <1>2, <1>3 DEF Same
<1> QED BY <1>4 DEF r

-----------------------------------------------------------------------------
(* The states that prepare goes through.                                   *)

\* The streams before the j-th ubatch that was placed; after the last one.
Level(acc, j) == IF j <= Len(acc.states) THEN acc.states[j].old ELSE acc.now

\* The cells of two slots are different.
Apart(a, b) == \A k \in DOMAIN a : k \in DOMAIN b => Range(a[k]) \cap Range(b[k]) = {}

\* A cell that is empty was empty at the start, and is in no slot.
Unused(all, acc) ==
    \A k \in Streams, i \in Cells : acc.now[k].cell[i] = EmptyCell =>
        /\ all[k].cell[i] = EmptyCell
        /\ \A j \in 1 .. Len(acc.states) : k \in DOMAIN acc.states[j].sinfo => i \notin Range(acc.states[j].sinfo[k])

Chain(all, acc) ==
    /\ Level(acc, 1) = all
    /\ \A j \in 1 .. Len(acc.states) :
          /\ SlotEmpty(Level(acc, j), acc.states[j].sinfo)
          /\ AppliedInEmpty(Level(acc, j), acc.states[j].sinfo, ubatches[j], Level(acc, j + 1))
          /\ SlotEmpty(all, acc.states[j].sinfo)
    /\ \A i, j \in 1 .. Len(acc.states) : i < j => Apart(acc.states[i].sinfo, acc.states[j].sinfo)
    /\ Unused(all, acc)

\* The ubatch m is placed after those of acc.
Extends(acc, m, sinfo, r) ==
    /\ acc \in Acc /\ r \in Acc /\ m \in 1 .. Len(ubatches) /\ ubatches[m] \in Ubatches
    /\ Len(acc.states) = m - 1 /\ Fits(sinfo, ubatches[m]) /\ sinfo \in Sinfos /\ SlotEmpty(acc.now, sinfo)
    /\ r = OneMore(acc, sinfo, ubatches[m])

LEMMA ExtendsIs ==
    ASSUME NEW acc, NEW m, NEW sinfo, NEW r, Extends(acc, m, sinfo, r)
    PROVE  /\ Len(r.states) = m /\ r.states[m].sinfo = sinfo /\ \A j \in 1 .. m - 1 : r.states[j] = acc.states[j]
           /\ \A j \in 1 .. m : Level(r, j) = Level(acc, j)
           /\ Level(acc, m) = acc.now /\ Level(r, m + 1) = r.now /\ m \in Nat /\ m >= 1
           /\ AppliedInEmpty(acc.now, sinfo, ubatches[m], r.now)
           /\ \A j \in 1 .. m : j = m \/ j \in 1 .. m - 1
<1> DEFINE e == [sinfo |-> sinfo, old |-> acc.now]
           s == Append(acc.states, e)
<1>1. r.states = s /\ r.now = Apply(acc.now, sinfo, ubatches[m]) /\ e.sinfo = sinfo /\ e.old = acc.now
  BY DEF Extends, OneMore
<1>2. /\ acc.states \in Seq(State) /\ acc.now \in All /\ m \in Nat /\ m >= 1 /\ Len(acc.states) = m - 1
      /\ Len(acc.states) + 1 = m
  BY DEF Extends, Acc
<1>3. e \in State
  BY <1>2 DEF Extends, State
<1> HIDE DEF e
<1>4. Len(s) = m /\ s[m] = e /\ \A j \in 1 .. m - 1 : s[j] = acc.states[j]
  BY <1>2, <1>3, AppendIs
<1> HIDE DEF s
<1>5. \A j \in 1 .. m : j = m \/ j \in 1 .. m - 1
  BY <1>2
<1>6. Level(acc, m) = acc.now /\ Level(r, m + 1) = r.now
  <2>1. ~(m <= m - 1) /\ ~(m + 1 <= m)
    BY <1>2
  <2> QED BY <1>1, <1>2, <1>4, <2>1 DEF Level
<1>7. \A j \in 1 .. m : Level(r, j) = Level(acc, j)
  <2> TAKE j \in 1 .. m
  <2>1. j <= m
    OBVIOUS
  <2>2. Level(r, j) = s[j].old
    BY <1>1, <1>4, <2>1 DEF Level
  <2>3. CASE j = m
    BY <1>1, <1>4, <1>6, <2>2, <2>3
  <2>4. CASE j \in 1 .. m - 1
    <3>1. j <= m - 1
      BY <2>4
    <3>2. Level(acc, j) = acc.states[j].old
      BY <1>2, <3>1 DEF Level
    <3> QED BY <1>4, <2>2, <2>4, <3>2
  <2> QED BY <1>5, <2>3, <2>4
<1>8. AppliedInEmpty(acc.now, sinfo, ubatches[m], r.now)
  BY <1>1, <1>2, ApplyInEmpty DEF Extends
<1> QED BY <1>1, <1>2, <1>4, <1>5, <1>6, <1>7, <1>8

LEMMA UnusedStill ==
    ASSUME NEW all, NEW acc, NEW m, NEW sinfo, NEW r, Extends(acc, m, sinfo, r), Unused(all, acc)
    PROVE  /\ Unused(all, r) /\ SlotEmpty(all, sinfo)
           /\ \A j \in 1 .. m - 1 : Apart(acc.states[j].sinfo, sinfo)
<1>1. DOMAIN sinfo = DOMAIN ubatches[m] /\ DOMAIN sinfo \subseteq Streams /\ \A k \in DOMAIN sinfo : Range(sinfo[k]) \subseteq Cells
  BY DEF Extends, Fits, Sinfos, Range
<1>2. /\ Len(r.states) = m /\ r.states[m].sinfo = sinfo /\ \A j \in 1 .. m - 1 : r.states[j] = acc.states[j]
      /\ AppliedInEmpty(acc.now, sinfo, ubatches[m], r.now) /\ \A j \in 1 .. m : j = m \/ j \in 1 .. m - 1
  BY ExtendsIs
<1>0. Len(acc.states) = m - 1 /\ SlotEmpty(acc.now, sinfo)
  BY DEF Extends
<1>3. SlotEmpty(all, sinfo)
  BY <1>0, <1>1 DEF SlotEmpty, Unused
<1>4. \A j \in 1 .. m - 1 : Apart(acc.states[j].sinfo, sinfo)
  BY <1>0, <1>1 DEF SlotEmpty, Unused, Apart
<1>5. ASSUME NEW k \in Streams, NEW i \in Cells, r.now[k].cell[i] = EmptyCell
      PROVE  /\ all[k].cell[i] = EmptyCell
             /\ \A j \in 1 .. Len(r.states) : k \in DOMAIN r.states[j].sinfo => i \notin Range(r.states[j].sinfo[k])
  <2>1. acc.now[k].cell[i] = EmptyCell /\ (k \in DOMAIN sinfo => i \notin Range(sinfo[k]))
    <3>1. CASE k \in DOMAIN sinfo
      <4>1. InEmpty(acc.now[k], sinfo[k], ubatches[m][k], r.now[k])
        BY <1>1, <1>2, <3>1 DEF AppliedInEmpty
      <4> QED BY <1>5, <4>1 DEF InEmpty
    <3>2. CASE k \notin DOMAIN sinfo
      BY <1>1, <1>2, <1>5, <3>2 DEF AppliedInEmpty
    <3> QED BY <3>1, <3>2
  <2> QED BY <1>0, <1>2, <2>1 DEF Unused
<1> QED BY <1>3, <1>4, <1>5 DEF Unused

LEMMA ChainMore ==
    ASSUME NEW all, NEW acc, NEW m, NEW sinfo, NEW r, Extends(acc, m, sinfo, r), Chain(all, acc)
    PROVE  Chain(all, r)
<1>1. Unused(all, r) /\ SlotEmpty(all, sinfo) /\ \A j \in 1 .. m - 1 : Apart(acc.states[j].sinfo, sinfo)
  BY UnusedStill DEF Chain
<1>2. /\ Len(r.states) = m /\ r.states[m].sinfo = sinfo /\ \A j \in 1 .. m - 1 : r.states[j] = acc.states[j]
      /\ \A j \in 1 .. m : Level(r, j) = Level(acc, j)
      /\ Level(acc, m) = acc.now /\ Level(r, m + 1) = r.now /\ m \in Nat /\ m >= 1
      /\ AppliedInEmpty(acc.now, sinfo, ubatches[m], r.now)
      /\ \A j \in 1 .. m : j = m \/ j \in 1 .. m - 1
  BY ExtendsIs
<1>3. Len(acc.states) = m - 1 /\ SlotEmpty(acc.now, sinfo)
  BY DEF Extends
<1>4. Level(r, 1) = all
  BY <1>2 DEF Chain
<1>5. ASSUME NEW j \in 1 .. m
      PROVE  /\ SlotEmpty(Level(r, j), r.states[j].sinfo)
             /\ AppliedInEmpty(Level(r, j), r.states[j].sinfo, ubatches[j], Level(r, j + 1))
             /\ SlotEmpty(all, r.states[j].sinfo)
  <2>1. CASE j = m
    BY <1>1, <1>2, <1>3, <2>1
  <2>2. CASE j \in 1 .. m - 1
    <3>1. Level(r, j) = Level(acc, j) /\ Level(r, j + 1) = Level(acc, j + 1) /\ r.states[j] = acc.states[j]
      <4>1. j + 1 \in 1 .. m
        BY <1>2, <2>2
      <4> QED BY <1>2, <2>2, <4>1
    <3> QED BY <1>3, <2>2, <3>1 DEF Chain
  <2> QED BY <1>2, <2>1, <2>2
<1>6. ASSUME NEW i \in 1 .. m, NEW j \in 1 .. m, i < j
      PROVE  Apart(r.states[i].sinfo, r.states[j].sinfo)
  <2>1. i \in 1 .. m - 1 /\ r.states[i] = acc.states[i]
    BY <1>2, <1>6
  <2>2. CASE j = m
    BY <1>1, <1>2, <2>1, <2>2
  <2>3. CASE j \in 1 .. m - 1
    BY <1>2, <1>3, <1>6, <2>1, <2>3 DEF Chain
  <2> QED BY <1>2, <2>2, <2>3
<1> QED BY <1>1, <1>2, <1>4, <1>5, <1>6 DEF Chain

LEMMA ChainStarts ==
    ASSUME NEW all
    PROVE  Chain(all, Start(all))
<1>1. Start(all).states = <<>> /\ Start(all).now = all
  BY DEF Start
<1>2. Len(<<>>) = 0 /\ ~(1 <= 0) /\ \A j \in 1 .. 0 : FALSE
  OBVIOUS
<1> QED BY <1>1, <1>2 DEF Chain, Level, Unused

LEMMA PlacedChain ==
    ASSUME Window = 0, NEW all \in All, ubatches \in Seq(Ubatches), NEW acc, acc = Placed(all)
    PROVE  Chain(all, acc)
<1> DEFINE I == {y \in (0 .. Len(ubatches)) \X Acc : (y[2].ok => Len(y[2].states) = y[1]) /\ Chain(all, y[2])}
<1>1. \A m, v : <<m, v>> \in I <=>
          m \in 0 .. Len(ubatches) /\ v \in Acc /\ (v.ok => Len(v.states) = m) /\ Chain(all, v)
  OBVIOUS
<1> HIDE DEF I
<1>2. <<0, Start(all)>> \in I
  <2>1. Start(all) \in Acc /\ Start(all).states = <<>>
    BY DEF Start, Acc
  <2>2. Len(<<>>) = 0 /\ 0 \in 0 .. Len(ubatches)
    OBVIOUS
  <2> QED BY <1>1, <2>1, <2>2, ChainStarts
<1>3. ASSUME NEW m \in 1 .. Len(ubatches), NEW v \in Acc, NEW r \in Acc, <<m - 1, v>> \in I, Stepped(v, ubatches[m], r)
      PROVE  <<m, r>> \in I
  <2>0. m \in 0 .. Len(ubatches) /\ ubatches[m] \in Ubatches /\ v.now \in All
    BY DEF Acc
  <2>1. (v.ok => Len(v.states) = m - 1) /\ Chain(all, v) /\ m \in 0 .. Len(ubatches) /\ ubatches[m] \in Ubatches /\ v.now \in All
    BY <1>1, <1>3, <2>0
  <2>2. CASE r = Failed(v)
    <3>1. r.ok = FALSE /\ r.states = v.states /\ r.now = v.now
      BY <2>2 DEF Failed, Acc
    <3>2. Chain(all, r)
      BY <2>1, <3>1 DEF Chain, Level, Unused
    <3> QED BY <1>1, <2>1, <3>1, <3>2
  <2>3. ASSUME NEW sinfo \in Sinfos, v.ok, Fits(sinfo, ubatches[m]), CanUseAll(v.now, sinfo), r = OneMore(v, sinfo, ubatches[m])
        PROVE  <<m, r>> \in I
    <3>1. SlotEmpty(v.now, sinfo)
      BY <2>1, <2>3, CanUseEmpty
    <3>2. Extends(v, m, sinfo, r)
      BY <2>1, <2>3, <3>1 DEF Extends
    <3>3. Chain(all, r) /\ Len(r.states) = m
      BY <2>1, <3>2, ChainMore, ExtendsIs
    <3> QED BY <1>1, <2>1, <3>3
  <2> QED BY <1>3, <2>2, <2>3 DEF Stepped
<1>4. Progresses(I, all)
  BY <1>2, <1>3 DEF Progresses
<1>5. <<Len(ubatches), acc>> \in I
  BY <1>4, PlacedIs
<1> QED BY <1>1, <1>5

-----------------------------------------------------------------------------
(* All that was placed is taken back.                                      *)

\* The streams once the ubatches after m are taken back.
BackTo(acc, T, v) ==
    /\ Settled(v, acc.states)
    /\ \A m \in 0 .. Len(acc.states) : T = (m + 1) .. Len(acc.states) => Same(v, Level(acc, m + 1))

LEMMA BackMore ==
    ASSUME NEW all, NEW acc \in Acc, AreFit(acc), Chain(all, acc), ubatches \in Seq(Ubatches),
           NEW T \in SUBSET (1 .. Len(acc.states)), NEW x \in T, \A y \in T : x <= y,
           NEW v \in All, BackTo(acc, T \ {x}, v)
    PROVE  BackTo(acc, T, Restore(v, acc.states[x])) /\ Restore(v, acc.states[x]) \in All
<1> DEFINE n == Len(acc.states)
           w == Restore(v, acc.states[x])
<1>1. acc.states \in Seq(State) /\ n \in Nat /\ Settled(v, acc.states) /\ x \in 1 .. n /\ acc.states[x] \in State
  BY DEF Acc, BackTo
<1>2. Settled(w, acc.states) /\ w \in All
  BY <1>1, RestoredSettled
<1>3. ASSUME NEW m \in 0 .. n, T = (m + 1) .. n
      PROVE  Same(w, Level(acc, m + 1))
  <2>1. x = m + 1
    <3>1. x \in Nat /\ m \in Nat /\ m + 1 <= x /\ x <= n
      BY <1>1, <1>3
    <3>2. m + 1 \in T
      BY <1>1, <1>3, <3>1
    <3>3. x <= m + 1
      BY <3>2
    <3> QED BY <3>1, <3>3
  <2>2. T \ {x} = (x + 1) .. n /\ x \in 0 .. n
    BY <1>1, <1>3, <2>1
  <2>3. Same(v, Level(acc, x + 1))
    BY <2>2 DEF BackTo
  <2>4. /\ SlotEmpty(Level(acc, x), acc.states[x].sinfo)
        /\ AppliedInEmpty(Level(acc, x), acc.states[x].sinfo, ubatches[x], Level(acc, x + 1))
    BY <1>1 DEF Chain
  <2>5. Level(acc, x) = acc.states[x].old
    BY <1>1 DEF Level
  <2>6. ubatches[x] \in Ubatches /\ Fits(acc.states[x].sinfo, ubatches[x]) /\ SlotShifts(v, acc.states[x].sinfo)
    <3>1. x \in 1 .. Len(ubatches)
      BY <1>1 DEF AreFit
    <3> QED BY <1>1, <3>1 DEF AreFit, Settled
  <2>7. Same(w, acc.states[x].old)
    BY <1>1, <2>3, <2>4, <2>5, <2>6, RestoreInEmpty
  <2> QED BY <2>1, <2>5, <2>7
<1> HIDE DEF w
<1>4. BackTo(acc, T, w) /\ w \in All
  BY <1>2, <1>3 DEF BackTo
<1> QED BY <1>4 DEF w

LEMMA RestoredAgain ==
    ASSUME Window = 0, NEW all \in All, ubatches \in Seq(Ubatches), NEW acc, acc = Placed(all)
    PROVE  Same(Restored(acc), all)
<1> DEFINE q == acc.states
           b == acc.now
           V == All
           H == {y \in (SUBSET (1 .. Len(q))) \X V : BackTo(acc, y[1], y[2])}
<1>1. acc \in Acc /\ AreFit(acc) /\ Settled(b, q) /\ Chain(all, acc)
  BY PlacedFit, PlacedChain
<1>2. q \in Seq(State) /\ b \in V /\ Len(q) \in Nat
  BY <1>1 DEF Acc
<1>3. \A T, v : <<T, v>> \in H <=> T \in SUBSET (1 .. Len(q)) /\ v \in V /\ BackTo(acc, T, v)
  OBVIOUS
<1>4. H \subseteq (SUBSET (1 .. Len(q))) \X V
  OBVIOUS
<1> HIDE DEF H
<1>5. <<{}, b>> \in H
  <2>1. ASSUME NEW m \in 0 .. Len(q), {} = (m + 1) .. Len(q)
        PROVE  Same(b, Level(acc, m + 1))
    <3>1. ~(m + 1 <= Len(q))
      <4>1. m + 1 <= Len(q) => m + 1 \in (m + 1) .. Len(q)
        BY <1>2
      <4> QED BY <2>1, <4>1
    <3>2. Same(b, b)
      BY <1>2 DEF Same
    <3> QED BY <3>1, <3>2 DEF Level
  <2> QED BY <1>1, <1>2, <1>3, <2>1 DEF BackTo
<1>6. ASSUME NEW T \in SUBSET (1 .. Len(q)), NEW x \in T, \A y \in T : x <= y, NEW v \in V, <<T \ {x}, v>> \in H
      PROVE  <<T, Restore(v, q[x])>> \in H
  <2> DEFINE w == Restore(v, q[x])
  <2>1. BackTo(acc, T \ {x}, v)
    BY <1>3, <1>6
  <2>2. BackTo(acc, T, w) /\ w \in V
    BY <1>1, <1>6, <2>1, BackMore
  <2> HIDE DEF w
  <2>3. <<T, w>> \in H
    BY <1>3, <2>2
  <2> QED BY <2>3 DEF w
<1>7. RestoreSteps(H, V, b, q)
  BY <1>4, <1>5, <1>6 DEF RestoreSteps
<1> HIDE DEF V
<1>8. <<1 .. Len(q), EachRestored(b, q)>> \in H
  BY <1>2, <1>7, RestoreRule
<1>9. BackTo(acc, 1 .. Len(q), EachRestored(b, q))
  BY <1>3, <1>8
<1>10. Same(EachRestored(b, q), Level(acc, 1))
  <2>1. 0 \in 0 .. Len(q) /\ (0 + 1) .. Len(q) = 1 .. Len(q) /\ 0 + 1 = 1
    BY <1>2
  <2> QED BY <1>9, <2>1 DEF BackTo
<1>11. Restored(acc) = EachRestored(b, q)
  BY DEF Restored, EachRestored
<1> QED BY <1>1, <1>10, <1>11 DEF Chain

\* What leads to the placing of a ubatch.
LEMMA ToApply ==
    ASSUME [Next]_vars, pc' = "apply"
    PROVE  Prepare \/ Process \/ UNCHANGED vars
<1>1. \A s, r : RemoveSeq(s, r) => pc' = "idle"
  BY DEF RemoveSeq, Set, Only
<1>2. \A r : RemoveAny(r) => pc' = "idle"
  BY DEF RemoveAny, Only
<1>3. Clear => pc' = "idle"
  BY DEF Clear, Only
<1>4. \A s : Keep(s) => pc' = "idle"
  BY DEF Keep, Set, Only
<1>5. \A s, d, r : Copy(s, d, r) => pc' = "idle"
  BY DEF Copy, Set, Only
<1>6. \A s, r, d : Add(s, r, d) => pc' = "idle"
  BY DEF Add, Set, Only
<1>7. \A s, r, d : Div(s, r, d) => pc' = "idle"
  BY DEF Div, Set, Only
<1>8. \A Q, n, shared, shifted : Decode(Q, n, shared, shifted) => pc' = "prepare"
  BY DEF Decode
<1>9. \A shifted : PrepareFails(shifted) => pc' \in {"idle", "retry"}
  BY DEF PrepareFails
<1>10. ProcessFails => pc' = "idle"
  BY DEF ProcessFails
<1> QED BY <1>1, <1>2, <1>3, <1>4, <1>5, <1>6, <1>7, <1>8, <1>9, <1>10 DEF Next

\* What leads on from the placing of a batch.
LEMMA FromPrepare ==
    ASSUME [Next]_vars, pc \in {"prepare", "retry"}
    PROVE  Prepare \/ (\E shifted \in BOOLEAN : PrepareFails(shifted)) \/ UNCHANGED vars
<1>1. \A s, r : RemoveSeq(s, r) => pc = "idle"
  BY DEF RemoveSeq, Set
<1>2. \A r : RemoveAny(r) => pc = "idle"
  BY DEF RemoveAny
<1>3. Clear => pc = "idle"
  BY DEF Clear
<1>4. \A s : Keep(s) => pc = "idle"
  BY DEF Keep, Set
<1>5. \A s, d, r : Copy(s, d, r) => pc = "idle"
  BY DEF Copy, Set
<1>6. \A s, r, d : Add(s, r, d) => pc = "idle"
  BY DEF Add, Set
<1>7. \A s, r, d : Div(s, r, d) => pc = "idle"
  BY DEF Div, Set
<1>8. \A Q, n, shared, shifted : Decode(Q, n, shared, shifted) => pc = "idle"
  BY DEF Decode
<1>9. (Process => pc = "apply") /\ (ProcessFails => pc = "apply")
  BY DEF Process, ProcessFails
<1> QED BY <1>1, <1>2, <1>3, <1>4, <1>5, <1>6, <1>7, <1>8, <1>9 DEF Next

\* The shift of a stream with another head.
LEMMA SameUnshifted ==
    ASSUME NEW v \in Good, NEW w \in Good, v = [w EXCEPT !.head = v.head]
    PROVE  Unshifted(v) = [Unshifted(w) EXCEPT !.head = Unshifted(v).head]
<1>1. v \in StreamType /\ w \in StreamType
  BY GoodIs DEF Fit
<1> QED BY <1>1 DEF Unshifted, StreamType

LEMMA FailureRestores == ASSUME Window = 0, KInv, NEW shifted \in BOOLEAN, PrepareFails(shifted) PROVE Restores
<1> DEFINE all == Restored(Placed(stream))
           b == shifted /\ pc = "prepare"
<1>1. Shift(rope, all, b) /\ pc \in {"prepare", "retry"} /\ (pc = "prepare" /\ HasShift(all) => pc' = "retry")
  BY DEF PrepareFails
<1>2. Same(all, stream)
  BY <1>1, RestoredAgain DEF KInv
<1>3. b => pc = "prepare"
  OBVIOUS
<1> HIDE DEF all, b
<1>4. \A k \in Streams : all[k] = [stream[k] EXCEPT !.head = all[k].head]
  BY <1>2, SameIs
<1>5. CASE b /\ HasShift(all)
  <2>1. /\ rope' = [k \in Streams |-> [i \in Cells |-> rope[k][i] + all[k].cell[i].shift]]
        /\ stream' = [k \in Streams |-> Unshifted(all[k])]
    BY <1>1, <1>5 DEF Shift
  <2>2. pc = "prepare" /\ pc' = "retry"
    BY <1>1, <1>3, <1>5
  <2>3. ASSUME NEW k \in Streams
        PROVE  /\ stream'[k] = [Unshifted(stream[k]) EXCEPT !.head = stream'[k].head]
               /\ rope'[k] = [i \in Cells |-> rope[k][i] + stream[k].cell[i].shift]
    <3>1. all[k] \in Good /\ stream[k] \in Good /\ all[k].cell = stream[k].cell
      BY <1>2 DEF Same, All
    <3>2. stream'[k] = Unshifted(all[k]) /\ rope'[k] = [i \in Cells |-> rope[k][i] + all[k].cell[i].shift]
      BY <2>1
    <3>3. all[k] = [stream[k] EXCEPT !.head = all[k].head]
      BY <1>4
    <3>4. Unshifted(all[k]) = [Unshifted(stream[k]) EXCEPT !.head = Unshifted(all[k]).head]
      BY <3>1, <3>3, SameUnshifted
    <3> QED BY <3>1, <3>2, <3>4
  <2> QED BY <2>2, <2>3 DEF Restores
<1>6. CASE ~(b /\ HasShift(all))
  <2>1. stream' = all /\ rope' = rope
    BY <1>1, <1>6 DEF Shift
  <2> QED BY <1>4, <2>1 DEF Restores
<1> QED BY <1>5, <1>6

LEMMA RestoresIs == Window = 0 /\ KInv /\ [Next]_vars => Restores
<1> SUFFICES ASSUME Window = 0, KInv, [Next]_vars, pc \in {"prepare", "retry"}
             PROVE  Restores
  BY DEF Restores
<1>1. stream \in All /\ ubatches \in Seq(Ubatches)
  BY DEF KInv
<1>2. CASE Prepare
  <2>1. stream' = Restored(Placed(stream)) /\ rope' = rope
    BY <1>2 DEF Prepare
  <2>2. Same(stream', stream)
    BY <1>1, <2>1, RestoredAgain
  <2> QED BY <2>1, <2>2, SameIs DEF Restores
<1>3. ASSUME NEW shifted \in BOOLEAN, PrepareFails(shifted)
      PROVE  Restores
  BY <1>3, FailureRestores
<1>4. CASE UNCHANGED vars
  <2>1. Same(stream, stream) /\ stream' = stream /\ rope' = rope
    BY <1>1, <1>4 DEF Same, vars
  <2> QED BY <2>1, SameIs DEF Restores
<1> QED BY <1>2, <1>3, <1>4, FromPrepare
-----------------------------------------------------------------------------
(* The slots of the ubatches that are still to be placed.                  *)

\* They are empty, and apart.
Ready ==
    pc = "apply" => /\ \A j \in 1 .. Len(ubatches) : SlotEmpty(stream, sinfos[j])
                    /\ \A i, j \in 1 .. Len(ubatches) : i < j => Apart(sinfos[i], sinfos[j])

LEMMA PrepareReady == ASSUME Window = 0, KInv, Prepare PROVE Ready'
<1> DEFINE acc == Placed(stream)
<1>1. /\ acc.ok /\ stream' = Restored(acc) /\ sinfos' = [j \in DOMAIN ubatches |-> acc.states[j].sinfo]
      /\ ubatches' = ubatches
  BY DEF Prepare
<1>2. stream \in All /\ ubatches \in Seq(Ubatches)
  BY DEF KInv
<1>3. AreFit(acc) /\ acc \in Acc /\ Chain(stream, acc) /\ Same(stream', stream)
  BY <1>1, <1>2, PlacedFit, PlacedChain, RestoredAgain
<1> HIDE DEF acc
<1>4. DOMAIN ubatches = 1 .. Len(ubatches) /\ Len(acc.states) = Len(ubatches)
  BY <1>1, <1>2, <1>3 DEF AreFit
<1>5. \A j \in 1 .. Len(ubatches) : sinfos'[j] = acc.states[j].sinfo
  BY <1>1, <1>4
<1>6. \A j \in 1 .. Len(ubatches) : SlotEmpty(stream', sinfos'[j])
  <2> TAKE j \in 1 .. Len(ubatches)
  <2>1. SlotEmpty(stream, acc.states[j].sinfo)
    BY <1>3, <1>4 DEF Chain
  <2>2. acc.states[j].sinfo \in Sinfos
    <3>1. acc.states \in Seq(State) /\ j \in 1 .. Len(acc.states)
      BY <1>3, <1>4 DEF Acc
    <3>2. acc.states[j] \in State
      BY <3>1
    <3> QED BY <3>2 DEF State
  <2> QED BY <1>3, <1>5, <2>1, <2>2, SameIs
<1>7. \A i, j \in 1 .. Len(ubatches) : i < j => Apart(sinfos'[i], sinfos'[j])
  BY <1>3, <1>4, <1>5 DEF Chain
<1> QED BY <1>1, <1>6, <1>7 DEF Ready

LEMMA ProcessReady == ASSUME KInv, Ready, Process PROVE Ready'
<1>1. /\ pc = "apply" /\ stream' = Apply(stream, Sinfo, Ubatch) /\ ubatches' = Tail(ubatches) /\ sinfos' = Tail(sinfos)
  BY DEF Process
<1>2. /\ Ubatch \in Ubatches /\ Sinfo \in Sinfos /\ Fits(Sinfo, Ubatch) /\ Len(ubatches) \in Nat /\ Len(ubatches) >= 1
      /\ Len(sinfos) = Len(ubatches) /\ Sinfo = sinfos[1] /\ ubatches \in Seq(Ubatches) /\ sinfos \in Seq(Sinfos) /\ stream \in All
  BY <1>1, HeadIs DEF KInv
<1>3. Len(ubatches') = Len(ubatches) - 1 /\ \A j \in 1 .. Len(ubatches) - 1 : sinfos'[j] = sinfos[j + 1]
  BY <1>1, <1>2, TailIs
<1>4. SlotEmpty(stream, Sinfo) /\ AppliedInEmpty(stream, Sinfo, Ubatch, stream')
  <2>1. SlotEmpty(stream, Sinfo)
    BY <1>1, <1>2 DEF Ready
  <2> QED BY <1>1, <1>2, <2>1, ApplyInEmpty
<1>5. \A j \in 1 .. Len(ubatches) - 1 : j + 1 \in 1 .. Len(ubatches) /\ 1 \in 1 .. Len(ubatches) /\ 1 < j + 1
  BY <1>2
<1>6. ASSUME NEW j \in 1 .. Len(ubatches) - 1
      PROVE  SlotEmpty(stream', sinfos'[j])
  <2> DEFINE a == sinfos[j + 1]
  <2>1. SlotEmpty(stream, a) /\ Apart(Sinfo, a) /\ a \in Sinfos
    BY <1>1, <1>2, <1>5 DEF Ready
  <2> HIDE DEF a
  <2>2. ASSUME NEW k \in DOMAIN a, NEW i \in Range(a[k])
        PROVE  stream'[k].cell[i] = EmptyCell
    <3>1. k \in Streams /\ i \in Cells /\ stream[k].cell[i] = EmptyCell
      BY <2>1 DEF Sinfos, Range, SlotEmpty
    <3>2. CASE k \in DOMAIN Ubatch
      <4>1. InEmpty(stream[k], Sinfo[k], Ubatch[k], stream'[k]) /\ k \in DOMAIN Sinfo
        BY <1>2, <1>4, <3>2 DEF AppliedInEmpty, Fits
      <4>2. i \notin Range(Sinfo[k])
        BY <2>1, <2>2, <4>1 DEF Apart
      <4> QED BY <3>1, <4>1, <4>2 DEF InEmpty
    <3>3. CASE k \notin DOMAIN Ubatch
      BY <1>4, <3>1, <3>3 DEF AppliedInEmpty
    <3> QED BY <3>2, <3>3
  <2>3. SlotEmpty(stream', a)
    BY <2>2 DEF SlotEmpty
  <2> QED BY <1>3, <2>3 DEF a
<1>7. \A i, j \in 1 .. Len(ubatches) - 1 : i < j => Apart(sinfos'[i], sinfos'[j])
  <2> TAKE i, j \in 1 .. Len(ubatches) - 1
  <2>1. i < j => i + 1 < j + 1
    BY <1>2
  <2> QED BY <1>1, <1>3, <1>5, <2>1 DEF Ready
<1> QED BY <1>3, <1>6, <1>7 DEF Ready

LEMMA ReadyStays == Window = 0 /\ KInv /\ Ready /\ [Next]_vars => Ready'
<1> SUFFICES ASSUME Window = 0, KInv, Ready, [Next]_vars, pc' = "apply" PROVE Ready'
  BY DEF Ready
<1>1. UNCHANGED vars => Ready'
  BY DEF vars, Ready
<1> QED BY <1>1, ToApply, PrepareReady, ProcessReady

\* prepare() finds different cells for all the ubatches, and each is still empty when
\* its ubatch is placed (apply_ubatch), if there is no window.
THEOREM SpecSlotsStayUsable == ASSUME Window = 0 PROVE Spec => []SlotsStayUsable
<1>1. Init => Ready
  BY DEF Init, Ready
<1>2. KInv /\ Ready /\ [Next]_vars => Ready'
  BY ReadyStays
<1>3. KInv /\ Ready => SlotsStayUsable
  <2> SUFFICES ASSUME KInv, Ready, pc = "apply", NEW k \in DOMAIN Sinfo
               PROVE  /\ IsInjective(Sinfo[k]) /\ Len(Sinfo[k]) = Len(Ubatch[k])
                      /\ \A i \in Range(Sinfo[k]) : CanUse(stream[k], i)
    BY DEF SlotsStayUsable
  <2>1. Fits(Sinfo, Ubatch) /\ Sinfo = sinfos[1] /\ 1 \in 1 .. Len(ubatches)
    BY HeadIs
  <2>2. Suits(Sinfo[k], Ubatch[k])
    BY <2>1 DEF Fits
  <2>3. IsInjective(Sinfo[k]) /\ Len(Sinfo[k]) = Len(Ubatch[k])
    BY <2>2 DEF Suits, IsInjective
  <2>4. \A i \in Range(Sinfo[k]) : stream[k].cell[i] = EmptyCell
    BY <2>1 DEF Ready, SlotEmpty
  <2> QED BY <2>3, <2>4, EmptyIs DEF CanUse, IsEmpty
<1> QED BY <1>1, <1>2, <1>3, SpecKInv, PTL DEF Spec

\* prepare() takes nothing from the cache if there is no window (llama-kv-cache.cpp:795),
\* and a ubatch that failed is not in it (llama-context.cpp:1819).
THEOREM SpecLeavesNoTrace == ASSUME Window = 0 PROVE Spec => LeavesNoTrace
<1>1. KInv /\ [Next]_vars => [Restores /\ FailureRemoves]_vars
  BY FailureRemovesIs, RestoresIs
<1> QED BY <1>1, SpecKInv, PTL DEF Spec, LeavesNoTrace
-----------------------------------------------------------------------------
(* The keys and the positions they are rotated for.                        *)

\* One buffer copy more.
LEMMA CopyDataIs ==
    ASSUME NEW d \in Ropes, NEW c \in Streams \X Streams
    PROVE  CopyData(d, c) \in Ropes /\ \A k \in Streams : CopyData(d, c)[k] = IF k = c[2] THEN d[c[1]] ELSE d[k]
BY DEF CopyData, Ropes

\* The data after each copy.
Trace(data, q, m, f) ==
    f \in [0 .. m -> Ropes] /\ f[0] = data /\ \A j \in 1 .. m : f[j] = CopyData(f[j - 1], q[j])

LEMMA TraceMore ==
    ASSUME NEW data, NEW q \in Seq(Streams \X Streams), NEW m \in 1 .. Len(q), NEW f, Trace(data, q, m - 1, f)
    PROVE  \E g : Trace(data, q, m, g) /\ g[m] = CopyData(f[m - 1], q[m])
<1> DEFINE d == CopyData(f[m - 1], q[m])
           g == [j \in 0 .. m |-> IF j = m THEN d ELSE f[j]]
<1>1. m \in Nat /\ m >= 1 /\ q[m] \in Streams \X Streams /\ m - 1 \in 0 .. m - 1
  OBVIOUS
<1>2. f \in [0 .. m - 1 -> Ropes] /\ d \in Ropes
  BY <1>1, CopyDataIs DEF Trace
<1> HIDE DEF d
<1>3. \A j \in 0 .. m : j = m \/ j \in 0 .. m - 1
  BY <1>1
<1>4. g \in [0 .. m -> Ropes] /\ g[m] = d /\ \A j \in 0 .. m - 1 : g[j] = f[j]
  BY <1>1, <1>2, <1>3
<1> HIDE DEF g
<1>5. g[0] = data
  BY <1>1, <1>4 DEF Trace
<1>6. ASSUME NEW j \in 1 .. m
      PROVE  g[j] = CopyData(g[j - 1], q[j])
  <2>1. j - 1 \in 0 .. m - 1 /\ (j = m \/ j \in 1 .. m - 1)
    BY <1>1
  <2>2. g[j - 1] = f[j - 1]
    BY <1>4, <2>1
  <2>3. CASE j = m
    BY <1>4, <2>2, <2>3 DEF d
  <2>4. CASE j \in 1 .. m - 1
    <3>1. j \in 0 .. m - 1
      BY <1>1, <2>4
    <3> QED BY <1>4, <2>2, <2>4, <3>1 DEF Trace
  <2> QED BY <2>1, <2>3, <2>4
<1>7. Trace(data, q, m, g)
  BY <1>4, <1>5, <1>6 DEF Trace
<1> QED BY <1>4, <1>7 DEF d

LEMMA TraceIs ==
    ASSUME NEW data \in Ropes, NEW q \in Seq(Streams \X Streams)
    PROVE  \E f : Trace(data, q, Len(q), f) /\ f[Len(q)] = EachCopied(data, q)
<1> DEFINE n == Len(q)
           V == Ropes
           H == {y \in (SUBSET (1 .. n)) \X V :
                    \A m \in 0 .. n : y[1] = 1 .. m => \E f : Trace(data, q, m, f) /\ f[m] = y[2]}
<1>1. n \in Nat
  OBVIOUS
<1>2. \A T, v : <<T, v>> \in H <=>
          T \in SUBSET (1 .. n) /\ v \in V /\ \A m \in 0 .. n : T = 1 .. m => \E f : Trace(data, q, m, f) /\ f[m] = v
  OBVIOUS
<1>3. H \subseteq (SUBSET (1 .. n)) \X V
  OBVIOUS
<1> HIDE DEF H
<1>4. <<{}, data>> \in H
  <2>1. ASSUME NEW m \in 0 .. n, {} = 1 .. m
        PROVE  \E f : Trace(data, q, m, f) /\ f[m] = data
    <3>1. m = 0
      <4>1. m >= 1 => 1 \in 1 .. m
        BY <1>1
      <4>2. ~(m >= 1)
        BY <2>1, <4>1, ZenonT(60)
      <4> QED BY <1>1, <4>2
    <3> DEFINE f == [j \in 0 .. 0 |-> data]
    <3>2. f \in [0 .. 0 -> Ropes] /\ f[0] = data
      OBVIOUS
    <3> HIDE DEF f
    <3>3. \A j \in 1 .. 0 : FALSE
      OBVIOUS
    <3>4. Trace(data, q, 0, f) /\ f[0] = data
      BY <3>2, <3>3 DEF Trace
    <3> QED BY <3>1, <3>4
  <2> QED BY <1>2, <2>1
<1>5. ASSUME NEW T \in SUBSET (1 .. n), NEW x \in T, \A y \in T : y <= x, NEW v \in V, <<T \ {x}, v>> \in H
      PROVE  <<T, CopyData(v, q[x])>> \in H
  <2> DEFINE w == CopyData(v, q[x])
  <2>1. x \in 1 .. n /\ q[x] \in Streams \X Streams /\ w \in V
    BY CopyDataIs
  <2> HIDE DEF w
  <2>2. ASSUME NEW m \in 0 .. n, T = 1 .. m
        PROVE  \E f : Trace(data, q, m, f) /\ f[m] = w
    <3>1. m = x /\ m \in 1 .. n /\ m - 1 \in 0 .. n
      <4>1. m >= 1 /\ x <= m
        BY <1>1, <2>2
      <4>2. m \in T
        BY <1>1, <2>2, <4>1
      <4>3. m <= x
        BY <1>5, <4>2
      <4> QED BY <1>1, <2>1, <4>1, <4>3
    <3>2. T \ {x} = 1 .. (m - 1)
      BY <1>1, <2>2, <3>1
    <3>3. PICK f : Trace(data, q, m - 1, f) /\ f[m - 1] = v
      BY <1>2, <1>5, <3>1, <3>2
    <3>4. \E g : Trace(data, q, m, g) /\ g[m] = CopyData(f[m - 1], q[m])
      BY <3>1, <3>3, TraceMore
    <3> QED BY <3>1, <3>3, <3>4 DEF w
  <2>3. <<T, w>> \in H
    BY <1>2, <2>1, <2>2
  <2> QED BY <2>3 DEF w
<1>6. DataSteps(H, V, data, q)
  BY <1>3, <1>4, <1>5 DEF DataSteps
<1> HIDE DEF V
<1>7. <<1 .. Len(q), EachCopied(data, q)>> \in H
  BY <1>6, DataRule
<1> QED BY <1>1, <1>2, <1>7

\* A copy that is asked for after the others is done after them.
LEMMA CopiedMore ==
    ASSUME NEW data \in Ropes, NEW q \in Seq(Streams \X Streams), NEW c \in Streams \X Streams
    PROVE  EachCopied(data, Append(q, c)) = CopyData(EachCopied(data, q), c)
<1> DEFINE n == Len(q)
           b == Append(q, c)
           V == Ropes
<1>1. n \in Nat /\ b \in Seq(Streams \X Streams) /\ Len(b) = n + 1 /\ b[n + 1] = c /\ \A j \in 1 .. n : b[j] = q[j]
  OBVIOUS
<1>2. PICK f : Trace(data, q, n, f) /\ f[n] = EachCopied(data, q)
  BY TraceIs
<1>3. n \in 0 .. n /\ f[n] \in Ropes
  BY <1>1, <1>2 DEF Trace
<1> HIDE DEF n
<1> DEFINE g == [m \in 0 .. n + 1 |-> IF m = n + 1 THEN CopyData(f[n], c) ELSE f[m]]
<1>11. g[n + 1] = CopyData(f[n], c) /\ \A m \in 0 .. n : g[m] = f[m]
  BY <1>1
<1> HIDE DEF g
<1> DEFINE H == {y \in (SUBSET (1 .. Len(b))) \X V : \A m \in 0 .. n + 1 : y[1] = 1 .. m => y[2] = g[m]}
<1>4. \A T, v : <<T, v>> \in H <=>
          T \in SUBSET (1 .. Len(b)) /\ v \in V /\ \A m \in 0 .. n + 1 : T = 1 .. m => v = g[m]
  OBVIOUS
<1>5. H \subseteq (SUBSET (1 .. Len(b))) \X V
  OBVIOUS
<1> HIDE DEF H, b
<1>6. <<{}, data>> \in H
  <2>1. ASSUME NEW m \in 0 .. n + 1, {} = 1 .. m
        PROVE  data = g[m]
    <3>1. m = 0
      <4>1. m >= 1 => 1 \in 1 .. m
        BY <1>1
      <4>2. ~(m >= 1)
        BY <2>1, <4>1, ZenonT(60)
      <4> QED BY <1>1, <4>2
    <3>3. g[0] = f[0] /\ f[0] = data
      BY <1>1, <1>2, <1>11 DEF Trace
    <3> QED BY <3>1, <3>3
  <2> QED BY <1>4, <2>1
<1>7. ASSUME NEW T \in SUBSET (1 .. Len(b)), NEW x \in T, \A y \in T : y <= x, NEW v \in V, <<T \ {x}, v>> \in H
      PROVE  <<T, CopyData(v, b[x])>> \in H
  <2> DEFINE w == CopyData(v, b[x])
  <2>1. x \in 1 .. n + 1 /\ b[x] \in Streams \X Streams
    BY <1>1
  <2>2. w \in V
    BY <2>1, CopyDataIs
  <2> HIDE DEF w
  <2>3. ASSUME NEW m \in 0 .. n + 1, T = 1 .. m
        PROVE  w = g[m]
    <3>1. m = x /\ m \in 1 .. n + 1 /\ m - 1 \in 0 .. n /\ m - 1 # n + 1
      <4>1. m >= 1 /\ x <= m
        BY <1>1, <2>3
      <4>2. m \in T
        BY <1>1, <2>3, <4>1
      <4>3. m <= x
        BY <1>7, <4>2
      <4> QED BY <1>1, <2>1, <4>1, <4>3
    <3>2. T \ {x} = 1 .. (m - 1) /\ m - 1 \in 0 .. n + 1
      BY <1>1, <2>3, <3>1
    <3>3. v = f[m - 1]
      <4>1. \A l \in 0 .. n + 1 : T \ {x} = 1 .. l => v = g[l]
        BY <1>4, <1>7
      <4>2. v = g[m - 1]
        BY <3>2, <4>1
      <4> QED BY <1>11, <3>1, <4>2
    <3>4. CASE m = n + 1
      <4>1. m - 1 = n
        BY <1>1, <3>4
      <4> QED BY <1>1, <1>11, <3>1, <3>3, <3>4, <4>1 DEF w
    <3>5. CASE m # n + 1
      <4>1. m \in 1 .. n
        BY <1>1, <3>1, <3>5
      <4>2. f[m] = CopyData(f[m - 1], q[m])
        BY <1>2, <4>1 DEF Trace
      <4> QED BY <1>1, <1>11, <3>1, <3>3, <3>5, <4>1, <4>2 DEF w
    <3> QED BY <3>4, <3>5
  <2>4. <<T, w>> \in H
    BY <1>4, <2>2, <2>3
  <2> QED BY <2>4 DEF w
<1>8. DataSteps(H, V, data, b)
  BY <1>5, <1>6, <1>7 DEF DataSteps
<1> HIDE DEF V
<1>9. <<1 .. Len(b), EachCopied(data, b)>> \in H
  BY <1>1, <1>8, DataRule
<1>10. EachCopied(data, b) = g[n + 1]
  <2>1. n + 1 \in 0 .. n + 1
    BY <1>1
  <2> QED BY <1>1, <1>4, <1>9, <2>1
<1> QED BY <1>2, <1>10, <1>11 DEF b, n

LEMMA CopiedNone == \A data \in Ropes : EachCopied(data, <<>>) = data
<1> TAKE data \in Ropes
<1>1. <<>> \in Seq(Streams \X Streams) /\ Len(<<>>) = 0
  OBVIOUS
<1>2. PICK f : Trace(data, <<>>, 0, f) /\ f[0] = EachCopied(data, <<>>)
  BY <1>1, TraceIs
<1> QED BY <1>2 DEF Trace

LEMMA CopiedEach ==
    ASSUME NEW data
    PROVE  Copied(data) = EachCopied(data, copies)
BY DEF Copied, EachCopied, CopyData

LEMMA EachCopiedIs ==
    ASSUME NEW data \in Ropes, NEW q \in Seq(Streams \X Streams)
    PROVE  EachCopied(data, q) \in Ropes
<1>1. PICK f : Trace(data, q, Len(q), f) /\ f[Len(q)] = EachCopied(data, q)
  BY TraceIs
<1>2. Len(q) \in 0 .. Len(q)
  OBVIOUS
<1> QED BY <1>1, <1>2 DEF Trace

-----------------------------------------------------------------------------
\* The keys of all the used cells, but for a shift, are those of their positions.
Keyed(st, data)   == \A i \in Cells : st.cell[i].pos # -1 => data[i] + st.cell[i].shift = st.cell[i].pos
KeyedAll(all, data) == \A k \in Streams : Keyed(all[k], data[k])

\* What is still used is at the position it was written for.
Stays(st, t, i) ==
    t.cell[i].pos # -1 => st.cell[i].pos # -1 /\ t.cell[i].pos - t.cell[i].shift = st.cell[i].pos - st.cell[i].shift
Kept(st, t) == t \in Good /\ \A i \in Cells : Stays(st, t, i)

LEMMA CellInts == ASSUME NEW st \in Good, NEW i \in Cells PROVE st.cell[i].pos \in Int /\ st.cell[i].shift \in Int
<1>1. st.cell[i] \in Cell
  BY GoodCells, FitIsLoose
<1>2. \A c \in Cell : c.pos \in Int /\ c.shift \in Int
  BY SizesAre DEF Cell, Positions
<1> QED BY <1>1, <1>2

LEMMA KeptKeyed ==
    ASSUME NEW st \in Good, NEW t, Kept(st, t), NEW d \in [Cells -> Int], Keyed(st, d)
    PROVE  Keyed(t, d)
<1> SUFFICES ASSUME NEW i \in Cells, t.cell[i].pos # -1
             PROVE  d[i] + t.cell[i].shift = t.cell[i].pos
  BY DEF Keyed
<1>1. /\ t.cell[i].pos \in Int /\ t.cell[i].shift \in Int /\ st.cell[i].pos \in Int /\ st.cell[i].shift \in Int /\ d[i] \in Int
  <2>1. t \in Good
    BY DEF Kept
  <2> QED BY <2>1, CellInts
<1>2. st.cell[i].pos # -1 /\ t.cell[i].pos - t.cell[i].shift = st.cell[i].pos - st.cell[i].shift
  BY DEF Kept, Stays
<1>3. d[i] + st.cell[i].shift = st.cell[i].pos
  BY <1>2 DEF Keyed
<1> QED BY <1>1, <1>2, <1>3

LEMMA ThinnerKept == ASSUME NEW st, NEW t, Thinner(st, t) PROVE Kept(st, t)
<1>1. \A i \in Cells : t.cell[i] = EmptyCell => t.cell[i].pos = -1
  BY EmptyIs
<1> QED BY <1>1 DEF Thinner, Kept, Stays

LEMMA RmAnyKept == ASSUME NEW st \in Good, NEW p0, NEW p1 PROVE Kept(st, RmAny(st, p0, p1))
<1> DEFINE t == RmAny(st, p0, p1)
<1>1. t \in Good /\ t.cell = Put(st, [i \in Cells |-> EmptyCell], InRange(st, p0, p1))
  BY RmAnyIs DEF Becomes
<1> HIDE DEF t
<1>2. \A i \in Cells : t.cell[i] = EmptyCell \/ t.cell[i] = st.cell[i]
  BY <1>1 DEF Put
<1>3. Kept(st, t)
  BY <1>1, <1>2, EmptyIs DEF Kept, Stays
<1> QED BY <1>3 DEF t

LEMMA SeqKeepKept == ASSUME NEW st \in Good, NEW s \in Seqs PROVE Kept(st, SeqKeep(st, s))
<1> DEFINE t == SeqKeep(st, s)
<1>1. t \in Good /\ t.cell = Put(st, LeftCells(st, s), Cells) /\ st.cell \in [Cells -> Cell]
  BY SeqKeepIs, GoodCells, FitIsLoose DEF Becomes
<1> HIDE DEF t
<1>2. \A i \in Cells : t.cell[i] = EmptyCell \/ t.cell[i] = [st.cell[i] EXCEPT !.seqs = {s}]
  BY <1>1 DEF Put, LeftCells, Left
<1>3. ASSUME NEW i \in Cells
      PROVE  Stays(st, t, i)
  <2>1. st.cell[i] \in Cell
    BY <1>1
  <2>2. [st.cell[i] EXCEPT !.seqs = {s}].pos = st.cell[i].pos /\ [st.cell[i] EXCEPT !.seqs = {s}].shift = st.cell[i].shift
    BY <2>1 DEF Cell
  <2> QED BY <1>2, <2>2, EmptyIs DEF Stays
<1>4. Kept(st, t)
  BY <1>1, <1>3 DEF Kept
<1> QED BY <1>4 DEF t

LEMMA SeqCpKept ==
    ASSUME NEW st \in Good, NEW s, NEW d \in Seqs, NEW p0, NEW p1, \A i \in Cells : d \notin st.cell[i].seqs
    PROVE  Kept(st, SeqCp(st, s, d, p0, p1))
<1> DEFINE t == SeqCp(st, s, d, p0, p1)
<1>1. t \in Good /\ t.cell = Put(st, MoreCells(st, d), WithSeq(st, s, p0, p1)) /\ st.cell \in [Cells -> Cell]
  BY SeqCpIs, GoodCells, FitIsLoose DEF Becomes
<1> HIDE DEF t
<1>2. \A i \in Cells : t.cell[i] = st.cell[i] \/ t.cell[i] = [st.cell[i] EXCEPT !.seqs = @ \cup {d}]
  BY <1>1 DEF Put, MoreCells
<1>3. ASSUME NEW i \in Cells
      PROVE  Stays(st, t, i)
  <2> DEFINE c == [st.cell[i] EXCEPT !.seqs = @ \cup {d}]
  <2>1. st.cell[i] \in Cell
    BY <1>1
  <2>2. c.pos = st.cell[i].pos /\ c.shift = st.cell[i].shift
    BY <2>1 DEF Cell
  <2> QED BY <1>2, <2>2 DEF Stays
<1>4. Kept(st, t)
  BY <1>1, <1>3 DEF Kept
<1> QED BY <1>4 DEF t

LEMMA SeqAddKept ==
    ASSUME NEW st \in Good, NEW s, NEW p0, NEW p1, NEW d \in Int,
           \A i \in WithSeq(st, s, p0, p1) : st.cell[i].pos + d <= MaxPos
    PROVE  Kept(st, SeqAdd(st, s, p0, p1, d))
<1> DEFINE t == SeqAdd(st, s, p0, p1, d)
           S == WithSeq(st, s, p0, p1)
<1>1. /\ t \in Good /\ t.cell = Put(st, MovedCells(st, d), S) /\ st.cell \in [Cells -> Cell]
      /\ \A i \in S : st.cell[i].pos # -1
  BY SeqAddIs, GoodCells, FitIsLoose DEF Becomes, WithSeq, InRange, IsEmpty
<1> HIDE DEF t, S
<1>2. \A i \in Cells : t.cell[i] = st.cell[i] \/ (i \in S /\ t.cell[i] = Moved(st.cell[i], d))
  <2> TAKE i \in Cells
  <2>1. t.cell[i] = IF i \in S THEN MovedCells(st, d)[i] ELSE st.cell[i]
    BY <1>1 DEF Put
  <2>2. MovedCells(st, d)[i] = Moved(st.cell[i], d)
    BY DEF MovedCells
  <2> QED BY <2>1, <2>2
<1>3. ASSUME NEW i \in Cells
      PROVE  Stays(st, t, i)
  <2>1. st.cell[i].pos \in Int /\ st.cell[i].shift \in Int
    BY CellInts
  <2>2. CASE t.cell[i] = st.cell[i]
    BY <2>2 DEF Stays
  <2>3. CASE i \in S /\ t.cell[i] = Moved(st.cell[i], d)
    <3> DEFINE a == st.cell[i]
               m == [pos |-> a.pos + d, shift |-> a.shift + d, seqs |-> a.seqs]
    <3>1. t.cell[i] = EmptyCell \/ t.cell[i] = m
      BY <2>3 DEF Moved
    <3>2. m.pos = a.pos + d /\ m.shift = a.shift + d
      OBVIOUS
    <3>3. m.pos - m.shift = a.pos - a.shift
      <4> HIDE DEF m
      <4> QED BY <2>1, <3>2
    <3>4. a.pos # -1
      BY <1>1, <2>3
    <3> HIDE DEF m
    <3> QED BY <3>1, <3>3, <3>4, EmptyIs DEF Stays
  <2> QED BY <1>2, <2>2, <2>3
<1>4. Kept(st, t)
  BY <1>1, <1>3 DEF Kept
<1> QED BY <1>4 DEF t
-----------------------------------------------------------------------------
(* The steps keep the keys where they belong, without a window, divisions  *)
(* of positions and tokens of several sequences.                           *)

Keys ==
    /\ KeyedAll(stream, EachCopied(rope, copies))
    /\ pc # "idle" => copies = <<>>

LEMMA KeysTypes ==
    ASSUME KInv
    PROVE  /\ stream \in All /\ rope \in Ropes /\ copies \in Seq(Streams \X Streams)
           /\ EachCopied(rope, copies) \in Ropes /\ \A d \in Ropes : EachCopied(d, <<>>) = d
           /\ \A k \in Streams : stream[k] \in Good /\ EachCopied(rope, copies)[k] \in [Cells -> Int]
<1>1. stream \in All /\ rope \in Ropes /\ copies \in Seq(Streams \X Streams)
  BY DEF KInv
<1>2. EachCopied(rope, copies) \in Ropes
  BY <1>1, EachCopiedIs
<1>3. \A k \in Streams : stream[k] \in Good /\ EachCopied(rope, copies)[k] \in [Cells -> Int]
  BY <1>1, <1>2 DEF All, Ropes
<1> QED BY <1>1, <1>2, <1>3, CopiedNone

\* A caller's operation on one stream.
LEMMA SetKeys ==
    ASSUME KInv, Keys, NEW k \in Streams, NEW st, Kept(stream[k], st), Set(k, st), Only
    PROVE  Keys'
<1>1. stream' = [stream EXCEPT ![k] = st] /\ rope' = rope /\ copies' = copies /\ pc' = "idle"
  BY DEF Set, Only
<1> DEFINE d == EachCopied(rope, copies)
<1>2. stream \in All /\ \A l \in Streams : stream[l] \in Good /\ d[l] \in [Cells -> Int] /\ Keyed(stream[l], d[l])
  BY KeysTypes DEF Keys, KeyedAll
<1>3. EachCopied(rope', copies') = d
  BY <1>1
<1> HIDE DEF d
<1>4. Keyed(st, d[k])
  BY <1>2, KeptKeyed
<1>5. \A l \in Streams : Keyed(stream'[l], d[l])
  BY <1>1, <1>2, <1>4 DEF All
<1> QED BY <1>1, <1>3, <1>5 DEF Keys, KeyedAll

LEMMA RemoveSeqKeys == ASSUME KInv, Keys, NEW s \in Seqs, NEW r, RemoveSeq(s, r) PROVE Keys'
<1> DEFINE k == StreamOf(s)
           st == SeqRm(stream[k], s, r[1], r[2])
<1>1. k \in Streams /\ stream[k] \in Good
  BY StreamOfIs DEF KInv, All
<1>2. Set(k, st) /\ Only
  BY DEF RemoveSeq
<1>3. Thinner(stream[k], st)
  BY <1>1, ThinnerIs
<1> HIDE DEF k, st
<1>4. Kept(stream[k], st)
  BY <1>3, ThinnerKept
<1> QED BY <1>1, <1>2, <1>4, SetKeys

LEMMA RemoveAnyKeys == ASSUME KInv, Keys, NEW r, RemoveAny(r) PROVE Keys'
<1>1. /\ stream' = [k \in Streams |-> RmAny(stream[k], r[1], r[2])] /\ rope' = rope /\ copies' = copies /\ pc' = "idle"
  BY DEF RemoveAny, Only
<1> DEFINE d == EachCopied(rope, copies)
<1>2. \A l \in Streams : stream[l] \in Good /\ d[l] \in [Cells -> Int] /\ Keyed(stream[l], d[l])
  BY KeysTypes DEF Keys, KeyedAll
<1>3. EachCopied(rope', copies') = d
  BY <1>1
<1> HIDE DEF d
<1>4. ASSUME NEW l \in Streams
      PROVE  Keyed(stream'[l], d[l])
  <2> DEFINE t == RmAny(stream[l], r[1], r[2])
  <2>1. Kept(stream[l], t)
    BY <1>2, RmAnyKept
  <2>2. stream'[l] = t
    BY <1>1
  <2> HIDE DEF t
  <2> QED BY <1>2, <2>1, <2>2, KeptKeyed
<1> QED BY <1>1, <1>3, <1>4 DEF Keys, KeyedAll

LEMMA ClearKeys == ASSUME KInv, Keys, Clear PROVE Keys'
<1>1. stream' = [k \in Streams |-> EmptyStream] /\ pc' = "idle"
  BY DEF Clear, Only
<1>2. \A l \in Streams, i \in Cells : stream'[l].cell[i].pos = -1
  BY <1>1, EmptyStreamIs, EmptyIs
<1> QED BY <1>1, <1>2 DEF Keys, KeyedAll, Keyed

LEMMA KeepKeys == ASSUME KInv, Keys, NEW s \in Seqs, Keep(s) PROVE Keys'
<1> DEFINE k == StreamOf(s)
           st == SeqKeep(stream[k], s)
<1>1. k \in Streams /\ stream[k] \in Good
  BY StreamOfIs DEF KInv, All
<1>2. Set(k, st) /\ Only
  BY DEF Keep
<1>3. Kept(stream[k], st)
  BY <1>1, SeqKeepKept
<1> HIDE DEF k, st
<1> QED BY <1>1, <1>2, <1>3, SetKeys

LEMMA AddKeys == ASSUME KInv, Keys, NEW s \in Seqs, NEW r, NEW delta \in Deltas, Add(s, r, delta) PROVE Keys'
<1> DEFINE k == StreamOf(s)
           st == SeqAdd(stream[k], s, r[1], r[2], delta)
<1>1. k \in Streams /\ stream[k] \in Good
  BY StreamOfIs DEF KInv, All
<1>2. Set(k, st) /\ Only /\ \A i \in WithSeq(stream[k], s, r[1], r[2]) : stream[k].cell[i].pos + delta <= MaxPos
  BY DEF Add
<1>3. delta \in Int
  BY SizesAssumption
<1>4. Kept(stream[k], st)
  BY <1>1, <1>2, <1>3, SeqAddKept
<1> HIDE DEF k, st
<1> QED BY <1>1, <1>2, <1>4, SetKeys

\* A copy to another stream: its keys are copied too, before anything else is done with them.
LEMMA CopyKeys == ASSUME KInv, Keys, NEW s \in Seqs, NEW d \in Seqs, NEW r, Copy(s, d, r) PROVE Keys'
<1>1. CASE Unified
  <2> DEFINE st == SeqCp(stream[0], s, d, r[1], r[2])
  <2>1. SeqPosMax(stream[0], d) = -1 /\ Set(0, st) /\ Only
    BY <1>1 DEF Copy
  <2>2. 0 \in Streams /\ stream[0] \in Good
    BY <1>1 DEF Streams, KInv, All
  <2>3. \A i \in Cells : d \notin stream[0].cell[i].seqs
    BY <2>1, <2>2, SeqPosMaxIs
  <2>4. Kept(stream[0], st)
    BY <2>2, <2>3, SeqCpKept
  <2> HIDE DEF st
  <2> QED BY <2>1, <2>2, <2>4, SetKeys
<1>2. CASE ~Unified
  <2> DEFINE from == StreamOf(s)
             k == StreamOf(d)
             st == CopyStream(stream[from], s, d)
             e == <<from, k>>
             data == EachCopied(rope, copies)
             S == WithSeq(stream[from], s, 0, -1)
  <2>1. Set(k, st) /\ copies' = Append(copies, e) /\ UNCHANGED <<rope, pc, ubatches, sinfos>>
    BY <1>2 DEF Copy
  <2>2. /\ k \in Streams /\ from \in Streams /\ stream[from] \in Good /\ e \in Streams \X Streams /\ e[1] = from /\ e[2] = k
        /\ \A i \in S : i \in Cells /\ stream[from].cell[i].pos # -1
    BY StreamOfIs DEF KInv, All, WithSeq, InRange, IsEmpty
  <2>3. st.cell = Put(EmptyStream, CopiedCells(stream[from], d), S)
    BY <2>2, CopyStreamIs DEF Becomes
  <2> HIDE DEF from, k, st, e, data, S
  <2>4. /\ stream \in All /\ rope \in Ropes /\ copies \in Seq(Streams \X Streams) /\ data \in Ropes
        /\ \A l \in Streams : Keyed(stream[l], data[l])
    BY KeysTypes DEF Keys, KeyedAll, data
  <2>5. stream' = [stream EXCEPT ![k] = st] /\ pc' = "idle" /\ rope' = rope
    BY <2>1 DEF Set
  <2>6. EachCopied(rope', copies') = CopyData(data, e)
    BY <2>1, <2>2, <2>4, <2>5, CopiedMore DEF data
  <2>7. \A l \in Streams : CopyData(data, e)[l] = IF l = k THEN data[from] ELSE data[l]
    BY <2>2, <2>4, CopyDataIs
  <2>8. ASSUME NEW i \in Cells, st.cell[i].pos # -1
        PROVE  data[from][i] + st.cell[i].shift = st.cell[i].pos
    <3>1. i \in S
      <4>1. i \notin S => st.cell[i] = EmptyCell
        BY <2>3, EmptyStreamIs DEF Put
      <4> QED BY <2>8, <4>1, EmptyIs
    <3>2. st.cell[i] = CopiedCell(stream[from].cell[i], d)
      BY <2>3, <3>1 DEF Put, CopiedCells
    <3>3. st.cell[i].pos = stream[from].cell[i].pos /\ st.cell[i].shift = stream[from].cell[i].shift
      BY <3>2 DEF CopiedCell
    <3> QED BY <2>2, <2>4, <3>1, <3>3 DEF Keyed
  <2>9. ASSUME NEW l \in Streams
        PROVE  Keyed(stream'[l], EachCopied(rope', copies')[l])
    <3>1. CASE l = k
      <4>1. stream'[l] = st /\ EachCopied(rope', copies')[l] = data[from]
        BY <2>4, <2>5, <2>6, <2>7, <3>1 DEF All
      <4> QED BY <2>8, <4>1 DEF Keyed
    <3>2. CASE l # k
      <4>1. stream'[l] = stream[l] /\ EachCopied(rope', copies')[l] = data[l]
        BY <2>4, <2>5, <2>6, <2>7, <3>2 DEF All
      <4> QED BY <2>4, <4>1
    <3> QED BY <3>1, <3>2
  <2> QED BY <2>5, <2>9 DEF Keys, KeyedAll
<1> QED BY <1>1, <1>2

\* The shifts that are applied, or stay pending.
LEMMA ShiftKeys ==
    ASSUME NEW data \in Ropes, NEW all \in All, NEW b, Shift(data, all, b), KeyedAll(all, data)
    PROVE  KeyedAll(stream', rope')
<1>1. CASE b /\ HasShift(all)
  <2>1. /\ rope' = [k \in Streams |-> [i \in Cells |-> data[k][i] + all[k].cell[i].shift]]
        /\ stream' = [k \in Streams |-> Unshifted(all[k])]
    BY <1>1 DEF Shift
  <2>2. ASSUME NEW k \in Streams, NEW i \in Cells, stream'[k].cell[i].pos # -1
        PROVE  rope'[k][i] + stream'[k].cell[i].shift = stream'[k].cell[i].pos
    <3>1. all[k] \in Good /\ data[k][i] \in Int
      BY DEF All, Ropes
    <3>2. all[k].cell[i] \in Cell /\ all[k] \in StreamType
      BY <3>1, GoodCells, FitIsLoose DEF Fit
    <3>3. stream'[k].cell[i] = [all[k].cell[i] EXCEPT !.shift = 0]
      BY <2>1, <3>2 DEF Unshifted, StreamType
    <3>4. stream'[k].cell[i].pos = all[k].cell[i].pos /\ stream'[k].cell[i].shift = 0
      BY <3>2, <3>3 DEF Cell
    <3>5. rope'[k][i] = data[k][i] + all[k].cell[i].shift
      BY <2>1
    <3>6. rope'[k][i] = all[k].cell[i].pos
      BY <2>2, <3>4, <3>5 DEF KeyedAll, Keyed
    <3>7. all[k].cell[i].pos \in Int
      BY <3>1, CellInts
    <3> QED BY <3>4, <3>6, <3>7
  <2> QED BY <2>2 DEF KeyedAll, Keyed
<1>2. CASE ~(b /\ HasShift(all))
  BY <1>2 DEF Shift
<1> QED BY <1>1, <1>2

LEMMA DecodeKeys ==
    ASSUME KInv, Keys, NEW Q, NEW n, NEW shared, NEW shifted, Decode(Q, n, shared, shifted)
    PROVE  Keys'
<1>1. Shift(Copied(rope), stream, shifted) /\ copies' = <<>>
  BY DEF Decode
<1>2. Copied(rope) \in Ropes /\ stream \in All /\ KeyedAll(stream, Copied(rope))
  BY KeysTypes, CopiedEach DEF Keys
<1>3. KeyedAll(stream', rope') /\ rope' \in Ropes
  BY <1>1, <1>2, ShiftKeys, ShiftIs
<1> QED BY <1>1, <1>3, CopiedNone DEF Keys

\* Heads do not matter.
LEMMA SameKeys ==
    ASSUME NEW v, NEW w, Same(v, w), NEW d, KeyedAll(w, d)
    PROVE  KeyedAll(v, d)
BY DEF Same, KeyedAll, Keyed

LEMMA PrepareKeys == ASSUME Window = 0, KInv, Keys, Prepare PROVE Keys'
<1>1. stream' = Restored(Placed(stream)) /\ rope' = rope /\ copies' = copies /\ pc \in {"prepare", "retry"}
  BY DEF Prepare
<1>2. Same(stream', stream)
  BY <1>1, RestoredAgain DEF KInv
<1>3. KeyedAll(stream', EachCopied(rope, copies))
  BY <1>2, SameKeys DEF Keys
<1> QED BY <1>1, <1>3 DEF Keys

LEMMA PrepareFailsKeys == ASSUME Window = 0, KInv, Keys, NEW shifted, PrepareFails(shifted) PROVE Keys'
<1> DEFINE b == shifted /\ pc = "prepare"
<1>1. Shift(rope, Restored(Placed(stream)), b) /\ copies' = copies /\ pc \in {"prepare", "retry"}
  BY DEF PrepareFails
<1> HIDE DEF b
<1> DEFINE all == Restored(Placed(stream))
<1>2. Same(all, stream)
  BY RestoredAgain DEF KInv
<1> HIDE DEF all
<1>3. rope \in Ropes /\ all \in All /\ copies = <<>> /\ KeyedAll(all, rope)
  <2>1. rope \in Ropes /\ copies = <<>> /\ KeyedAll(stream, rope)
    BY <1>1, KeysTypes DEF Keys
  <2> QED BY <1>2, <2>1, SameKeys DEF Same
<1>4. KeyedAll(stream', rope') /\ rope' \in Ropes
  <2>1. Shift(rope, all, b)
    BY <1>1 DEF all
  <2> QED BY <1>3, <2>1, ShiftKeys, ShiftIs
<1> QED BY <1>1, <1>3, <1>4, CopiedNone DEF Keys

\* The keys of the other cells are not written.
LEMMA WrittenElse ==
    ASSUME KInv, pc = "apply", NEW k \in Streams, NEW i \in Cells, k \in DOMAIN Ubatch => i \notin Range(Sinfo[k])
    PROVE  Written[k][i] = rope[k][i]
<1>1. IF k \in DOMAIN Ubatch /\ Index(Sinfo[k], i) # 0
      THEN Written[k][i] = Ubatch[k][Index(Sinfo[k], i)].pos
      ELSE Written[k][i] = rope[k][i]
  BY WrittenIs
<1>2. ASSUME k \in DOMAIN Ubatch
      PROVE  Index(Sinfo[k], i) = 0
  <2>1. Sinfo[k] \in Seq(Cells) /\ DOMAIN Sinfo[k] = 1 .. Len(Sinfo[k])
    BY <1>2, HeadIs DEF Fits, Suits
  <2>2. Index(Sinfo[k], i) \in 0 .. Len(Sinfo[k]) /\ (Index(Sinfo[k], i) # 0 => Sinfo[k][Index(Sinfo[k], i)] = i)
    BY <2>1, IndexIs
  <2> QED BY <1>2, <2>1, <2>2 DEF Range
<1> QED BY <1>1, <1>2

\* Those of the slot are written for the positions of its tokens.
LEMMA WrittenSlot ==
    ASSUME KInv, pc = "apply", NEW k \in DOMAIN Ubatch, NEW i \in Cells, i \in Range(Sinfo[k])
    PROVE  \E j \in 1 .. Len(Sinfo[k]) : Sinfo[k][j] = i /\ Written[k][i] = Ubatch[k][j].pos
<1> DEFINE x == Index(Sinfo[k], i)
<1>1. Sinfo[k] \in Seq(Cells) /\ DOMAIN Sinfo[k] = 1 .. Len(Sinfo[k]) /\ k \in Streams
  BY HeadIs, UbatchIs DEF Fits, Suits
<1>2. x \in 0 .. Len(Sinfo[k]) /\ (x # 0 => Sinfo[k][x] = i) /\ (x = 0 => \A j \in 1 .. Len(Sinfo[k]) : Sinfo[k][j] # i)
  BY <1>1, IndexIs
<1>3. x # 0
  BY <1>1, <1>2 DEF Range
<1>4. Written[k][i] = Ubatch[k][x].pos
  BY <1>1, <1>3, WrittenIs
<1> HIDE DEF x
<1> QED BY <1>1, <1>2, <1>3, <1>4

LEMMA ProcessKeys == ASSUME KInv, Ready, Keys, Process PROVE Keys'
<1>1. pc = "apply" /\ stream' = Apply(stream, Sinfo, Ubatch) /\ rope' = Written /\ copies' = copies
  BY DEF Process
<1>2. /\ Ubatch \in Ubatches /\ Fits(Sinfo, Ubatch) /\ stream \in All /\ rope' \in Ropes /\ copies = <<>>
      /\ KeyedAll(stream, rope)
  BY <1>1, HeadIs, WrittenIs, KeysTypes DEF Keys
<1>3. AppliedInEmpty(stream, Sinfo, Ubatch, stream')
  <2>1. SlotEmpty(stream, Sinfo)
    <3>1. Sinfo = sinfos[1] /\ 1 \in 1 .. Len(ubatches)
      BY <1>1, HeadIs
    <3> QED BY <1>1, <3>1 DEF Ready
  <2> QED BY <1>1, <1>2, <2>1, ApplyInEmpty
<1>4. ASSUME NEW k \in Streams, NEW i \in Cells, stream'[k].cell[i].pos # -1
      PROVE  rope'[k][i] + stream'[k].cell[i].shift = stream'[k].cell[i].pos
  <2>1. CASE k \in DOMAIN Ubatch /\ i \in Range(Sinfo[k])
    <3>1. PICK j \in 1 .. Len(Sinfo[k]) : Sinfo[k][j] = i /\ Written[k][i] = Ubatch[k][j].pos
      BY <1>1, <2>1, WrittenSlot
    <3>2. InEmpty(stream[k], Sinfo[k], Ubatch[k], stream'[k]) /\ stream' \in All
      BY <1>3, <2>1 DEF AppliedInEmpty
    <3>3. stream'[k].cell[i] = TokenCell(Ubatch[k][j].pos, Ubatch[k][j].seqs)
      BY <3>1, <3>2 DEF InEmpty
    <3>4. stream'[k].cell[i].pos = Ubatch[k][j].pos /\ stream'[k].cell[i].shift = 0
      BY <3>3 DEF TokenCell
    <3>5. stream'[k].cell[i].pos \in Int
      BY <3>2, CellInts DEF All
    <3> QED BY <1>1, <3>1, <3>4, <3>5
  <2>2. CASE ~(k \in DOMAIN Ubatch /\ i \in Range(Sinfo[k]))
    <3>1. rope'[k][i] = rope[k][i]
      BY <1>1, <2>2, WrittenElse
    <3>2. stream'[k].cell[i] = stream[k].cell[i]
      BY <1>3, <2>2 DEF AppliedInEmpty, InEmpty
    <3> QED BY <1>2, <1>4, <3>1, <3>2 DEF KeyedAll, Keyed
  <2> QED BY <2>1, <2>2
<1>5. KeyedAll(stream', rope')
  BY <1>4 DEF KeyedAll, Keyed
<1> QED BY <1>1, <1>2, <1>5, CopiedNone DEF Keys

LEMMA ProcessFailsKeys == ASSUME ~Coupled, KInv, Ready, Keys, ProcessFails PROVE Keys'
<1> DEFINE all == Apply(stream, Sinfo, Ubatch)
<1>1. /\ pc = "apply" /\ (rope' = rope \/ rope' = Written) /\ copies' = copies /\ pc' = "idle"
      /\ stream' = [k \in Streams |-> IF k \in DOMAIN Ubatch THEN RemoveFrom(all[k], Ubatch[k]) ELSE all[k]]
  BY DEF ProcessFails
<1>2. /\ Ubatch \in Ubatches /\ Fits(Sinfo, Ubatch) /\ stream \in All /\ rope \in Ropes /\ rope' \in Ropes /\ copies = <<>>
      /\ KeyedAll(stream, rope)
  BY <1>1, HeadIs, WrittenIs, KeysTypes DEF Keys
<1>3. AppliedInEmpty(stream, Sinfo, Ubatch, all)
  <2>1. SlotEmpty(stream, Sinfo)
    <3>1. Sinfo = sinfos[1] /\ 1 \in 1 .. Len(ubatches)
      BY <1>1, HeadIs
    <3> QED BY <1>1, <3>1 DEF Ready
  <2> QED BY <1>2, <2>1, ApplyInEmpty
<1> HIDE DEF all
<1>4. stream' \in All
  BY ProcessFailsKInv DEF KInv
<1>5. FailureRemoves
  BY FailureRemovesIs DEF Next
<1>6. ASSUME NEW k \in DOMAIN Ubatch, NEW i \in Cells, i \in Range(Sinfo[k])
      PROVE  stream'[k].cell[i].pos = -1
  <2>1. k \in Streams /\ k \in DOMAIN Sinfo /\ Suits(Sinfo[k], Ubatch[k]) /\ Ubatch[k] \in Seq(Batched)
    BY <1>2, UbatchIs DEF Fits
  <2>2. PICK j \in DOMAIN Sinfo[k] : Sinfo[k][j] = i
    BY <1>6 DEF Range
  <2>3. stream'[k].cell[i].seqs \subseteq Ubatch[k][j].seqs \ {Min(Ubatch[k][j].seqs)}
    BY <1>1, <1>5, <2>1, <2>2 DEF FailureRemoves
  <2>4. Ubatch[k][j] \in Batched
    BY <2>1, <2>2 DEF Suits
  <2>5. PICK s \in Seqs : Ubatch[k][j].seqs = {s}
    BY <2>4 DEF Batched
  <2>6. Min({s}) = s
    <3>1. {s} \in SUBSET Nat /\ {s} # {}
      BY SizesAre DEF Seqs
    <3>2. Min({s}) \in {s}
      BY <3>1, MinIs
    <3> QED BY <3>2
  <2>7. stream'[k].cell[i].seqs = {} /\ stream'[k] \in Good
    BY <1>4, <2>1, <2>3, <2>5, <2>6 DEF All
  <2> QED BY <2>7, GoodCells
<1>7. ASSUME NEW k \in Streams, NEW i \in Cells, ~(k \in DOMAIN Ubatch /\ i \in Range(Sinfo[k]))
      PROVE  rope'[k][i] = rope[k][i] /\ Stays(stream[k], stream'[k], i)
  <2>1. rope'[k][i] = rope[k][i]
    BY <1>1, <1>7, WrittenElse
  <2>2. all[k].cell[i] = stream[k].cell[i] /\ all[k] \in Good
    BY <1>3, <1>7 DEF AppliedInEmpty, InEmpty, All
  <2>3. Kept(all[k], stream'[k])
    <3>1. CASE k \in DOMAIN Ubatch
      <4>1. Ubatch[k] \in Seq(Token)
        BY <1>2, <3>1, UbatchIs
      <4>2. Thinner(all[k], RemoveFrom(all[k], Ubatch[k]))
        BY <2>2, <4>1, RemoveFromIs DEF RemovedFrom
      <4> QED BY <1>1, <3>1, <4>2, ThinnerKept
    <3>2. CASE k \notin DOMAIN Ubatch
      BY <1>1, <2>2, <3>2, ThinnerSelf, ThinnerKept
    <3> QED BY <3>1, <3>2
  <2> QED BY <2>1, <2>2, <2>3 DEF Kept, Stays
<1>8. ASSUME NEW k \in Streams, NEW i \in Cells, stream'[k].cell[i].pos # -1
      PROVE  rope'[k][i] + stream'[k].cell[i].shift = stream'[k].cell[i].pos
  <2>1. rope'[k][i] = rope[k][i] /\ Stays(stream[k], stream'[k], i)
    BY <1>6, <1>7, <1>8
  <2>2. /\ stream[k].cell[i].pos # -1
        /\ stream'[k].cell[i].pos - stream'[k].cell[i].shift = stream[k].cell[i].pos - stream[k].cell[i].shift
    BY <1>8, <2>1 DEF Stays
  <2>3. rope[k][i] + stream[k].cell[i].shift = stream[k].cell[i].pos
    BY <1>2, <2>2 DEF KeyedAll, Keyed
  <2>4. /\ stream[k].cell[i].pos \in Int /\ stream[k].cell[i].shift \in Int /\ rope[k][i] \in Int
        /\ stream'[k].cell[i].pos \in Int /\ stream'[k].cell[i].shift \in Int
    <3>1. stream[k] \in Good /\ stream'[k] \in Good /\ rope[k] \in [Cells -> Int]
      BY <1>2, <1>4 DEF All, Ropes
    <3> QED BY <3>1, CellInts
  <2> QED BY <2>1, <2>2, <2>3, <2>4
<1>9. KeyedAll(stream', rope')
  BY <1>8 DEF KeyedAll, Keyed
<1> QED BY <1>1, <1>2, <1>9, CopiedNone DEF Keys

LEMMA KeysStay ==
    Window = 0 /\ Divisors = {} /\ ~Coupled /\ KInv /\ Ready /\ Keys /\ [Next]_vars => Keys'
<1> SUFFICES ASSUME Window = 0, Divisors = {}, ~Coupled, KInv, Ready, Keys, [Next]_vars PROVE Keys'
  OBVIOUS
<1>1. CASE UNCHANGED vars
  BY <1>1 DEF vars, Keys, KeyedAll
<1>2. CASE Clear
  BY <1>2, ClearKeys
<1>3. ASSUME NEW r \in Ranges, RemoveAny(r) PROVE Keys'
  BY <1>3, RemoveAnyKeys
<1>4. ASSUME NEW r \in Ranges, NEW s \in Seqs, RemoveSeq(s, r) PROVE Keys'
  BY <1>4, RemoveSeqKeys
<1>5. ASSUME NEW r \in Ranges, NEW s \in Seqs, NEW d \in Seqs, Copy(s, d, r) PROVE Keys'
  BY <1>5, CopyKeys
<1>6. ASSUME NEW r \in Ranges, NEW s \in Seqs, NEW delta \in Deltas, Add(s, r, delta) PROVE Keys'
  BY <1>6, AddKeys
<1>7. ASSUME NEW s \in Seqs, Keep(s) PROVE Keys'
  BY <1>7, KeepKeys
<1>8. ASSUME NEW Q, NEW n, NEW shared, NEW shifted, Decode(Q, n, shared, shifted) PROVE Keys'
  BY <1>8, DecodeKeys
<1>9. CASE Prepare
  BY <1>9, PrepareKeys
<1>10. ASSUME NEW shifted, PrepareFails(shifted) PROVE Keys'
  BY <1>10, PrepareFailsKeys
<1>11. CASE Process
  BY <1>11, ProcessKeys
<1>12. CASE ProcessFails
  BY <1>12, ProcessFailsKeys
<1> QED BY <1>1, <1>2, <1>3, <1>4, <1>5, <1>6, <1>7, <1>8, <1>9, <1>10, <1>11, <1>12 DEF Next

\* The keys of every used cell are rotated for its position, once the pending copies and
\* shifts are applied (llama-kv-cells.h:469): without a window, divisions of positions, or
\* tokens of several sequences.
THEOREM SpecKeysMatchPositions ==
    ASSUME Window = 0, Divisors = {}, ~Coupled
    PROVE  Spec => []KeysMatchPositions
<1>1. Init => Keys
  <2>1. Init => \A k \in Streams, i \in Cells : stream[k].cell[i].pos = -1
    BY EmptyStreamIs, EmptyIs DEF Init
  <2> QED BY <2>1 DEF Init, Keys, KeyedAll, Keyed
<1>2. Init => Ready
  BY DEF Init, Ready
<1>3. KInv /\ Ready /\ [Next]_vars => Ready'
  BY ReadyStays
<1>4. KInv /\ Ready /\ Keys /\ [Next]_vars => Keys'
  BY KeysStay
<1>5. Keys => KeysMatchPositions
  BY CopiedEach DEF Keys, KeyedAll, Keyed, KeysMatchPositions, IsEmpty
<1> QED BY <1>1, <1>2, <1>3, <1>4, <1>5, SpecKInv, PTL DEF Spec
=============================================================================
