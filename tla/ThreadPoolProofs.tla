-------------------------- MODULE ThreadPoolProofs --------------------------
(***************************************************************************)
(* Theorems of ThreadPool, for any number of threads, any graphs, any      *)
(* number of chunks and of graphs computed.                                *)
(***************************************************************************)
EXTENDS ThreadPool, FiniteSetTheorems, SequenceTheorems, TLAPS

(* The barrier a thread comes to next, as <<node, after>>, in a graph g    *)
(* that is aborted at a.  Threads may be at different nodes, as empty ones *)
(* are skipped without a barrier; what they have in common is that barrier. *)

\* A thread at node i of the loop skips it unless ...
Stops(g, a, i) == i >= Len(g) \/ i = a \/ g[i + 1] # "nop"
First(g, a, i) == CHOOSE w \in i .. i + Len(g) : Stops(g, a, w) /\ \A k \in i .. w - 1 : ~Stops(g, a, k)

\* from the work of a node, and from the top of the loop
Closes(g, i)    == IF i + 1 < Len(g) THEN <<i, "next">> ELSE <<i + 1, "end">>
Meets(g, a, w)  ==
    IF w >= Len(g) \/ w = a THEN <<w, "end">>
    ELSE IF g[w + 1] = "mul_mat" THEN <<w, "chunks">>
    ELSE Closes(g, IF g[w + 1] = "fuse" THEN w + 1 ELSE w)
From(g, a, i)   == Meets(g, a, First(g, a, i))
Out             == <<0, "out">>

\* A thread with the state x, which has not seen the graph of the pool p; that spins in a
\* barrier that is open, or that is not.
Unseen(p, x, t) == t # 0 /\ x.last_graph # <<p.count, p.n_threads>>
Late(p, x)      == x.pc = "spin" /\ x.n_passed # p.n_barrier_passed
Waiting(p, x)   == x.pc = "spin" /\ x.n_passed = p.n_barrier_passed
Inside(p, x)    == x.pc \in AtWork \cup {"barrier", "arrive", "reset", "release"} \/ Waiting(p, x)

\* The barrier thread t comes to next or is in; Out when it is done with the graph.
Next_barrier(p, x, t) ==
    IF Unseen(p, x, t) THEN From(p.graph, p.abort, 0)
    ELSE IF x.pc = "node" THEN From(p.graph, p.abort, x.node)
    ELSE IF x.pc \in AtWork THEN Closes(p.graph, x.node)
    ELSE IF Inside(p, x) THEN <<x.node, x.after>>
    ELSE IF Late(p, x) /\ x.after = "next" THEN From(p.graph, p.abort, x.node + 1)
    ELSE IF Late(p, x) /\ x.after = "chunks" THEN Closes(p.graph, x.node)
    ELSE Out

-----------------------------------------------------------------------------
(* The invariant.                                                          *)

Pool  == [graph : Graphs \cup {<<>>}, count : 0 .. MaxGraphs, n_threads : 0 .. NumThreads,
          n_barrier : 0 .. NumThreads, n_barrier_passed : Nat, current_chunk : Nat,
          stop : BOOLEAN, pause : BOOLEAN, abort : Int]
State == [pc : {"idle", "kickoff", "join", "exit", "loop", "check", "poll", "lock", "asleep", "paused",
                "node", "computed", "chunk", "take", "barrier", "arrive", "reset", "release", "spin"},
          last_graph : Nat \X (0 .. NumThreads), node : Nat, chunk : Nat, n_passed : Nat,
          after : {"next", "chunks", "end"}]

Owner_pcs  == {"idle", "kickoff", "join"}
Worker_pcs == {"loop", "check", "poll", "lock", "asleep", "paused"}
Part       == {t \in Threads : t < tp.n_threads}
Waiters    == {t \in Threads : Waiting(tp, th[t])}

\* All threads of the graph are on the way to the same barrier, or done.
Together == \A t \in Part : Next_barrier(tp, th[t], t) = Next_barrier(tp, th[0], 0)

\* Only threads of the graph that have seen it work on it.
Member(p, x, t) ==
    /\ Inside(p, x) \/ (Late(p, x) /\ x.after # "end") => t < p.n_threads /\ ~Unseen(p, x, t)
    /\ t # 0 => x.pc \notin Owner_pcs
    /\ t = 0 => x.pc \notin Worker_pcs
    /\ x.last_graph[1] <= p.count
    /\ x.last_graph[1] = p.count => ~Unseen(p, x, t)
Members == \A t \in Threads : Member(tp, th[t], t)

\* The barrier: who has arrived has read the current round, and who was the last one
\* has the others waiting; n_barrier counts them.
Round == \A t \in Threads :
    /\ th[t].pc = "arrive" => th[t].n_passed = tp.n_barrier_passed
    /\ th[t].pc = "spin" => th[t].n_passed <= tp.n_barrier_passed
Last == \A t \in Threads :
    /\ th[t].pc \in {"reset", "release"} => \A u \in Part \ {t} : Waiting(tp, th[u])
    /\ th[t].pc = "release" => tp.n_barrier = 0
Counted ==
    (\A t \in Threads : th[t].pc \notin {"reset", "release"}) => tp.n_barrier = Cardinality(Waiters)

Inv ==
    /\ TypeOK /\ Together /\ Members /\ Round /\ Last /\ Counted
    /\ th[0].pc = "kickoff" => tp.count < MaxGraphs

-----------------------------------------------------------------------------
(* Lemmas about the walk over the nodes.                                   *)

\* First(g, a, i) is the first node from i on where a thread stops.
LEMMA FirstIs ==
    ASSUME NEW g \in Seq(Kinds), NEW a \in Int, NEW i \in Nat
    PROVE  /\ First(g, a, i) \in Nat /\ First(g, a, i) >= i
           /\ Stops(g, a, First(g, a, i))
           /\ \A k \in i .. First(g, a, i) - 1 : ~Stops(g, a, k)
<1>. DEFINE S == {w \in i .. i + Len(g) : Stops(g, a, w)}
            R == {ss \in Nat \X Nat : ss[1] < ss[2]}
<1>1. Len(g) \in Nat
  BY LenProperties
<1>2. i + Len(g) \in S
  BY <1>1 DEF Stops
<1>3. S \in SUBSET Nat /\ S # {}
  BY <1>1, <1>2
<1>4. IsWellFoundedOn(R, Nat)
  BY NatLessThanWellFounded DEF OpToRel
<1>5. PICK w \in S : \A m \in S : ~ (<<m, w>> \in R)
  BY <1>3, <1>4, WFMin
<1>6. w \in i .. i + Len(g) /\ Stops(g, a, w)
  OBVIOUS
<1>7. ASSUME NEW k \in i .. w - 1, Stops(g, a, k)
      PROVE  FALSE
  <2>1. k \in S
    BY <1>1, <1>6, <1>7
  <2>2. <<k, w>> \in Nat \X Nat /\ <<k, w>>[1] < <<k, w>>[2]
    BY <1>1, <1>6
  <2>3. <<k, w>> \in R
    BY <2>2, Zenon
  <2>. QED
    BY <1>5, <2>1, <2>3, Zenon
<1>. HIDE DEF S, R
<1>8. \E v \in i .. i + Len(g) : Stops(g, a, v) /\ \A k \in i .. v - 1 : ~Stops(g, a, k)
  BY <1>6, <1>7
<1>9. /\ First(g, a, i) \in i .. i + Len(g)
      /\ Stops(g, a, First(g, a, i)) /\ \A k \in i .. First(g, a, i) - 1 : ~Stops(g, a, k)
  BY <1>8, Zenon DEF First
<1>. QED
  BY <1>1, <1>9

\* ... and the only one.
LEMMA FirstUnique ==
    ASSUME NEW g \in Seq(Kinds), NEW a \in Int, NEW i \in Nat, NEW w \in Nat,
           w >= i, Stops(g, a, w), \A k \in i .. w - 1 : ~Stops(g, a, k)
    PROVE  First(g, a, i) = w
<1>1. /\ First(g, a, i) \in Nat /\ First(g, a, i) >= i
      /\ Stops(g, a, First(g, a, i))
      /\ \A k \in i .. First(g, a, i) - 1 : ~Stops(g, a, k)
  BY FirstIs
<1>2. ~(First(g, a, i) < w)
  BY <1>1
<1>3. ~(w < First(g, a, i))
  BY <1>1
<1>. QED
  BY <1>1, <1>2, <1>3

LEMMA StopsHere ==
    ASSUME NEW g \in Seq(Kinds), NEW a \in Int, NEW i \in Nat, Stops(g, a, i)
    PROVE  From(g, a, i) = Meets(g, a, i)
<1>1. First(g, a, i) = i
  BY FirstUnique
<1>. QED
  BY <1>1 DEF From

LEMMA GoesOn ==
    ASSUME NEW g \in Seq(Kinds), NEW a \in Int, NEW i \in Nat, ~Stops(g, a, i)
    PROVE  From(g, a, i) = From(g, a, i + 1)
<1>. DEFINE w == First(g, a, i + 1)
<1>1. /\ w \in Nat /\ w >= i + 1 /\ Stops(g, a, w)
      /\ \A k \in i + 1 .. w - 1 : ~Stops(g, a, k)
  BY FirstIs
<1>. HIDE DEF w
<1>2. \A k \in i .. w - 1 : k = i \/ k \in i + 1 .. w - 1
  BY <1>1
<1>3. \A k \in i .. w - 1 : ~Stops(g, a, k)
  BY <1>1, <1>2
<1>4. First(g, a, i) = w
  BY <1>1, <1>3, FirstUnique
<1>. QED
  BY <1>4 DEF From, w

\* A thread on the way to a barrier is not done.
LEMMA NeverOut ==
    ASSUME NEW g \in Seq(Kinds), NEW a \in Int, NEW i \in Nat
    PROVE  /\ Closes(g, i) # Out
           /\ From(g, a, i) # Out
<1>1. \A j : Closes(g, j) # Out
  BY DEF Closes, Out
<1>2. \A w : Meets(g, a, w) # Out
  BY <1>1 DEF Meets, Out
<1>. QED
  BY <1>1, <1>2 DEF From

LEMMA ClosesInjective ==
    ASSUME NEW g \in Seq(Kinds), NEW i \in Nat, NEW j \in Nat, Closes(g, i) = Closes(g, j)
    PROVE  i = j
<1>1. Len(g) \in Nat
  BY LenProperties
<1>. QED
  BY <1>1 DEF Closes

\* An abort from the node after n on, set while the work on n goes on, changes the way
\* of no thread that is still on the way to the barrier that closes n.
LEMMA AbortKeeps ==
    ASSUME NEW g \in Seq(Kinds), NEW a \in Int, NEW i \in Nat, NEW n \in Nat,
           From(g, a, i) = Closes(g, n)
    PROVE  From(g, n + 1, i) = Closes(g, n)
<1>. DEFINE w == First(g, a, i)
            v == IF g[w + 1] = "fuse" THEN w + 1 ELSE w
<1>1. /\ w \in Nat /\ w >= i /\ Stops(g, a, w)
      /\ \A k \in i .. w - 1 : ~Stops(g, a, k)
  BY FirstIs
<1>2. Meets(g, a, w) = Closes(g, n)
  BY DEF From
<1>3. Len(g) \in Nat
  BY LenProperties
<1>. HIDE DEF w
<1>4. ASSUME Stops(g, n + 1, w), w <= n + 1
      PROVE  First(g, n + 1, i) = w
  <2>1. \A k \in i .. w - 1 : ~Stops(g, n + 1, k)
    BY <1>1, <1>4 DEF Stops
  <2>. QED
    BY <1>1, <1>4, <2>1, FirstUnique
<1>5. CASE w >= Len(g) \/ w = a
  <2>1. Closes(g, n) = <<w, "end">>
    BY <1>2, <1>5 DEF Meets
  <2>2. w = n + 1
    BY <1>1, <1>3, <2>1 DEF Closes
  <2>3. First(g, n + 1, i) = w
    BY <1>4, <2>2, <1>1 DEF Stops
  <2>. QED
    BY <2>1, <2>2, <2>3 DEF From, Meets
<1>6. CASE ~(w >= Len(g) \/ w = a)
  <2>1. g[w + 1] # "mul_mat" /\ Closes(g, v) = Closes(g, n)
    BY <1>2, <1>3, <1>6, Zenon DEF Meets, Closes
  <2>2. v \in Nat /\ w <= v
    BY <1>1
  <2>3. v = n
    BY <2>1, <2>2, ClosesInjective
  <2>4. w <= n /\ w < Len(g) /\ g[w + 1] # "nop"
    BY <1>1, <1>3, <1>6, <2>2, <2>3 DEF Stops
  <2>5. First(g, n + 1, i) = w
    BY <1>1, <1>4, <2>4 DEF Stops
  <2>6. Meets(g, n + 1, w) = Closes(g, v)
    BY <1>1, <1>3, <2>1, <2>4 DEF Meets
  <2>. QED
    BY <2>3, <2>5, <2>6 DEF From
<1>. QED
  BY <1>5, <1>6

-----------------------------------------------------------------------------
(* Lemmas about the threads of a state.                                    *)

LEMMA Types ==
    ASSUME TypeOK
    PROVE  /\ tp \in Pool /\ th \in [Threads -> State]
           /\ tp.graph \in Seq(Kinds) /\ tp.abort \in Int
           /\ tp.count \in Nat /\ tp.n_threads \in Nat /\ tp.n_barrier_passed \in Nat /\ tp.n_barrier \in Nat
           /\ NumThreads \in Nat \ {0} /\ MaxGraphs \in Nat
           /\ 0 \in Threads
           /\ Len(tp.graph) \in Nat
<1>1. tp \in Pool /\ th \in [Threads -> State]
  BY DEF TypeOK, Pool, State
<1>2. tp.graph \in Seq(Kinds)
  <2>1. tp.graph \in Graphs \cup {<<>>}
    BY <1>1 DEF Pool
  <2>2. <<>> \in Seq(Kinds)
    BY EmptySeq
  <2>. QED
    BY <2>1, <2>2, PoolAssumption
<1>. QED
  BY <1>1, <1>2, PoolAssumption, LenProperties DEF Pool, Threads

\* All the threads that take part have thread 0 with them.
LEMMA OwnerTakesPart ==
    ASSUME TypeOK, Part # {}
    PROVE  0 \in Part
BY Types DEF Part, Threads

\* The next barrier of a thread, by what it does.
LEMMA WhereTo ==
    ASSUME TypeOK, NEW p \in Pool, NEW x \in State, NEW t \in Threads
    PROVE  /\ Unseen(p, x, t) => Next_barrier(p, x, t) = From(p.graph, p.abort, 0)
           /\ ~Unseen(p, x, t) =>
                /\ x.pc = "node" => Next_barrier(p, x, t) = From(p.graph, p.abort, x.node)
                /\ x.pc \in AtWork \ {"node"} => Next_barrier(p, x, t) = Closes(p.graph, x.node)
                /\ x.pc \in {"barrier", "arrive", "reset", "release"} \/ Waiting(p, x) =>
                      Next_barrier(p, x, t) = <<x.node, x.after>>
                /\ Late(p, x) =>
                      Next_barrier(p, x, t) = CASE x.after = "next"   -> From(p.graph, p.abort, x.node + 1)
                                                [] x.after = "chunks" -> Closes(p.graph, x.node)
                                                [] x.after = "end"    -> Out
                /\ x.pc \in Owner_pcs \cup Worker_pcs \cup {"exit"} => Next_barrier(p, x, t) = Out
<1>. x.after \in {"next", "chunks", "end"}
  BY DEF State
<1>1. CASE Unseen(p, x, t)
  BY <1>1 DEF Next_barrier
<1>2. CASE ~Unseen(p, x, t) /\ x.pc \in AtWork
  BY <1>2 DEF Next_barrier, AtWork, Waiting, Late, Owner_pcs, Worker_pcs
<1>3. CASE ~Unseen(p, x, t) /\ (x.pc \in {"barrier", "arrive", "reset", "release"} \/ Waiting(p, x))
  BY <1>3 DEF Next_barrier, AtWork, Waiting, Late, Owner_pcs, Worker_pcs, Inside
<1>4. CASE ~Unseen(p, x, t) /\ Late(p, x)
  BY <1>4 DEF Next_barrier, AtWork, Waiting, Late, Owner_pcs, Worker_pcs, Inside
<1>5. CASE ~Unseen(p, x, t) /\ x.pc \in Owner_pcs \cup Worker_pcs \cup {"exit"}
  BY <1>5 DEF Next_barrier, AtWork, Waiting, Late, Owner_pcs, Worker_pcs, Inside
<1>. QED
  BY <1>1, <1>2, <1>3, <1>4, <1>5 DEF AtWork, Waiting, Late, Owner_pcs, Worker_pcs

\* A thread is done with the graph when it has seen it and is neither inside nor let go into its midst.
LEMMA DoneIsOut ==
    ASSUME TypeOK, NEW p \in Pool, p.graph \in Seq(Kinds), NEW x \in State, NEW t \in Threads
    PROVE  Next_barrier(p, x, t) = Out <=>
             ~Unseen(p, x, t) /\ ~Inside(p, x) /\ ~(Late(p, x) /\ x.after # "end")
<1>1. x.after \in {"next", "chunks", "end"} /\ x.node \in Nat /\ x.node + 1 \in Nat /\ p.abort \in Int
  BY DEF State, Pool
<1>2. CASE Unseen(p, x, t)
  BY <1>1, <1>2, NeverOut DEF Next_barrier
<1>3. CASE ~Unseen(p, x, t) /\ x.pc \in AtWork
  BY <1>1, <1>3, NeverOut DEF Next_barrier, Inside
<1>4. CASE ~Unseen(p, x, t) /\ x.pc \notin AtWork /\ Inside(p, x)
  <2>1. Next_barrier(p, x, t) = <<x.node, x.after>>
    BY <1>4 DEF Next_barrier, AtWork
  <2>. QED
    BY <1>1, <1>4, <2>1 DEF Out
<1>5. CASE ~Unseen(p, x, t) /\ ~Inside(p, x)
  <2>1. x.pc # "node" /\ x.pc \notin AtWork
    BY <1>5 DEF Inside, AtWork
  <2>2. CASE Late(p, x) /\ x.after = "next"
    BY <1>1, <1>5, <2>1, <2>2, NeverOut DEF Next_barrier
  <2>3. CASE Late(p, x) /\ x.after = "chunks"
    BY <1>1, <1>5, <2>1, <2>3, NeverOut DEF Next_barrier
  <2>4. CASE ~(Late(p, x) /\ x.after # "end")
    BY <1>1, <1>5, <2>1, <2>4 DEF Next_barrier
  <2>. QED
    BY <1>1, <2>2, <2>3, <2>4
<1>. QED
  BY <1>2, <1>3, <1>4, <1>5

\* While thread 0 is between two graphs, nobody is inside the last one.
LEMMA AllOut ==
    ASSUME Inv, th[0].pc \in Owner_pcs, NEW t \in Threads
    PROVE  ~Inside(tp, th[t]) /\ ~(Late(tp, th[t]) /\ th[t].after # "end")
<1>1. CASE t \in Part
  <2>1. 0 \in Part /\ 0 \in Threads /\ th[0] \in State /\ th[t] \in State /\ tp \in Pool /\ tp.graph \in Seq(Kinds)
    BY <1>1, OwnerTakesPart, Types DEF Inv
  <2>2. Next_barrier(tp, th[0], 0) = Out
    BY <2>1, WhereTo DEF Inv, Unseen
  <2>3. Next_barrier(tp, th[t], t) = Out
    BY <1>1, <2>2 DEF Inv, Together
  <2>. QED
    BY <2>1, <2>3, DoneIsOut DEF Inv
<1>2. CASE t \notin Part
  BY <1>2 DEF Inv, Members, Member, Part
<1>. QED
  BY <1>1, <1>2

-----------------------------------------------------------------------------
(* Lemmas about steps.                                                     *)

\* What thread u is on the way to is the same as before.
Keeps(u) == Next_barrier(tp', th'[u], u) = Next_barrier(tp, th[u], u)

LEMMA TogetherStep ==
    ASSUME Inv, tp'.n_threads = tp.n_threads, \A u \in Part : Keeps(u)
    PROVE  Together'
<1>1. Part' = Part
  BY DEF Part
<1>2. CASE Part = {}
  BY <1>1, <1>2 DEF Together
<1>3. CASE Part # {}
  <2>1. 0 \in Part
    BY <1>3, OwnerTakesPart DEF Inv
  <2>. QED
    BY <1>1, <2>1 DEF Together, Inv, Keeps
<1>. QED
  BY <1>2, <1>3

\* Fields of the pool that tell where a thread is.
SameRound == /\ tp'.count = tp.count /\ tp'.n_threads = tp.n_threads
             /\ tp'.n_barrier_passed = tp.n_barrier_passed

LEMMA SameKeeps ==
    ASSUME SameRound, tp'.graph = tp.graph, tp'.abort = tp.abort, NEW u \in Threads, th'[u] = th[u]
    PROVE  Keeps(u)
BY DEF SameRound, Keeps, Next_barrier, Unseen, Late, Inside, Waiting

LEMMA SameMember ==
    ASSUME SameRound, NEW u \in Threads, NEW x, Member(tp, x, u)
    PROVE  Member(tp', x, u)
BY DEF SameRound, Member, Unseen, Late, Inside, Waiting

\* A step of thread t that neither enters nor leaves the counting of the barrier.
LEMMA ThreadStep ==
    ASSUME Inv, NEW t \in Threads, NEW y \in State, th' = [th EXCEPT ![t] = y],
           tp' \in Pool, SameRound, tp'.n_barrier = tp.n_barrier,
           th[t].pc \notin {"arrive", "reset", "release"}, ~Waiting(tp, th[t]),
           y.pc \notin {"kickoff", "reset", "release", "spin"},
           y.pc = "arrive" => y.n_passed = tp.n_barrier_passed,
           Member(tp, y, t), Together'
    PROVE  Inv'
<1>1. TypeOK' /\ th \in [Threads -> State] /\ th'[t] = y /\ \A u \in Threads \ {t} : th'[u] = th[u]
  BY Types DEF Inv, TypeOK, Pool, State
<1>2. Part' = Part
  BY DEF Part, SameRound
<1>3. ~Waiting(tp', th'[t]) /\ \A u \in Threads \ {t} : Waiting(tp', th'[u]) <=> Waiting(tp, th[u])
  BY <1>1 DEF Waiting, SameRound
<1>4. Members'
  <2>1. \A u \in Threads : Member(tp, th'[u], u)
    BY <1>1 DEF Inv, Members
  <2>. QED
    BY <2>1, SameMember DEF Members
<1>5. Round'
  BY <1>1 DEF Inv, Round, SameRound
<1>6. Last'
  <2>1. ASSUME NEW u \in Threads, th'[u].pc \in {"reset", "release"}
        PROVE  \A v \in Part' \ {u} : Waiting(tp', th'[v])
    <3>1. u # t /\ th[u].pc \in {"reset", "release"}
      BY <1>1, <2>1
    <3>2. \A v \in Part \ {u} : Waiting(tp, th[v])
      BY <3>1 DEF Inv, Last
    <3>3. \A v \in Part \ {u} : v # t
      BY <3>2
    <3>. QED
      BY <1>2, <1>3, <3>2, <3>3 DEF Part
  <2>2. ASSUME NEW u \in Threads, th'[u].pc = "release"
        PROVE  tp'.n_barrier = 0
    BY <1>1, <2>2 DEF Inv, Last
  <2>. QED
    BY <2>1, <2>2 DEF Last
<1>7. Counted'
  <2>1. Waiters' = Waiters
    BY <1>3 DEF Waiters
  <2>2. (\A u \in Threads : th'[u].pc \notin {"reset", "release"}) => (\A u \in Threads : th[u].pc \notin {"reset", "release"})
    BY <1>1
  <2>. QED
    BY <2>1, <2>2 DEF Inv, Counted
<1>8. th'[0].pc = "kickoff" => tp'.count < MaxGraphs
  <2>1. th'[0].pc = "kickoff" => th[0].pc = "kickoff"
    BY <1>1, Types DEF Inv
  <2>. QED
    BY <2>1 DEF Inv, SameRound
<1>. QED
  BY <1>1, <1>4, <1>5, <1>6, <1>7, <1>8 DEF Inv

-----------------------------------------------------------------------------
(* The steps of a thread, outside the counting of the barrier.             *)

\* What is known of a thread that works on the graph.
LEMMA AtWorkIs ==
    ASSUME Inv, NEW t \in Threads, Inside(tp, th[t]) \/ (Late(tp, th[t]) /\ th[t].after # "end")
    PROVE  t \in Part /\ ~Unseen(tp, th[t], t) /\ 0 \in Part
<1>1. t < tp.n_threads /\ ~Unseen(tp, th[t], t)
  BY DEF Inv, Members, Member
<1>. QED
  BY <1>1, OwnerTakesPart DEF Inv, Part

\* A thread of the graph goes on in it, or leaves it.
LEMMA GoesOnInGraph ==
    ASSUME Inv, NEW t \in Part, ~Unseen(tp, th[t], t), SameRound,
           NEW y \in State, y.last_graph = th[t].last_graph,
           y.pc \in AtWork \cup {"barrier", "arrive"} \/ (t = 0 /\ y.pc = "idle") \/ (t # 0 /\ y.pc = "loop")
    PROVE  Member(tp, y, t) /\ ~Unseen(tp, y, t) /\ ~Unseen(tp', y, t)
<1>1. ~Unseen(tp, y, t) /\ ~Unseen(tp', y, t)
  BY DEF Unseen, SameRound
<1>2. t \in Threads /\ t < tp.n_threads
  BY DEF Part
<1>3. y.last_graph[1] <= tp.count
  BY <1>2 DEF Inv, Members, Member
<1>4. (t # 0 => y.pc \notin Owner_pcs) /\ (t = 0 => y.pc \notin Worker_pcs)
  BY DEF Owner_pcs, Worker_pcs, AtWork
<1>. QED
  BY <1>1, <1>2, <1>3, <1>4 DEF Member

\* The step keeps the way of t, and changes no field of the pool that tells the others' way.
LEMMA WorkStep ==
    ASSUME Inv, NEW t \in Threads, NEW y \in State, th' = [th EXCEPT ![t] = y],
           tp' \in Pool, SameRound, tp'.n_barrier = tp.n_barrier, tp'.graph = tp.graph, tp'.abort = tp.abort,
           Inside(tp, th[t]), th[t].pc \notin {"arrive", "reset", "release", "spin"},
           y.last_graph = th[t].last_graph,
           y.pc \in AtWork \cup {"barrier", "arrive"},
           y.pc = "arrive" => y.n_passed = tp.n_barrier_passed,
           Next_barrier(tp, y, t) = Next_barrier(tp, th[t], t)
    PROVE  Inv'
<1>1. t \in Part /\ ~Unseen(tp, th[t], t)
  BY AtWorkIs
<1>2. Member(tp, y, t)
  BY <1>1, GoesOnInGraph
<1>3. th'[t] = y /\ \A u \in Threads \ {t} : th'[u] = th[u]
  BY Types DEF Inv
<1>4. Keeps(t)
  <2>1. Next_barrier(tp', y, t) = Next_barrier(tp, y, t)
    BY DEF SameRound, Next_barrier, Unseen, Late, Inside, Waiting
  <2>. QED
    BY <1>3, <2>1 DEF Keeps
<1>5. \A u \in Part : Keeps(u)
  BY <1>3, <1>4, SameKeeps DEF Part
<1>6. Together'
  BY <1>5, TogetherStep DEF SameRound
<1>7. ~Waiting(tp, th[t]) /\ y.pc \notin {"kickoff", "reset", "release", "spin"}
  BY DEF Waiting, AtWork
<1>. QED
  BY <1>2, <1>6, <1>7, ThreadStep

\* The record of a thread whose pc changes.
LEMMA PcChanges ==
    ASSUME NEW x \in State,
           NEW pc \in {"idle", "kickoff", "join", "exit", "loop", "check", "poll", "lock", "asleep", "paused",
                       "node", "computed", "chunk", "take", "barrier", "arrive", "reset", "release", "spin"}
    PROVE  LET y == [x EXCEPT !.pc = pc]
           IN  /\ y \in State /\ y.pc = pc /\ y.last_graph = x.last_graph /\ y.node = x.node
               /\ y.n_passed = x.n_passed /\ y.after = x.after
BY DEF State

LEMMA GraphEndsStep ==
    ASSUME Inv, NEW t \in Threads, GraphEnds(t)
    PROVE  Inv'
<1>. DEFINE y == [th[t] EXCEPT !.pc = "barrier", !.after = "end"]
            i == th[t].node
<1>1. th[t] \in State /\ th[t].pc = "node" /\ i \in Nat
  BY Types DEF GraphEnds, Inv, State
<1>2. /\ y \in State /\ y.pc = "barrier" /\ y.after = "end" /\ y.node = i /\ y.last_graph = th[t].last_graph
      /\ th' = [th EXCEPT ![t] = y] /\ tp' = tp
  BY <1>1, Types DEF GraphEnds, Barrier, Inv, State
<1>. HIDE DEF y
<1>3. Inside(tp, th[t]) /\ ~Unseen(tp, th[t], t) /\ ~Unseen(tp, y, t)
  BY <1>1, <1>2, AtWorkIs DEF Inside, AtWork, Unseen
<1>4. Next_barrier(tp, th[t], t) = <<i, "end">>
  <2>1. Stops(tp.graph, tp.abort, i) /\ (i >= Len(tp.graph) \/ i = tp.abort)
    BY DEF GraphEnds, Stops, n_nodes
  <2>2. From(tp.graph, tp.abort, i) = <<i, "end">>
    BY <1>1, <2>1, StopsHere, Types DEF Meets, Inv
  <2>. QED
    BY <1>1, <1>3, <2>2, WhereTo, Types DEF Inv
<1>5. Next_barrier(tp, y, t) = <<i, "end">>
  BY <1>2, <1>3, WhereTo, Types DEF Inv
<1>. QED
  BY <1>1, <1>2, <1>3, <1>4, <1>5, WorkStep, Types DEF SameRound, Inv, AtWork

LEMMA SkipNodeStep ==
    ASSUME Inv, NEW t \in Threads, SkipNode(t)
    PROVE  Inv'
<1>. DEFINE y == [th[t] EXCEPT !.node = @ + 1]
            i == th[t].node
<1>1. th[t] \in State /\ th[t].pc = "node" /\ i \in Nat
  BY Types DEF SkipNode, AtNode, Inv, State
<1>2. /\ y \in State /\ y.pc = "node" /\ y.node = i + 1 /\ y.last_graph = th[t].last_graph
      /\ th' = [th EXCEPT ![t] = y] /\ tp' = tp
  <2>1. y \in State /\ y.pc = "node" /\ y.node = i + 1 /\ y.last_graph = th[t].last_graph
    BY <1>1 DEF State
  <2>. QED
    BY <2>1 DEF SkipNode
<1>. HIDE DEF y
<1>3. Inside(tp, th[t]) /\ ~Unseen(tp, th[t], t) /\ ~Unseen(tp, y, t)
  BY <1>1, <1>2, AtWorkIs DEF Inside, AtWork, Unseen
<1>4. ~Stops(tp.graph, tp.abort, i)
  BY <1>1, Types DEF SkipNode, AtNode, Node, n_nodes, Stops, Inv
<1>5. From(tp.graph, tp.abort, i) = From(tp.graph, tp.abort, i + 1)
  BY <1>1, <1>4, GoesOn, Types DEF Inv
<1>6. Next_barrier(tp, y, t) = Next_barrier(tp, th[t], t)
  BY <1>1, <1>2, <1>3, <1>5, WhereTo, Types DEF Inv
<1>. QED
  BY <1>1, <1>2, <1>3, <1>6, WorkStep, Types DEF SameRound, Inv, AtWork

LEMMA ComputeNodeStep ==
    ASSUME Inv, NEW t \in Threads, ComputeNode(t)
    PROVE  Inv'
<1>. DEFINE i == th[t].node
            j == IF Node(i) = "fuse" THEN i + 1 ELSE i
            y == [th[t] EXCEPT !.pc = "computed", !.node = j]
<1>1. th[t] \in State /\ th[t].pc = "node" /\ i \in Nat /\ j \in Nat
  <2>1. th[t] \in State /\ th[t].pc = "node"
    BY Types DEF ComputeNode, AtNode, Inv
  <2>2. i \in Nat
    BY <2>1 DEF State
  <2>. QED
    BY <2>1, <2>2
<1>2. /\ y \in State /\ y.pc = "computed" /\ y.node = j /\ y.last_graph = th[t].last_graph
      /\ th' = [th EXCEPT ![t] = y] /\ tp' = tp
  BY <1>1, Types DEF ComputeNode, Inv, State
<1>. HIDE DEF y
<1>3. Inside(tp, th[t]) /\ ~Unseen(tp, th[t], t) /\ ~Unseen(tp, y, t)
  BY <1>1, <1>2, AtWorkIs DEF Inside, AtWork, Unseen
<1>4. i < Len(tp.graph) /\ i # tp.abort /\ Node(i) \in {"op", "fuse"}
  BY DEF ComputeNode, AtNode, n_nodes
<1>5. Stops(tp.graph, tp.abort, i) /\ Meets(tp.graph, tp.abort, i) = Closes(tp.graph, j)
  BY <1>1, <1>4, Types DEF Stops, Meets, Node, Inv
<1>6. Next_barrier(tp, th[t], t) = Closes(tp.graph, j)
  BY <1>1, <1>3, <1>5, StopsHere, WhereTo, Types DEF Inv
<1>7. Next_barrier(tp, y, t) = Closes(tp.graph, j)
  BY <1>2, <1>3, WhereTo, Types DEF Inv, AtWork
<1>. HIDE DEF j
<1>. QED
  BY <1>1, <1>2, <1>3, <1>6, <1>7, WorkStep, Types DEF SameRound, Inv, AtWork

LEMMA MulMatStartStep ==
    ASSUME Inv, NEW t \in Threads, MulMatStart(t)
    PROVE  Inv'
<1>. DEFINE i == th[t].node
            y == [th[t] EXCEPT !.pc = "barrier", !.after = "chunks"]
<1>1. th[t] \in State /\ th[t].pc = "node" /\ i \in Nat
  BY Types DEF MulMatStart, AtNode, Inv, State
<1>2. /\ y \in State /\ y.pc = "barrier" /\ y.after = "chunks" /\ y.node = i /\ y.last_graph = th[t].last_graph
      /\ th' = [th EXCEPT ![t] = y]
  BY <1>1, Types DEF MulMatStart, Barrier, Inv, State
<1>3. tp' \in Pool /\ SameRound /\ tp'.n_barrier = tp.n_barrier /\ tp'.graph = tp.graph /\ tp'.abort = tp.abort
  BY Types DEF MulMatStart, Pool, SameRound, Inv
<1>. HIDE DEF y
<1>4. Inside(tp, th[t]) /\ ~Unseen(tp, th[t], t) /\ ~Unseen(tp, y, t)
  BY <1>1, <1>2, AtWorkIs DEF Inside, AtWork, Unseen
<1>5. i < Len(tp.graph) /\ i # tp.abort /\ tp.graph[i + 1] = "mul_mat"
  BY DEF MulMatStart, AtNode, n_nodes, Node
<1>6. Stops(tp.graph, tp.abort, i) /\ Meets(tp.graph, tp.abort, i) = <<i, "chunks">>
  BY <1>1, <1>5, Types DEF Stops, Meets, Inv
<1>7. Next_barrier(tp, th[t], t) = <<i, "chunks">>
  BY <1>1, <1>4, <1>6, StopsHere, WhereTo, Types DEF Inv
<1>8. Next_barrier(tp, y, t) = <<i, "chunks">>
  BY <1>2, <1>4, WhereTo, Types DEF Inv
<1>. QED
  BY <1>1, <1>2, <1>3, <1>4, <1>7, <1>8, WorkStep DEF AtWork

\* The chunks of a mul_mat: the thread stays at its node.
LEMMA MulMatStep ==
    ASSUME Inv, NEW t \in Threads, MulMatChunk(t) \/ MulMatTake(t) \/ MulMatEnd(t)
    PROVE  Inv'
<1>1. PICK y \in State :
        /\ y.pc \in AtWork \ {"node"} /\ y.node = th[t].node /\ y.last_graph = th[t].last_graph
        /\ th' = [th EXCEPT ![t] = y]
  <2>. DEFINE y(pc, chunk) == [th[t] EXCEPT !.pc = pc, !.chunk = chunk]
  <2>1. ASSUME NEW pc \in AtWork \ {"node"}, NEW chunk \in Nat
        PROVE  /\ y(pc, chunk) \in State /\ y(pc, chunk).pc = pc /\ y(pc, chunk).node = th[t].node
               /\ y(pc, chunk).last_graph = th[t].last_graph
    <3>1. th[t] \in State
      BY Types DEF Inv
    <3>. QED
      BY <3>1 DEF State, AtWork
  <2>2. th[t].chunk \in Nat /\ tp.current_chunk \in Nat
    BY Types DEF State, Pool, Inv
  <2>3. \E pc \in AtWork \ {"node"}, chunk \in Nat : th' = [th EXCEPT ![t] = y(pc, chunk)]
    <3>1. CASE MulMatTake(t)
      BY <2>2, <3>1, Types DEF MulMatTake, AtWork, Inv, State
    <3>2. CASE MulMatChunk(t)
      <4>1. PICK pc \in {"computed", "take"} : th' = [th EXCEPT ![t].pc = pc]
        BY <3>2 DEF MulMatChunk, Goto
      <4>2. th' = [th EXCEPT ![t] = y(pc, th[t].chunk)]
        BY <4>1, Types DEF Inv, State
      <4>. QED
        BY <2>2, <4>2 DEF AtWork
    <3>3. CASE MulMatEnd(t)
      <4>1. th' = [th EXCEPT ![t] = y("computed", th[t].chunk)]
        BY <3>3, Types DEF MulMatEnd, Goto, Inv, State
      <4>. QED
        BY <2>2, <4>1 DEF AtWork
    <3>. QED
      BY <3>1, <3>2, <3>3
  <2>. QED
    BY <2>1, <2>3
<1>2. tp' \in Pool /\ SameRound /\ tp'.n_barrier = tp.n_barrier /\ tp'.graph = tp.graph /\ tp'.abort = tp.abort
  BY Types DEF MulMatChunk, MulMatTake, MulMatEnd, Pool, SameRound, Inv
<1>3. th[t] \in State /\ th[t].pc \in {"chunk", "take"}
  BY Types DEF MulMatChunk, MulMatTake, MulMatEnd, Inv
<1>4. Inside(tp, th[t]) /\ ~Unseen(tp, th[t], t) /\ ~Unseen(tp, y, t)
  BY <1>1, <1>3, AtWorkIs DEF Inside, AtWork, Unseen
<1>5. Next_barrier(tp, y, t) = Next_barrier(tp, th[t], t)
  BY <1>1, <1>3, <1>4, WhereTo, Types DEF Inv, AtWork
<1>. QED
  BY <1>1, <1>2, <1>3, <1>4, <1>5, WorkStep DEF AtWork

\* The end of a thread's work on a node; thread 0 may set the node of the abort.
LEMMA NodeDoneStep ==
    ASSUME Inv, NEW t \in Threads, NodeDone(t)
    PROVE  Inv'
<1>. DEFINE i == th[t].node
            y == IF i + 1 < Len(tp.graph) THEN [th[t] EXCEPT !.pc = "barrier", !.after = "next"]
                 ELSE [th[t] EXCEPT !.pc = "node", !.node = i + 1]
<1>1. th[t] \in State /\ th[t].pc = "computed"
  BY Types DEF NodeDone, Inv
<1>2. i \in Nat
  BY <1>1 DEF State
<1>3. y \in State /\ y.last_graph = th[t].last_graph
  <2>1. LET z == [th[t] EXCEPT !.pc = "barrier", !.after = "next"]
        IN  z \in State /\ z.last_graph = th[t].last_graph
    BY <1>1 DEF State
  <2>2. ASSUME NEW j \in Nat
        PROVE  LET z == [th[t] EXCEPT !.pc = "node", !.node = j]
               IN  z \in State /\ z.last_graph = th[t].last_graph
    BY <1>1 DEF State
  <2>3. i + 1 \in Nat
    BY <1>2
  <2>. QED
    BY <2>1, <2>2, <2>3, Zenon
<1>4. /\ i + 1 < Len(tp.graph) => y.pc = "barrier" /\ y.after = "next" /\ y.node = i
      /\ ~(i + 1 < Len(tp.graph)) => y.pc = "node" /\ y.node = i + 1
  BY <1>1 DEF State
<1>5. th' = [th EXCEPT ![t] = y]
  BY Types DEF NodeDone, Barrier, n_nodes, Inv, State
<1>6. PICK abort \in BOOLEAN : /\ abort => t = 0
                               /\ tp' = IF abort THEN [tp EXCEPT !.abort = i + 1] ELSE tp
  BY DEF NodeDone
<1>7. /\ tp' \in Pool /\ SameRound /\ tp'.n_barrier = tp.n_barrier /\ tp'.graph = tp.graph
      /\ tp'.abort = IF abort THEN i + 1 ELSE tp.abort
  <2>1. tp \in Pool /\ i + 1 \in Int
    BY <1>2, Types DEF Inv
  <2>2. CASE abort
    BY <1>6, <2>1, <2>2 DEF Pool, SameRound
  <2>3. CASE ~abort
    BY <1>6, <2>1, <2>3 DEF SameRound
  <2>. QED
    BY <2>2, <2>3
<1>. HIDE DEF y
<1>8. Inside(tp, th[t]) /\ t \in Part /\ ~Unseen(tp, th[t], t) /\ 0 \in Part
  BY <1>1, AtWorkIs DEF Inside, AtWork
<1>9. Next_barrier(tp, th[t], t) = Closes(tp.graph, i)
  BY <1>1, <1>8, WhereTo, Types DEF Inv, AtWork
<1>10. Member(tp, y, t) /\ ~Unseen(tp', y, t)
  BY <1>3, <1>4, <1>7, <1>8, GoesOnInGraph DEF AtWork
<1>11. th'[t] = y /\ \A u \in Threads \ {t} : th'[u] = th[u]
  BY <1>5, Types DEF Inv
<1>12. Keeps(t)
  <2>1. CASE i + 1 < Len(tp.graph)
    <3>1. Next_barrier(tp', y, t) = <<i, "next">>
      BY <1>3, <1>4, <1>7, <1>10, <2>1, WhereTo DEF Inv
    <3>. QED
      BY <1>9, <1>11, <2>1, <3>1 DEF Keeps, Closes
  <2>2. CASE ~(i + 1 < Len(tp.graph))
    <3>1. i + 1 >= Len(tp.graph) /\ tp'.abort \in Int
      <4>1. Len(tp.graph) \in Nat /\ tp.abort \in Int
        BY Types DEF Inv
      <4>. QED
        BY <1>2, <1>7, <2>2, <4>1
    <3>2. From(tp'.graph, tp'.abort, i + 1) = <<i + 1, "end">>
      BY <1>2, <1>7, <3>1, StopsHere, Types DEF Stops, Meets, Inv
    <3>3. Next_barrier(tp', y, t) = <<i + 1, "end">>
      BY <1>3, <1>4, <1>7, <1>10, <2>2, <3>2, WhereTo DEF Inv
    <3>. QED
      BY <1>9, <1>11, <2>2, <3>3 DEF Keeps, Closes
  <2>. QED
    BY <2>1, <2>2
<1>13. ASSUME NEW u \in Part \ {t}
       PROVE  Keeps(u)
  <2>1. u \in Threads /\ th'[u] = th[u] /\ th[u] \in State
    BY <1>11, Types DEF Part, Inv
  <2>2. CASE ~abort
    BY <1>7, <2>1, <2>2, SameKeeps
  <2>3. CASE abort
    <3>1. Next_barrier(tp, th[u], u) = Closes(tp.graph, i)
      BY <1>6, <1>8, <1>9, <2>3 DEF Inv, Together
    <3>2. \A j \in Nat : From(tp.graph, tp.abort, j) = Closes(tp.graph, i) =>
                         From(tp'.graph, tp'.abort, j) = Closes(tp.graph, i)
      BY <1>2, <1>7, <2>3, AbortKeeps, Types DEF Inv
    <3>3. /\ Unseen(tp', th[u], u) <=> Unseen(tp, th[u], u)
          /\ Late(tp', th[u]) <=> Late(tp, th[u])
          /\ Inside(tp', th[u]) <=> Inside(tp, th[u])
      BY <1>7 DEF SameRound, Unseen, Late, Inside, Waiting
    <3>4. th[u].node \in Nat /\ th[u].node + 1 \in Nat /\ 0 \in Nat
      BY <2>1 DEF State
    <3>5. Next_barrier(tp', th[u], u) = Closes(tp.graph, i)
      BY <1>7, <3>1, <3>2, <3>3, <3>4 DEF Next_barrier
    <3>. QED
      BY <2>1, <3>1, <3>5 DEF Keeps
  <2>. QED
    BY <2>2, <2>3
<1>14. Together'
  BY <1>7, <1>12, <1>13, TogetherStep DEF SameRound
<1>15. ~Waiting(tp, th[t]) /\ y.pc \notin {"kickoff", "reset", "release", "spin", "arrive"}
  BY <1>1, <1>4 DEF Waiting
<1>. QED
  BY <1>1, <1>3, <1>5, <1>7, <1>10, <1>14, <1>15, ThreadStep

-----------------------------------------------------------------------------
(* The steps of the barrier.                                               *)

LEMMA BarrierEnterStep ==
    ASSUME Inv, NEW t \in Threads, BarrierEnter(t)
    PROVE  Inv'
<1>. DEFINE y == [th[t] EXCEPT !.pc = "arrive", !.n_passed = tp.n_barrier_passed]
<1>1. th[t] \in State /\ th[t].pc = "barrier" /\ tp.n_barrier_passed \in Nat
  BY Types DEF BarrierEnter, Inv
<1>2. /\ y \in State /\ y.pc = "arrive" /\ y.n_passed = tp.n_barrier_passed
      /\ y.node = th[t].node /\ y.after = th[t].after /\ y.last_graph = th[t].last_graph
  BY <1>1 DEF State
<1>3. th' = [th EXCEPT ![t] = y] /\ tp' = tp
  BY DEF BarrierEnter
<1>. HIDE DEF y
<1>4. Inside(tp, th[t]) /\ ~Unseen(tp, th[t], t) /\ ~Unseen(tp, y, t)
  BY <1>1, <1>2, AtWorkIs DEF Inside, Unseen
<1>5. Next_barrier(tp, y, t) = Next_barrier(tp, th[t], t)
  BY <1>1, <1>2, <1>4, WhereTo, Types DEF Inv
<1>. QED
  BY <1>1, <1>2, <1>3, <1>4, <1>5, WorkStep, Types DEF SameRound, Inv

\* Where a thread is after the barrier.
LEMMA LeaveIs ==
    ASSUME TypeOK, NEW t \in Threads, Leave(t)
    PROVE  \E y \in State :
              /\ th' = [th EXCEPT ![t] = y]
              /\ y.last_graph = th[t].last_graph
              /\ th[t].after = "next"   => y.pc = "node" /\ y.node = th[t].node + 1
              /\ th[t].after = "chunks" => y.pc = "chunk" /\ y.node = th[t].node
              /\ th[t].after = "end"    => y.pc = IF t = 0 THEN "idle" ELSE "loop"
<1>1. th[t] \in State /\ t \in Nat
  BY Types DEF Threads
<1>2. th[t].node \in Nat /\ th[t].node + 1 \in Nat /\ th[t].after \in {"next", "chunks", "end"}
  BY <1>1 DEF State
<1>3. CASE th[t].after = "next"
  <2>. DEFINE y == [th[t] EXCEPT !.pc = "node", !.node = th[t].node + 1]
  <2>1. y \in State /\ y.last_graph = th[t].last_graph /\ y.pc = "node" /\ y.node = th[t].node + 1
    BY <1>1, <1>2 DEF State
  <2>2. th' = [th EXCEPT ![t] = y]
    BY <1>1, <1>3, Types DEF Leave, State
  <2>. HIDE DEF y
  <2>. QED
    BY <1>3, <2>1, <2>2
<1>4. CASE th[t].after = "chunks"
  <2>. DEFINE y == [th[t] EXCEPT !.pc = "chunk", !.chunk = t]
  <2>1. y \in State /\ y.last_graph = th[t].last_graph /\ y.pc = "chunk" /\ y.node = th[t].node
    BY <1>1, <1>2 DEF State
  <2>2. th' = [th EXCEPT ![t] = y]
    BY <1>1, <1>4, Types DEF Leave, State
  <2>. HIDE DEF y
  <2>. QED
    BY <1>4, <2>1, <2>2
<1>5. CASE th[t].after = "end"
  <2>. DEFINE pc == IF t = 0 THEN "idle" ELSE "loop"
              y  == [th[t] EXCEPT !.pc = pc]
  <2>1. pc \in {"idle", "loop"}
    OBVIOUS
  <2>2. y \in State /\ y.last_graph = th[t].last_graph /\ y.pc = pc
    <3>. HIDE DEF pc
    <3>. QED
      BY <1>1, <2>1 DEF State
  <2>3. th' = [th EXCEPT ![t] = y]
    BY <1>1, <1>5, Types DEF Leave, State
  <2>. HIDE DEF y
  <2>. QED
    BY <1>5, <2>2, <2>3
<1>. QED
  BY <1>2, <1>3, <1>4, <1>5

\* ... and to which barrier it is on the way then.
LEMMA LeftTo ==
    ASSUME TypeOK, NEW x \in State, NEW y \in State, NEW t \in Threads, ~Unseen(tp, y, t),
           x.after = "next"   => y.pc = "node" /\ y.node = x.node + 1,
           x.after = "chunks" => y.pc = "chunk" /\ y.node = x.node,
           x.after = "end"    => y.pc = IF t = 0 THEN "idle" ELSE "loop"
    PROVE  Next_barrier(tp, y, t) = CASE x.after = "next"   -> From(tp.graph, tp.abort, x.node + 1)
                                      [] x.after = "chunks" -> Closes(tp.graph, x.node)
                                      [] x.after = "end"    -> Out
<1>1. x.after \in {"next", "chunks", "end"} /\ tp \in Pool
  BY Types DEF State
<1>. QED
  BY <1>1, WhereTo DEF AtWork, Owner_pcs, Worker_pcs

\* One thread alone is together with itself.
LEMMA BarrierAloneStep ==
    ASSUME Inv, NEW t \in Threads, BarrierAlone(t)
    PROVE  Inv'
<1>1. th[t].pc = "barrier" /\ tp.n_threads = 1 /\ Leave(t) /\ tp' = tp
  BY DEF BarrierAlone
<1>2. t \in Part /\ ~Unseen(tp, th[t], t)
  BY <1>1, AtWorkIs DEF Inside
<1>3. PICK y \in State :
        /\ th' = [th EXCEPT ![t] = y] /\ y.last_graph = th[t].last_graph
        /\ y.pc \in AtWork \/ (t = 0 /\ y.pc = "idle") \/ (t # 0 /\ y.pc = "loop")
  <2>1. th[t].after \in {"next", "chunks", "end"}
    BY Types DEF Inv, State
  <2>. QED
    BY <1>1, <2>1, LeaveIs DEF Inv, AtWork
<1>4. Member(tp, y, t)
  BY <1>1, <1>2, <1>3, GoesOnInGraph DEF SameRound
<1>5. Together'
  <2>1. Part' = {0}
    BY <1>1, Types DEF Part, Threads, Inv
  <2>. QED
    BY <2>1 DEF Together
<1>6. ~Waiting(tp, th[t]) /\ y.pc \notin {"kickoff", "reset", "release", "spin", "arrive"}
  BY <1>1, <1>3 DEF Waiting, AtWork
<1>7. tp' \in Pool /\ SameRound /\ tp'.n_barrier = tp.n_barrier
  BY <1>1, Types DEF Inv, SameRound
<1>. QED
  BY <1>1, <1>3, <1>4, <1>5, <1>6, <1>7, ThreadStep

\* A thread that finds the barrier open goes where Next_barrier had it already.
LEMMA BarrierSpinStep ==
    ASSUME Inv, NEW t \in Threads, BarrierSpin(t)
    PROVE  Inv'
<1>1. /\ th[t].pc = "spin" /\ Leave(t) /\ tp' = tp /\ th[t] \in State
      /\ Late(tp, th[t]) /\ ~Waiting(tp, th[t]) /\ tp \in Pool
  BY Types DEF BarrierSpin, Late, Waiting, Inv
<1>2. th[t].after \in {"next", "chunks", "end"}
  BY <1>1 DEF State
<1>3. PICK y \in State :
        /\ th' = [th EXCEPT ![t] = y]
        /\ y.last_graph = th[t].last_graph
        /\ th[t].after = "next"   => y.pc = "node" /\ y.node = th[t].node + 1
        /\ th[t].after = "chunks" => y.pc = "chunk" /\ y.node = th[t].node
        /\ th[t].after = "end"    => y.pc = IF t = 0 THEN "idle" ELSE "loop"
  BY <1>1, LeaveIs DEF Inv
<1>4. th'[t] = y /\ \A u \in Threads \ {t} : th'[u] = th[u]
  BY <1>3, Types DEF Inv
<1>5. Unseen(tp, y, t) <=> Unseen(tp, th[t], t)
  BY <1>3 DEF Unseen
<1>6. Next_barrier(tp, y, t) = Next_barrier(tp, th[t], t)
  <2>1. CASE Unseen(tp, y, t)
    BY <1>1, <1>5, <2>1, WhereTo DEF Inv
  <2>2. CASE ~Unseen(tp, y, t)
    BY <1>1, <1>3, <1>5, <2>2, WhereTo, LeftTo DEF Inv
  <2>. QED
    BY <2>1, <2>2
<1>7. SameRound
  BY <1>1 DEF SameRound
<1>8. Member(tp, y, t)
  <2>1. CASE th[t].after = "end"
    <3>1. ~Inside(tp, y) /\ ~Late(tp, y)
      BY <1>3, <2>1 DEF Inside, Late, Waiting, AtWork
    <3>2. (t # 0 => y.pc \notin Owner_pcs) /\ (t = 0 => y.pc \notin Worker_pcs)
      BY <1>3, <2>1 DEF Owner_pcs, Worker_pcs
    <3>. QED
      BY <1>3, <1>5, <3>1, <3>2 DEF Inv, Members, Member
  <2>2. CASE th[t].after # "end"
    <3>1. t \in Part /\ ~Unseen(tp, th[t], t)
      BY <1>1, <2>2, AtWorkIs
    <3>2. y.pc \in AtWork
      BY <1>2, <1>3, <2>2 DEF AtWork
    <3>. QED
      BY <1>3, <1>7, <3>1, <3>2, GoesOnInGraph
  <2>. QED
    BY <2>1, <2>2
<1>9. Together'
  <2>1. \A u \in Part : Keeps(u)
    BY <1>1, <1>4, <1>6, <1>7, SameKeeps DEF Keeps, Part
  <2>. QED
    BY <1>1, <2>1, TogetherStep
<1>10. y.pc \notin {"kickoff", "reset", "release", "spin", "arrive"}
  BY <1>2, <1>3
<1>. QED
  BY <1>1, <1>3, <1>7, <1>8, <1>9, <1>10, ThreadStep

\* The threads of the graph, and those that wait in the barrier, can be counted.
LEMMA Counting ==
    ASSUME Inv, NEW t \in Part
    PROVE  /\ IsFiniteSet(Waiters) /\ Waiters \subseteq Part /\ Cardinality(Waiters) \in Nat
           /\ IsFiniteSet(Part \ {t}) /\ Cardinality(Part \ {t}) = tp.n_threads - 1
<1>1. tp.n_threads \in 0 .. NumThreads /\ NumThreads \in Nat
  BY Types DEF Inv, Pool
<1>2. Part = 0 .. tp.n_threads - 1
  BY <1>1 DEF Part, Threads
<1>3. IsFiniteSet(Part) /\ Cardinality(Part) = tp.n_threads
  <2>1. 0 \in Int /\ tp.n_threads - 1 \in Int
    BY <1>1
  <2>2. /\ IsFiniteSet(0 .. tp.n_threads - 1)
        /\ Cardinality(0 .. tp.n_threads - 1) =
             IF 0 > tp.n_threads - 1 THEN 0 ELSE tp.n_threads - 1 - 0 + 1
    BY <2>1, FS_Interval
  <2>. QED
    BY <1>1, <1>2, <2>2
<1>4. Waiters \subseteq Part
  BY AtWorkIs DEF Waiters, Inside
<1>. QED
  BY <1>3, <1>4, FS_Subset, FS_RemoveElement, FS_CardinalityType

\* A thread counts itself; the one that makes the count complete knows that all others wait.
LEMMA BarrierArriveStep ==
    ASSUME Inv, NEW t \in Threads, BarrierArrive(t)
    PROVE  Inv'
<1>. DEFINE last == tp.n_barrier = tp.n_threads - 1
            y    == [th[t] EXCEPT !.pc = IF last THEN "reset" ELSE "spin"]
<1>1. th[t] \in State /\ th[t].pc = "arrive" /\ th[t].n_passed = tp.n_barrier_passed
  BY Types DEF BarrierArrive, Inv, Round
<1>2. /\ y \in State /\ y.pc = (IF last THEN "reset" ELSE "spin") /\ y.last_graph = th[t].last_graph
      /\ y.node = th[t].node /\ y.n_passed = th[t].n_passed /\ y.after = th[t].after
  BY <1>1 DEF State
<1>3. th' = [th EXCEPT ![t] = y] /\ th'[t] = y /\ \A u \in Threads \ {t} : th'[u] = th[u]
  BY Types DEF BarrierArrive, Goto, Inv
<1>. HIDE DEF y
<1>4. Inside(tp, th[t]) /\ t \in Part /\ ~Unseen(tp, th[t], t) /\ ~Unseen(tp, y, t) /\ t < tp.n_threads
  BY <1>1, <1>2, AtWorkIs DEF Inside, Unseen, Part
<1>5. ~Waiting(tp, th[t]) /\ t \notin Waiters
  BY <1>1 DEF Waiting, Waiters
<1>6. \A u \in Threads : th[u].pc \notin {"reset", "release"}
  BY <1>1, <1>4, <1>5 DEF Inv, Last
<1>7. tp.n_barrier = Cardinality(Waiters)
  BY <1>6 DEF Inv, Counted
<1>8. Waiters \subseteq Part \ {t} /\ tp.n_barrier <= tp.n_threads - 1 /\ (last => Waiters = Part \ {t})
  <2>1. Waiters \in SUBSET (Part \ {t})
    BY <1>4, <1>5, Counting
  <2>2. /\ Cardinality(Waiters) <= Cardinality(Part \ {t})
        /\ Cardinality(Part \ {t}) = Cardinality(Waiters) => Part \ {t} = Waiters
    BY <1>4, <2>1, Counting, FS_Subset
  <2>3. Cardinality(Part \ {t}) = tp.n_threads - 1
    BY <1>4, Counting
  <2>. QED
    BY <1>7, <2>1, <2>2, <2>3
<1>9. /\ tp' \in Pool /\ SameRound /\ tp'.n_barrier = tp.n_barrier + 1
      /\ tp'.graph = tp.graph /\ tp'.abort = tp.abort
  <2>1. tp \in Pool /\ tp.n_barrier + 1 \in 0 .. NumThreads
    BY <1>8, Types DEF Inv, Pool
  <2>2. tp' = [tp EXCEPT !.n_barrier = tp.n_barrier + 1]
    BY DEF BarrierArrive
  <2>. QED
    BY <2>1, <2>2 DEF Pool, SameRound
<1>10. TypeOK' /\ Part' = Part
  BY <1>2, <1>3, <1>9, Types DEF Inv, TypeOK, Pool, State, Part, SameRound
<1>11. Inside(tp, y) /\ (~last => Waiting(tp', y)) /\ (last => ~Waiting(tp', y))
  BY <1>1, <1>2, <1>9 DEF Inside, Waiting, SameRound
<1>12. \A u \in Threads \ {t} : Waiting(tp', th'[u]) <=> Waiting(tp, th[u])
  BY <1>3, <1>9 DEF Waiting, SameRound
<1>13. Together'
  <2>1. Next_barrier(tp, th[t], t) = <<th[t].node, th[t].after>>
    BY <1>1, <1>4, WhereTo, Types DEF Inv
  <2>2. Inside(tp', y) /\ ~Unseen(tp', y, t) /\ y.pc \in {"reset", "spin"}
    BY <1>2, <1>4, <1>9, <1>11 DEF SameRound, Inside, Unseen, Waiting
  <2>3. Next_barrier(tp', y, t) = <<th[t].node, th[t].after>>
    BY <1>2, <1>9, <2>2 DEF Next_barrier, AtWork
  <2>4. \A u \in Part : Keeps(u)
    BY <1>3, <1>9, <2>1, <2>3, SameKeeps DEF Keeps, Part
  <2>. QED
    BY <1>9, <2>4, TogetherStep DEF SameRound
<1>14. Members'
  <2>1. Member(tp, y, t)
    <3>1. y.last_graph[1] <= tp.count
      BY <1>2 DEF Inv, Members, Member
    <3>2. y.pc \notin Owner_pcs \cup Worker_pcs
      BY <1>2 DEF Owner_pcs, Worker_pcs
    <3>. QED
      BY <1>4, <3>1, <3>2 DEF Member
  <2>2. \A u \in Threads : Member(tp, th'[u], u)
    BY <1>3, <2>1 DEF Inv, Members
  <2>. QED
    BY <1>9, <2>2, SameMember DEF Members
<1>15. Round'
  <2>1. /\ y.pc # "arrive"
        /\ y.n_passed <= tp'.n_barrier_passed
    BY <1>1, <1>2, <1>9, Types DEF Inv, SameRound
  <2>. QED
    BY <1>3, <1>9, <2>1 DEF Inv, Round, SameRound
<1>16. Last'
  <2>1. ASSUME NEW u \in Threads, th'[u].pc \in {"reset", "release"}
        PROVE  th'[u].pc # "release" /\ \A v \in Part \ {u} : Waiting(tp', th'[v])
    <3>1. u = t
      BY <1>3, <1>6, <2>1
    <3>2. last /\ th'[u].pc # "release"
      BY <1>2, <1>3, <2>1, <3>1
    <3>3. \A v \in Part \ {t} : Waiting(tp, th[v])
      BY <1>8, <3>2 DEF Waiters
    <3>. QED
      BY <1>12, <3>1, <3>2, <3>3 DEF Part
  <2>. QED
    BY <1>10, <2>1 DEF Last
<1>17. Counted'
  <2>1. CASE last
    BY <1>2, <1>3, <2>1 DEF Counted
  <2>2. CASE ~last
    <3>1. Waiters' = Waiters \cup {t}
      BY <1>3, <1>11, <1>12, <2>2 DEF Waiters
    <3>2. Cardinality(Waiters \cup {t}) = Cardinality(Waiters) + 1
      BY <1>4, <1>5, Counting, FS_AddElement
    <3>. QED
      BY <1>7, <1>9, <3>1, <3>2 DEF Counted
  <2>. QED
    BY <2>1, <2>2
<1>18. th'[0].pc = "kickoff" => tp'.count < MaxGraphs
  BY <1>2, <1>3, <1>9, Types DEF Inv, SameRound
<1>. QED
  BY <1>10, <1>13, <1>14, <1>15, <1>16, <1>17, <1>18 DEF Inv

LEMMA BarrierResetStep ==
    ASSUME Inv, NEW t \in Threads, BarrierReset(t)
    PROVE  Inv'
<1>. DEFINE y == [th[t] EXCEPT !.pc = "release"]
<1>1. th[t] \in State /\ th[t].pc = "reset"
  BY Types DEF BarrierReset, Inv
<1>2. /\ y \in State /\ y.pc = "release" /\ y.last_graph = th[t].last_graph
      /\ y.node = th[t].node /\ y.n_passed = th[t].n_passed /\ y.after = th[t].after
  BY <1>1 DEF State
<1>3. th' = [th EXCEPT ![t] = y] /\ th'[t] = y /\ \A u \in Threads \ {t} : th'[u] = th[u]
  BY Types DEF BarrierReset, Goto, Inv
<1>. HIDE DEF y
<1>4. /\ tp' \in Pool /\ SameRound /\ tp'.n_barrier = 0
      /\ tp'.graph = tp.graph /\ tp'.abort = tp.abort
  <2>1. tp \in Pool /\ 0 \in 0 .. NumThreads
    BY Types DEF Inv
  <2>2. tp' = [tp EXCEPT !.n_barrier = 0]
    BY DEF BarrierReset
  <2>. QED
    BY <2>1, <2>2 DEF Pool, SameRound
<1>5. t \in Part /\ ~Unseen(tp, th[t], t) /\ ~Unseen(tp, y, t) /\ ~Unseen(tp', y, t) /\ t < tp.n_threads
  BY <1>1, <1>2, <1>4, AtWorkIs DEF Inside, Unseen, Part, SameRound
<1>6. TypeOK' /\ Part' = Part
  BY <1>2, <1>3, <1>4, Types DEF Inv, TypeOK, Pool, State, Part, SameRound
<1>7. \A u \in Threads : Waiting(tp', th'[u]) <=> Waiting(tp, th[u])
  BY <1>1, <1>2, <1>3, <1>4 DEF Waiting, SameRound
<1>8. Together'
  <2>1. /\ Next_barrier(tp, th[t], t) = <<th[t].node, th[t].after>>
        /\ Next_barrier(tp', y, t) = <<th[t].node, th[t].after>>
    BY <1>1, <1>2, <1>4, <1>5, WhereTo, Types DEF Inv
  <2>2. \A u \in Part : Keeps(u)
    BY <1>3, <1>4, <2>1, SameKeeps DEF Keeps, Part
  <2>. QED
    BY <1>4, <2>2, TogetherStep DEF SameRound
<1>9. Members'
  <2>1. Member(tp, y, t)
    <3>1. y.last_graph[1] <= tp.count
      BY <1>2 DEF Inv, Members, Member
    <3>2. y.pc \notin Owner_pcs \cup Worker_pcs
      BY <1>2 DEF Owner_pcs, Worker_pcs
    <3>. QED
      BY <1>5, <3>1, <3>2 DEF Member
  <2>2. \A u \in Threads : Member(tp, th'[u], u)
    BY <1>3, <2>1 DEF Inv, Members
  <2>. QED
    BY <1>4, <2>2, SameMember DEF Members
<1>10. Round'
  BY <1>2, <1>3, <1>4 DEF Inv, Round, SameRound
<1>11. Last'
  <2>1. ASSUME NEW u \in Threads, th'[u].pc \in {"reset", "release"}
        PROVE  \A v \in Part \ {u} : Waiting(tp', th'[v])
    <3>1. th[u].pc \in {"reset", "release"}
      BY <1>1, <1>3, <2>1
    <3>2. \A v \in Part \ {u} : Waiting(tp, th[v])
      BY <3>1 DEF Inv, Last
    <3>. QED
      BY <1>7, <3>2 DEF Part
  <2>. QED
    BY <1>4, <1>6, <2>1 DEF Last
<1>12. Counted'
  BY <1>2, <1>3 DEF Counted
<1>13. th'[0].pc = "kickoff" => tp'.count < MaxGraphs
  BY <1>2, <1>3, <1>4, Types DEF Inv, SameRound
<1>. QED
  BY <1>6, <1>8, <1>9, <1>10, <1>11, <1>12, <1>13 DEF Inv

\* The last one opens the barrier: the others, which wait with it, are late from then on.
LEMMA BarrierReleaseStep ==
    ASSUME Inv, NEW t \in Threads, BarrierRelease(t)
    PROVE  Inv'
<1>1. th[t] \in State /\ th[t].pc = "release" /\ tp \in Pool
  BY Types DEF BarrierRelease, Inv
<1>2. th[t].after \in {"next", "chunks", "end"}
  BY <1>1 DEF State
<1>3. PICK y \in State :
        /\ th' = [th EXCEPT ![t] = y]
        /\ y.last_graph = th[t].last_graph
        /\ th[t].after = "next"   => y.pc = "node" /\ y.node = th[t].node + 1
        /\ th[t].after = "chunks" => y.pc = "chunk" /\ y.node = th[t].node
        /\ th[t].after = "end"    => y.pc = IF t = 0 THEN "idle" ELSE "loop"
  BY LeaveIs DEF Inv, BarrierRelease
<1>4. y.pc \in AtWork \/ (t = 0 /\ y.pc = "idle") \/ (t # 0 /\ y.pc = "loop")
  BY <1>2, <1>3 DEF AtWork
<1>5. th'[t] = y /\ \A u \in Threads \ {t} : th'[u] = th[u]
  BY <1>3, Types DEF Inv
<1>6. /\ tp' \in Pool /\ tp'.n_barrier_passed = tp.n_barrier_passed + 1 /\ tp'.n_barrier = tp.n_barrier
      /\ tp'.count = tp.count /\ tp'.n_threads = tp.n_threads
      /\ tp'.graph = tp.graph /\ tp'.abort = tp.abort
  BY <1>1 DEF BarrierRelease, Pool
<1>7. tp.n_barrier_passed \in Nat /\ \A u \in Threads : th[u].n_passed \in Nat
  BY Types DEF Inv, State
<1>8. t \in Part /\ ~Unseen(tp, th[t], t) /\ t < tp.n_threads
  BY <1>1, AtWorkIs DEF Inside, Part
<1>9. \A u \in Part \ {t} : Waiting(tp, th[u]) /\ Inside(tp, th[u]) /\ ~Unseen(tp, th[u], u)
  <2>1. \A u \in Part \ {t} : Waiting(tp, th[u])
    BY <1>1 DEF Inv, Last
  <2>. QED
    BY <2>1, AtWorkIs DEF Inside, Part
<1>10. tp.n_barrier = 0
  BY <1>1 DEF Inv, Last
<1>11. TypeOK' /\ Part' = Part
  BY <1>3, <1>5, <1>6, Types DEF Inv, TypeOK, Pool, State, Part
<1>12. \A u \in Threads : ~Waiting(tp', th'[u])
  <2>1. y.pc # "spin"
    BY <1>4 DEF AtWork
  <2>2. \A u \in Threads : th[u].pc = "spin" => th[u].n_passed <= tp.n_barrier_passed
    BY DEF Inv, Round
  <2>. QED
    BY <1>5, <1>6, <1>7, <2>1, <2>2 DEF Waiting
<1>13. /\ ~Unseen(tp', y, t)
       /\ \A u \in Threads : Unseen(tp', th[u], u) <=> Unseen(tp, th[u], u)
  BY <1>3, <1>6, <1>8 DEF Unseen
<1>14. Together'
  <2>. DEFINE To == CASE th[t].after = "next"   -> From(tp.graph, tp.abort, th[t].node + 1)
                      [] th[t].after = "chunks" -> Closes(tp.graph, th[t].node)
                      [] th[t].after = "end"    -> Out
  <2>1. Next_barrier(tp', y, t) = To
    BY <1>1, <1>2, <1>3, <1>6, <1>13, WhereTo DEF Inv, AtWork, Owner_pcs, Worker_pcs
  <2>2. ASSUME NEW u \in Part \ {t}
        PROVE  Next_barrier(tp', th[u], u) = To
    <3>1. u \in Threads /\ th[u] \in State
      BY Types DEF Part, Inv
    <3>2. Next_barrier(tp, th[u], u) = <<th[u].node, th[u].after>>
      BY <1>1, <1>9, <3>1, WhereTo DEF Inv
    <3>3. Next_barrier(tp, th[t], t) = <<th[t].node, th[t].after>>
      BY <1>1, <1>8, WhereTo DEF Inv
    <3>4. th[u].node = th[t].node /\ th[u].after = th[t].after
      BY <1>8, <3>2, <3>3 DEF Inv, Together
    <3>5. Late(tp', th[u]) /\ ~Unseen(tp', th[u], u)
      BY <1>6, <1>7, <1>9, <1>13, <3>1 DEF Late, Waiting
    <3>. QED
      BY <1>2, <1>6, <3>1, <3>4, <3>5, WhereTo DEF Inv
  <2>. HIDE DEF To
  <2>3. \A u \in Part : Next_barrier(tp', th'[u], u) = To
    BY <1>5, <2>1, <2>2 DEF Part
  <2>4. 0 \in Part
    BY <1>8, OwnerTakesPart DEF Inv
  <2>. QED
    BY <1>11, <2>3, <2>4 DEF Together
<1>15. Members'
  <2>1. ASSUME NEW u \in Threads, Inside(tp', th'[u]) \/ (Late(tp', th'[u]) /\ th'[u].after # "end")
        PROVE  u < tp'.n_threads /\ ~Unseen(tp', th'[u], u)
    <3>1. CASE u = t
      BY <1>5, <1>6, <1>8, <1>13, <3>1
    <3>2. CASE u # t
      <4>1. Inside(tp, th[u]) \/ (Late(tp, th[u]) /\ th[u].after # "end")
        BY <1>5, <1>12, <2>1, <3>2 DEF Inside, Late, Waiting
      <4>. QED
        BY <1>5, <1>6, <1>13, <3>2, <4>1, AtWorkIs DEF Part
    <3>. QED
      BY <3>1, <3>2
  <2>2. ASSUME NEW u \in Threads
        PROVE  /\ u # 0 => th'[u].pc \notin Owner_pcs
               /\ u = 0 => th'[u].pc \notin Worker_pcs
               /\ th'[u].last_graph[1] <= tp'.count
               /\ th'[u].last_graph[1] = tp'.count => ~Unseen(tp', th'[u], u)
    <3>1. CASE u = t
      BY <1>3, <1>4, <1>5, <1>6, <1>13, <3>1 DEF Inv, Members, Member, Owner_pcs, Worker_pcs, AtWork
    <3>2. CASE u # t
      BY <1>5, <1>6, <1>13, <3>2 DEF Inv, Members, Member
    <3>. QED
      BY <3>1, <3>2
  <2>. QED
    BY <2>1, <2>2 DEF Members, Member
<1>16. \A u \in Threads : th'[u].pc \notin {"arrive", "reset", "release"}
  <2>1. y.pc \notin {"arrive", "reset", "release"}
    BY <1>4 DEF AtWork
  <2>2. ASSUME NEW u \in Threads \ {t}, th[u].pc \in {"arrive", "reset", "release"}
        PROVE  FALSE
    <3>1. u \in Part
      BY <2>2, AtWorkIs DEF Inside
    <3>. QED
      BY <1>9, <2>2, <3>1 DEF Waiting
  <2>. QED
    BY <1>5, <2>1, <2>2
<1>17. Round'
  <2>1. \A u \in Threads : th'[u].pc = "spin" => u # t
    BY <1>4, <1>5 DEF AtWork
  <2>2. \A u \in Threads : th'[u].pc = "spin" => th'[u].n_passed <= tp'.n_barrier_passed
    BY <1>5, <1>6, <1>7, <2>1 DEF Inv, Round
  <2>. QED
    BY <1>16, <2>2 DEF Round
<1>18. Last'
  BY <1>16 DEF Last
<1>19. Counted'
  <2>1. Waiters' = {}
    BY <1>12 DEF Waiters
  <2>. QED
    BY <1>6, <1>10, <2>1, FS_EmptySet DEF Counted
<1>20. th'[0].pc = "kickoff" => tp'.count < MaxGraphs
  BY <1>4, <1>5, <1>6, Types DEF Inv, AtWork
<1>. QED
  BY <1>11, <1>14, <1>15, <1>17, <1>18, <1>19, <1>20 DEF Inv

-----------------------------------------------------------------------------
(* The steps of a worker between two graphs.                               *)

LEMMA WorkerMoveStep ==
    ASSUME Inv, NEW w \in Workers, NEW pc \in Worker_pcs \cup {"exit"}, th[w].pc \in Worker_pcs,
           Goto(w, pc), tp' = tp
    PROVE  Inv'
<1>. DEFINE y == [th[w] EXCEPT !.pc = pc]
<1>1. th[w] \in State /\ w \in Threads /\ w # 0 /\ tp \in Pool
  BY Types DEF Inv, Workers
<1>2. y \in State /\ y.pc = pc /\ y.last_graph = th[w].last_graph
  BY <1>1, SMT DEF Worker_pcs, State
<1>3. th' = [th EXCEPT ![w] = y] /\ th'[w] = y /\ \A u \in Threads \ {w} : th'[u] = th[u]
  BY <1>1, Types DEF Goto, Inv
<1>. HIDE DEF y
<1>4. Unseen(tp, y, w) <=> Unseen(tp, th[w], w)
  BY <1>2 DEF Unseen
<1>5. Next_barrier(tp, y, w) = Next_barrier(tp, th[w], w)
  <2>1. CASE Unseen(tp, y, w)
    BY <1>1, <1>2, <1>4, <2>1, WhereTo DEF Inv
  <2>2. CASE ~Unseen(tp, y, w)
    BY <1>1, <1>2, <1>4, <2>2, WhereTo DEF Inv
  <2>. QED
    BY <2>1, <2>2
<1>6. SameRound
  BY DEF SameRound
<1>7. Member(tp, y, w)
  <2>1. ~Inside(tp, y) /\ ~Late(tp, y)
    BY <1>2 DEF Inside, Late, Waiting, AtWork, Worker_pcs
  <2>2. y.pc \notin Owner_pcs
    BY <1>2 DEF Owner_pcs, Worker_pcs
  <2>. QED
    BY <1>1, <1>2, <1>4, <2>1, <2>2 DEF Inv, Members, Member
<1>8. Together'
  <2>1. \A u \in Part : Keeps(u)
    BY <1>3, <1>5, <1>6, SameKeeps DEF Keeps, Part
  <2>. QED
    BY <2>1, TogetherStep
<1>9. /\ ~Waiting(tp, th[w]) /\ th[w].pc \notin {"arrive", "reset", "release"}
      /\ y.pc \notin {"kickoff", "reset", "release", "spin", "arrive"}
  BY <1>2 DEF Waiting, Worker_pcs
<1>. QED
  BY <1>1, <1>2, <1>3, <1>6, <1>7, <1>8, <1>9, ThreadStep

\* A worker sees a new graph, and takes part in it when its number says so.
LEMMA LookStep ==
    ASSUME Inv, NEW w \in Workers, NEW pc \in {"lock", "loop"}, th[w].pc \in Worker_pcs,
           NewGraph(w), Look(w, pc), tp' = tp
    PROVE  Inv'
<1>. DEFINE y == [th[w] EXCEPT !.last_graph = n_graph, !.node = IF w < tp.n_threads THEN 0 ELSE @,
                               !.pc = IF w < tp.n_threads THEN "node" ELSE pc]
<1>1. th[w] \in State /\ w \in Threads /\ w # 0 /\ tp \in Pool /\ w \in Nat
  BY Types DEF Inv, Workers, Threads
<1>2. n_graph \in Nat \X (0 .. NumThreads) /\ n_graph[1] = tp.count
  BY Types DEF n_graph, Inv, Pool
<1>3. /\ y \in State /\ y.last_graph = n_graph
      /\ y.pc = IF w < tp.n_threads THEN "node" ELSE pc
      /\ w < tp.n_threads => y.node = 0
  <2>. HIDE DEF n_graph
  <2>1. CASE w < tp.n_threads
    <3>1. y = [th[w] EXCEPT !.last_graph = n_graph, !.node = 0, !.pc = "node"]
      BY <2>1
    <3>. HIDE DEF y
    <3>. QED
      BY <1>1, <1>2, <2>1, <3>1 DEF State
  <2>2. CASE ~(w < tp.n_threads)
    <3>1. y = [th[w] EXCEPT !.last_graph = n_graph, !.pc = pc]
      BY <1>1, <2>2 DEF State
    <3>. HIDE DEF y
    <3>. QED
      BY <1>1, <1>2, <2>2, <3>1 DEF State
  <2>. QED
    BY <2>1, <2>2
<1>4. th' = [th EXCEPT ![w] = y]
  BY <1>1, Types DEF Look, Inv
<1>5. th'[w] = y /\ \A u \in Threads \ {w} : th'[u] = th[u]
  BY <1>1, <1>4, Types DEF Inv
<1>. HIDE DEF y
<1>6. Unseen(tp, th[w], w) /\ ~Unseen(tp, y, w)
  BY <1>1, <1>3 DEF NewGraph, Unseen, n_graph
<1>7. SameRound
  BY DEF SameRound
<1>8. w \in Part => Next_barrier(tp, y, w) = Next_barrier(tp, th[w], w)
  BY <1>1, <1>3, <1>6, WhereTo DEF Part, Inv
<1>9. Member(tp, y, w)
  <2>1. y.pc \notin Owner_pcs /\ ~Late(tp, y)
    BY <1>3 DEF Owner_pcs, Late
  <2>2. Inside(tp, y) => w < tp.n_threads
    BY <1>3 DEF Inside, AtWork, Waiting
  <2>3. y.last_graph[1] <= tp.count
    BY <1>2, <1>3, Types DEF Inv
  <2>. QED
    BY <1>1, <1>6, <2>1, <2>2, <2>3 DEF Member
<1>10. Together'
  <2>1. \A u \in Part : Keeps(u)
    BY <1>5, <1>7, <1>8, SameKeeps DEF Keeps, Part
  <2>. QED
    BY <2>1, TogetherStep
<1>11. /\ ~Waiting(tp, th[w]) /\ th[w].pc \notin {"arrive", "reset", "release"}
       /\ y.pc \notin {"kickoff", "reset", "release", "spin", "arrive"}
  BY <1>3 DEF Waiting, Worker_pcs
<1>. QED
  BY <1>1, <1>3, <1>4, <1>7, <1>9, <1>10, <1>11, ThreadStep

LEMMA WorkerStep ==
    ASSUME Inv, NEW w \in Workers, Worker(w)
    PROVE  Inv'
<1>1. CASE PauseSleep(w)
  BY <1>1, WorkerMoveStep DEF PauseSleep, Worker_pcs
<1>2. CASE CheckStop(w)
  BY <1>2, WorkerMoveStep DEF CheckStop, Worker_pcs
<1>3. CASE PollOrExit(w)
  <2>1. PICK pc \in {"exit", "poll"} : Goto(w, pc)
    BY <1>3 DEF PollOrExit
  <2>. QED
    BY <1>3, <2>1, WorkerMoveStep DEF PollOrExit, Worker_pcs
<1>4. CASE PollWork(w)
  BY <1>4, LookStep DEF PollWork, Worker_pcs
<1>5. CASE PollEnds(w)
  BY <1>5, WorkerMoveStep DEF PollEnds, Worker_pcs
<1>6. CASE LockedWork(w)
  BY <1>6, LookStep DEF LockedWork, Worker_pcs
<1>7. CASE LockedReturn(w)
  BY <1>7, WorkerMoveStep DEF LockedReturn, Worker_pcs
<1>8. CASE LockedSleep(w)
  BY <1>8, WorkerMoveStep DEF LockedSleep, Worker_pcs
<1>. QED
  BY <1>1, <1>2, <1>3, <1>4, <1>5, <1>6, <1>7, <1>8 DEF Worker

-----------------------------------------------------------------------------
(* The calls of the owner.                                                 *)

\* What a broadcast does to the record of a thread; Owner_pcs and the end of thread 0 for itself.
Woken(x, y) ==
    /\ y.last_graph = x.last_graph /\ y.node = x.node /\ y.n_passed = x.n_passed /\ y.after = x.after
    /\ y.pc = x.pc \/ (x.pc \in Worker_pcs /\ y.pc \in Worker_pcs)

LEMMA BroadcastWakes ==
    ASSUME NEW f \in [Threads -> State], NEW t \in Threads
    PROVE  Broadcast(f)[t] \in State /\ Woken(f[t], Broadcast(f)[t])
<1>. DEFINE pc == CASE f[t].pc = "asleep" -> "lock" [] f[t].pc = "paused" -> "loop" [] OTHER -> f[t].pc
            y  == [f[t] EXCEPT !.pc = pc]
<1>1. Broadcast(f)[t] = y
  BY DEF Broadcast
<1>2. /\ pc \in {"idle", "kickoff", "join", "exit", "loop", "check", "poll", "lock", "asleep", "paused",
                 "node", "computed", "chunk", "take", "barrier", "arrive", "reset", "release", "spin"}
      /\ pc = f[t].pc \/ (f[t].pc \in Worker_pcs /\ pc \in Worker_pcs)
  BY DEF State, Worker_pcs
<1>. HIDE DEF pc
<1>3. /\ y \in State /\ y.pc = pc /\ y.last_graph = f[t].last_graph /\ y.node = f[t].node
      /\ y.n_passed = f[t].n_passed /\ y.after = f[t].after
  BY <1>2 DEF State
<1>. HIDE DEF y
<1>. QED
  BY <1>1, <1>2, <1>3 DEF Woken

\* Between two graphs nobody is inside, so that the owner may change what it likes, threads being
\* woken at most: all of them are out before and after.
LEMMA OwnerStep ==
    ASSUME Inv, th[0].pc \in Owner_pcs, tp' \in Pool, tp'.graph \in Seq(Kinds), SameRound,
           tp'.n_barrier = tp.n_barrier, DOMAIN th' = Threads, th' = [t \in Threads |-> th'[t]],
           \A w \in Workers : th'[w] \in State /\ Woken(th[w], th'[w]),
           th'[0] \in State, th'[0].pc \in Owner_pcs \cup {"exit"}, th'[0].last_graph = th[0].last_graph,
           th'[0].pc = "kickoff" => tp'.count < MaxGraphs
    PROVE  Inv'
<1>1. 0 \in Threads /\ Threads = Workers \cup {0} /\ 0 \notin Workers
  BY Types DEF Inv, Workers
<1>2. TypeOK'
  <2>1. th' \in [Threads -> State]
    BY <1>1
  <2>. QED
    BY <2>1 DEF TypeOK, Pool, State
<1>3. Part' = Part
  BY DEF Part, SameRound
<1>4. \A t \in Threads : ~Inside(tp, th[t]) /\ ~(Late(tp, th[t]) /\ th[t].after # "end")
  BY AllOut
<1>5. \A t \in Threads : ~Inside(tp', th'[t]) /\ ~(Late(tp', th'[t]) /\ th'[t].after # "end")
  <2>1. ~Inside(tp', th'[0]) /\ ~Late(tp', th'[0])
    BY DEF Inside, Late, Waiting, AtWork, Owner_pcs
  <2>2. ASSUME NEW w \in Workers
        PROVE  ~Inside(tp', th'[w]) /\ ~(Late(tp', th'[w]) /\ th'[w].after # "end")
    <3>1. w \in Threads /\ Woken(th[w], th'[w])
      BY <1>1
    <3>2. CASE th'[w].pc = th[w].pc
      BY <1>4, <3>1, <3>2 DEF Woken, Inside, Late, Waiting, SameRound
    <3>3. CASE th'[w].pc \in Worker_pcs
      BY <3>3 DEF Inside, Late, Waiting, AtWork, Worker_pcs
    <3>. QED
      BY <3>1, <3>2, <3>3 DEF Woken
  <2>. QED
    BY <1>1, <2>1, <2>2
<1>6. \A t \in Threads : Unseen(tp', th'[t], t) <=> Unseen(tp, th[t], t)
  BY <1>1 DEF Unseen, SameRound, Woken
<1>7. Together'
  <2>1. ASSUME NEW t \in Part
        PROVE  Next_barrier(tp', th'[t], t) = Out
    <3>1. t \in Threads /\ 0 \in Part /\ th[t] \in State /\ th[0] \in State /\ th'[t] \in State
          /\ tp \in Pool /\ tp.graph \in Seq(Kinds)
      BY <1>1, OwnerTakesPart, Types DEF Inv, Part
    <3>2. Next_barrier(tp, th[0], 0) = Out
      BY <1>1, <3>1, WhereTo DEF Inv, Unseen
    <3>3. Next_barrier(tp, th[t], t) = Out
      BY <3>2 DEF Inv, Together
    <3>4. ~Unseen(tp, th[t], t)
      BY <3>1, <3>3, DoneIsOut DEF Inv
    <3>. QED
      BY <1>5, <1>6, <3>1, <3>4, DoneIsOut DEF Inv
  <2>2. Part = {} \/ 0 \in Part
    BY OwnerTakesPart DEF Inv
  <2>. QED
    BY <1>3, <2>1, <2>2 DEF Together
<1>8. Members'
  <2>1. Member(tp', th'[0], 0)
    <3>1. th'[0].pc \notin Worker_pcs
      BY DEF Owner_pcs, Worker_pcs
    <3>2. th'[0].last_graph[1] <= tp'.count
      BY <1>1 DEF SameRound, Inv, Members, Member
    <3>. QED
      BY <1>1, <1>5, <3>1, <3>2 DEF Member, Unseen
  <2>2. ASSUME NEW w \in Workers
        PROVE  Member(tp', th'[w], w)
    <3>1. w \in Threads /\ w # 0 /\ Member(tp, th[w], w) /\ Woken(th[w], th'[w])
      BY <1>1 DEF Inv, Members
    <3>2. th'[w].pc \notin Owner_pcs
      BY <3>1 DEF Member, Woken, Owner_pcs, Worker_pcs
    <3>3. /\ th'[w].last_graph[1] <= tp'.count
          /\ th'[w].last_graph[1] = tp'.count => ~Unseen(tp', th'[w], w)
      BY <1>6, <3>1 DEF Member, Woken, SameRound
    <3>. QED
      BY <1>5, <3>1, <3>2, <3>3 DEF Member
  <2>. QED
    BY <1>1, <2>1, <2>2 DEF Members
<1>9. \A t \in Threads : th'[t].pc \notin {"arrive", "reset", "release"} /\ th[t].pc \notin {"arrive", "reset", "release"}
  BY <1>4, <1>5 DEF Inside
<1>10. Round'
  <2>1. ASSUME NEW t \in Threads, th'[t].pc = "spin"
        PROVE  th'[t].n_passed <= tp'.n_barrier_passed
    <3>1. t \in Workers /\ Woken(th[t], th'[t])
      BY <1>1, <2>1 DEF Owner_pcs
    <3>2. th[t].pc = "spin" /\ th'[t].n_passed = th[t].n_passed
      BY <2>1, <3>1 DEF Woken, Worker_pcs
    <3>. QED
      BY <3>2 DEF Inv, Round, SameRound
  <2>. QED
    BY <1>9, <2>1 DEF Round
<1>11. Last'
  BY <1>9 DEF Last
<1>12. Counted'
  <2>1. Waiters = {} /\ Waiters' = {}
    BY <1>4, <1>5 DEF Waiters, Inside
  <2>. QED
    BY <1>9, <2>1 DEF Inv, Counted
<1>. QED
  BY <1>2, <1>7, <1>8, <1>10, <1>11, <1>12 DEF Inv

LEMMA GraphResetStep ==
    ASSUME Inv, GraphReset
    PROVE  Inv'
<1>1. th[0].pc = "idle" /\ th[0] \in State /\ tp \in Pool /\ 0 \in Threads
  BY Types DEF GraphReset, Inv
<1>2. PICK g \in Graphs : tp' = [tp EXCEPT !.graph = g, !.current_chunk = 0, !.abort = NoAbort]
  BY DEF GraphReset
<1>3. tp' \in Pool /\ SameRound /\ tp'.n_barrier = tp.n_barrier /\ tp'.graph = g /\ tp'.count = tp.count
  <2>1. NoAbort \in Int
    BY DEF NoAbort
  <2>. QED
    BY <1>1, <1>2, <2>1 DEF Pool, SameRound
<1>4. g \in Seq(Kinds)
  BY PoolAssumption
<1>. DEFINE y == [th[0] EXCEPT !.pc = "kickoff"]
<1>5. y \in State /\ y.pc = "kickoff" /\ y.last_graph = th[0].last_graph
  BY <1>1 DEF State
<1>6. th' = [th EXCEPT ![0] = y] /\ tp.count < MaxGraphs
  BY DEF GraphReset, Goto
<1>. HIDE DEF y
<1>7. /\ DOMAIN th' = Threads /\ th' = [t \in Threads |-> th'[t]] /\ th'[0] = y
      /\ \A w \in Workers : th'[w] \in State /\ Woken(th[w], th'[w])
  BY <1>1, <1>6, Types DEF Inv, Workers, Woken
<1>. QED
  BY <1>1, <1>3, <1>4, <1>5, <1>6, <1>7, OwnerStep DEF Owner_pcs

\* A broadcast, with thread 0 at pc.
LEMMA BroadcastIs ==
    ASSUME TypeOK, th[0].pc \in Owner_pcs, NEW pc \in Owner_pcs \cup {"node"}, NEW f,
           f = [th EXCEPT ![0].pc = pc], th' = Broadcast(f)
    PROVE  /\ DOMAIN th' = Threads /\ th' = [t \in Threads |-> th'[t]]
           /\ \A w \in Workers : th'[w] \in State /\ Woken(th[w], th'[w])
           /\ th'[0] = [th[0] EXCEPT !.pc = pc]
           /\ th'[0] \in State /\ th'[0].pc = pc /\ th'[0].last_graph = th[0].last_graph
<1>1. th \in [Threads -> State] /\ 0 \in Threads /\ th[0] \in State
  BY Types
<1>. DEFINE y == [th[0] EXCEPT !.pc = pc]
<1>2. y \in State /\ y.pc = pc /\ y.last_graph = th[0].last_graph
  BY <1>1 DEF State, Owner_pcs
<1>3. f = [th EXCEPT ![0] = y]
  OBVIOUS
<1>4. f \in [Threads -> State] /\ f[0] = y /\ \A w \in Workers : w \in Threads /\ f[w] = th[w]
  <2>. HIDE DEF y
  <2>. QED
    BY <1>1, <1>2, <1>3 DEF Workers
<1>5. DOMAIN th' = Threads /\ th' = [t \in Threads |-> th'[t]]
  BY DEF Broadcast
<1>6. \A w \in Workers : th'[w] \in State /\ Woken(th[w], th'[w])
  BY <1>4, BroadcastWakes
<1>7. th'[0] = y
  <2>1. th'[0] = [f[0] EXCEPT !.pc = CASE f[0].pc = "asleep" -> "lock" [] f[0].pc = "paused" -> "loop" [] OTHER -> f[0].pc]
    BY <1>1 DEF Broadcast
  <2>2. f[0].pc = pc /\ pc # "asleep" /\ pc # "paused"
    BY <1>2, <1>4 DEF Owner_pcs
  <2>3. th'[0] = [f[0] EXCEPT !.pc = pc]
    BY <2>1, <2>2
  <2>. QED
    BY <1>1, <1>4, <2>3 DEF State
<1>. QED
  BY <1>2, <1>5, <1>6, <1>7

LEMMA OwnerCallStep ==
    ASSUME Inv, Pause \/ Resume \/ Free
    PROVE  Inv'
<1>1. th[0].pc = "idle" /\ tp \in Pool /\ tp.graph \in Seq(Kinds) /\ 0 \in Threads
  BY Types DEF Pause, Resume, Free, Inv
<1>2. PICK pc \in {"idle", "join"} : th' = Broadcast([th EXCEPT ![0].pc = pc])
  <2>1. CASE Free
    BY <2>1 DEF Free
  <2>2. CASE Pause \/ Resume
    <3>1. th = [th EXCEPT ![0].pc = "idle"]
      BY <1>1, Types DEF Inv, State
    <3>. QED
      BY <2>2, <3>1 DEF Pause, Resume
  <2>. QED
    BY <2>1, <2>2
<1>3. tp' \in Pool /\ SameRound /\ tp'.n_barrier = tp.n_barrier /\ tp'.graph = tp.graph
  <2>1. CASE Pause
    BY <1>1, <2>1 DEF Pause, Pool, SameRound
  <2>2. CASE Resume
    BY <1>1, <2>2 DEF Resume, Pool, SameRound
  <2>3. CASE Free
    BY <1>1, <2>3 DEF Free, Pool, SameRound
  <2>. QED
    BY <2>1, <2>2, <2>3
<1>4. /\ DOMAIN th' = Threads /\ th' = [t \in Threads |-> th'[t]]
      /\ \A w \in Workers : th'[w] \in State /\ Woken(th[w], th'[w])
      /\ th'[0] \in State /\ th'[0].pc = pc /\ th'[0].last_graph = th[0].last_graph
  BY <1>1, <1>2, BroadcastIs DEF Inv, Owner_pcs
<1>. QED
  BY <1>1, <1>3, <1>4, OwnerStep DEF Owner_pcs

LEMMA JoinStep ==
    ASSUME Inv, Join
    PROVE  Inv'
<1>. DEFINE y == [th[0] EXCEPT !.pc = "exit"]
<1>1. th[0].pc = "join" /\ th[0] \in State /\ tp \in Pool /\ tp.graph \in Seq(Kinds) /\ 0 \in Threads
  BY Types DEF Join, Inv
<1>2. y \in State /\ y.pc = "exit" /\ y.last_graph = th[0].last_graph
  BY <1>1 DEF State
<1>3. th' = [th EXCEPT ![0] = y] /\ tp' = tp
  BY DEF Join, Goto
<1>. HIDE DEF y
<1>4. /\ DOMAIN th' = Threads /\ th' = [t \in Threads |-> th'[t]] /\ th'[0] = y
      /\ \A w \in Workers : th'[w] \in State /\ Woken(th[w], th'[w])
  BY <1>1, <1>3, Types DEF Inv, Workers, Woken
<1>. QED
  BY <1>1, <1>2, <1>3, <1>4, OwnerStep DEF Owner_pcs, SameRound

\* A new graph: no worker has seen it, and thread 0 is at its first node.
LEMMA KickoffIs ==
    ASSUME Inv, Kickoff
    PROVE  /\ tp' \in Pool /\ tp'.count = tp.count + 1 /\ tp'.n_threads \in 1 .. NumThreads /\ tp'.graph = tp.graph
           /\ tp'.n_barrier = tp.n_barrier /\ tp'.n_barrier_passed = tp.n_barrier_passed /\ tp'.abort = tp.abort
           /\ th' \in [Threads -> State]
           /\ th'[0].pc = "node" /\ th'[0].node = 0 /\ th'[0].last_graph = th[0].last_graph
           /\ \A w \in Workers : /\ Woken(th[w], th'[w])
                                 /\ th'[w].last_graph[1] < tp'.count /\ Unseen(tp', th'[w], w)
<1>. DEFINE f == [th EXCEPT ![0].pc = "node", ![0].node = 0]
            y == [th[0] EXCEPT !.pc = "node", !.node = 0]
<1>1. th[0] \in State /\ tp \in Pool /\ 0 \in Threads /\ th \in [Threads -> State]
      /\ tp.count \in Nat /\ tp.count < MaxGraphs /\ MaxGraphs \in Nat
  BY Types DEF Kickoff, Inv
<1>2. y \in State /\ y.pc = "node" /\ y.node = 0 /\ y.last_graph = th[0].last_graph
  BY <1>1 DEF State
<1>3. f = [th EXCEPT ![0] = y]
  OBVIOUS
<1>4. th' = Broadcast(f)
  BY DEF Kickoff
<1>5. PICK n \in 1 .. NumThreads : tp' = [tp EXCEPT !.count = @ + 1, !.n_threads = n, !.pause = FALSE]
  BY DEF Kickoff
<1>6. /\ tp' \in Pool /\ tp'.count = tp.count + 1 /\ tp'.n_threads = n /\ tp'.graph = tp.graph
      /\ tp'.n_barrier = tp.n_barrier /\ tp'.n_barrier_passed = tp.n_barrier_passed /\ tp'.abort = tp.abort
  <2>1. n \in 0 .. NumThreads /\ tp.count + 1 \in 0 .. MaxGraphs
    BY <1>1, Types DEF Inv
  <2>2. tp' = [tp EXCEPT !.count = tp.count + 1, !.n_threads = n, !.pause = FALSE]
    BY <1>5
  <2>. QED
    BY <1>1, <2>1, <2>2 DEF Pool
<1>7. f \in [Threads -> State] /\ f[0] = y /\ \A w \in Workers : w \in Threads /\ w # 0 /\ f[w] = th[w]
  <2>. HIDE DEF y
  <2>. QED
    BY <1>1, <1>2, <1>3 DEF Workers
<1>. HIDE DEF f
<1>8. \A t \in Threads : th'[t] \in State /\ Woken(f[t], th'[t])
  BY <1>4, <1>7, BroadcastWakes
<1>9. th' \in [Threads -> State]
  <2>1. th' = [t \in Threads |-> th'[t]]
    BY <1>4 DEF Broadcast
  <2>. QED
    BY <1>8, <2>1
<1>. HIDE DEF y
<1>10. th'[0].pc = "node" /\ th'[0].node = 0 /\ th'[0].last_graph = th[0].last_graph
  BY <1>1, <1>2, <1>7, <1>8 DEF Woken, Worker_pcs
<1>11. ASSUME NEW w \in Workers
       PROVE  Woken(th[w], th'[w]) /\ th'[w].last_graph[1] < tp'.count /\ Unseen(tp', th'[w], w)
  <2>1. w \in Threads /\ w # 0 /\ Woken(th[w], th'[w]) /\ th[w] \in State
    BY <1>1, <1>7, <1>8
  <2>2. th[w].last_graph[1] <= tp.count /\ th[w].last_graph[1] \in Nat
    BY <2>1 DEF Inv, Members, Member, State
  <2>3. th'[w].last_graph[1] < tp'.count
    BY <1>1, <1>6, <2>1, <2>2 DEF Woken
  <2>4. Unseen(tp', th'[w], w)
    BY <1>1, <1>6, <2>1, <2>2, <2>3 DEF Unseen, Woken
  <2>. QED
    BY <2>1, <2>3, <2>4
<1>. QED
  BY <1>6, <1>9, <1>10, <1>11

LEMMA KickoffStep ==
    ASSUME Inv, Kickoff
    PROVE  Inv'
<1>1. th[0].pc = "kickoff" /\ th[0] \in State /\ 0 \in Threads /\ tp.graph \in Seq(Kinds)
      /\ th \in [Threads -> State] /\ tp.count \in Nat /\ tp.count < MaxGraphs /\ MaxGraphs \in Nat
  BY Types DEF Kickoff, Inv
<1>2. /\ tp' \in Pool /\ tp'.count = tp.count + 1 /\ tp'.n_threads \in 1 .. NumThreads /\ tp'.graph = tp.graph
      /\ tp'.n_barrier = tp.n_barrier /\ tp'.n_barrier_passed = tp.n_barrier_passed /\ tp'.abort = tp.abort
  BY KickoffIs
<1>3. \A w \in Workers : w \in Threads /\ w # 0
  BY DEF Workers
<1>4. th' \in [Threads -> State] /\ \A w \in Workers : th'[w] \in State /\ Woken(th[w], th'[w])
  BY <1>3, KickoffIs
<1>5. PICK y \in State : y = th'[0] /\ y.pc = "node" /\ y.node = 0 /\ y.last_graph = th[0].last_graph
  BY <1>1, KickoffIs
<1>6. TypeOK'
  BY <1>2, <1>4 DEF TypeOK, Pool, State
<1>7. \A t \in Threads : ~Inside(tp, th[t]) /\ ~(Late(tp, th[t]) /\ th[t].after # "end")
  BY <1>1, AllOut DEF Owner_pcs
<1>8. ASSUME NEW w \in Workers
       PROVE  /\ Unseen(tp', th'[w], w) /\ th'[w].last_graph[1] < tp'.count
              /\ ~Inside(tp', th'[w]) /\ ~(Late(tp', th'[w]) /\ th'[w].after # "end")
              /\ th'[w].pc \notin Owner_pcs
              /\ th'[w].pc = "spin" => th'[w].n_passed <= tp'.n_barrier_passed
  <2>1. w \in Threads /\ w # 0 /\ Woken(th[w], th'[w]) /\ th[w] \in State
    BY <1>1, <1>3, <1>4
  <2>2. th[w].last_graph[1] <= tp.count /\ th[w].last_graph[1] \in Nat /\ th[w].pc \notin Owner_pcs
    BY <2>1 DEF Inv, Members, Member, State
  <2>3. th'[w].last_graph[1] < tp'.count
    BY KickoffIs
  <2>4. Unseen(tp', th'[w], w)
    BY KickoffIs
  <2>5. ~Inside(tp', th'[w]) /\ ~(Late(tp', th'[w]) /\ th'[w].after # "end")
    <3>1. CASE th'[w].pc = th[w].pc
      BY <1>2, <1>7, <2>1, <3>1 DEF Woken, Inside, Late, Waiting
    <3>2. CASE th'[w].pc \in Worker_pcs
      BY <3>2 DEF Inside, Late, Waiting, AtWork, Worker_pcs
    <3>. QED
      BY <2>1, <3>1, <3>2 DEF Woken
  <2>6. th'[w].pc \notin Owner_pcs
    BY <2>1, <2>2 DEF Woken, Owner_pcs, Worker_pcs
  <2>7. th'[w].pc = "spin" => th[w].pc = "spin" /\ th'[w].n_passed = th[w].n_passed
    BY <2>1 DEF Woken, Worker_pcs
  <2>8. th'[w].pc = "spin" => th'[w].n_passed <= tp'.n_barrier_passed
    BY <1>2, <2>1, <2>7 DEF Inv, Round
  <2>. QED
    BY <2>3, <2>4, <2>5, <2>6, <2>8
<1>9. Threads = Workers \cup {0} /\ 0 \notin Workers
  BY <1>1 DEF Workers
<1>10. Together'
  <2>1. Next_barrier(tp', y, 0) = From(tp'.graph, tp'.abort, 0)
    BY <1>1, <1>2, <1>5, WhereTo DEF Inv, Unseen
  <2>2. \A w \in Workers : Next_barrier(tp', th'[w], w) = From(tp'.graph, tp'.abort, 0)
    BY <1>2, <1>3, <1>4, <1>8, WhereTo DEF Inv
  <2>3. \A t \in Threads : Next_barrier(tp', th'[t], t) = From(tp'.graph, tp'.abort, 0)
    BY <1>5, <1>9, <2>1, <2>2
  <2>. QED
    BY <1>1, <2>3 DEF Together, Part
<1>11. Members'
  <2>1. Member(tp', y, 0)
    <3>1. y.last_graph[1] <= tp'.count /\ y.pc \notin Worker_pcs
      <4>1. th[0].last_graph[1] <= tp.count /\ th[0].last_graph[1] \in Nat
        BY <1>1 DEF Inv, Members, Member, State
      <4>. QED
        BY <1>1, <1>2, <1>5, <4>1 DEF Worker_pcs
    <3>2. ~Late(tp', y) /\ 0 < tp'.n_threads
      BY <1>2, <1>5 DEF Late
    <3>. QED
      BY <3>1, <3>2 DEF Member, Unseen
  <2>2. \A w \in Workers : Member(tp', th'[w], w)
    BY <1>3, <1>8, <1>4, <1>6 DEF Member, TypeOK
  <2>. QED
    BY <1>5, <1>9, <2>1, <2>2 DEF Members
<1>12. \A t \in Threads : th'[t].pc \notin {"arrive", "reset", "release"} /\ th[t].pc \notin {"reset", "release"}
  BY <1>5, <1>7, <1>8, <1>9 DEF Inside
<1>13. Round'
  BY <1>5, <1>8, <1>9, <1>12 DEF Round
<1>14. Last'
  BY <1>12 DEF Last
<1>15. Counted'
  <2>1. Waiters = {} /\ Waiters' = {}
    BY <1>5, <1>7, <1>8, <1>9 DEF Waiters, Inside, Waiting
  <2>. QED
    BY <1>2, <1>12, <2>1 DEF Inv, Counted
<1>16. th'[0].pc = "kickoff" => tp'.count < MaxGraphs
  BY <1>5
<1>. QED
  BY <1>6, <1>10, <1>11, <1>13, <1>14, <1>15, <1>16 DEF Inv

-----------------------------------------------------------------------------
(* The theorems.                                                           *)

LEMMA InitInv ==
    ASSUME Init
    PROVE  Inv
<1>1. PICK paused \in BOOLEAN :
        tp = [graph |-> <<>>, count |-> 0, n_threads |-> 0, n_barrier |-> 0, n_barrier_passed |-> 0,
              current_chunk |-> 0, stop |-> FALSE, pause |-> paused, abort |-> NoAbort]
  BY DEF Init
<1>2. /\ DOMAIN th = Threads /\ th = [t \in Threads |-> th[t]]
      /\ \A t \in Threads : th[t] = [pc |-> IF t = 0 THEN "idle" ELSE "loop", last_graph |-> <<0, 0>>,
                                     node |-> 0, chunk |-> 0, n_passed |-> 0, after |-> "end"]
  BY DEF Init
<1>3. tp \in Pool
  <2>1. 0 \in 0 .. MaxGraphs /\ 0 \in 0 .. NumThreads /\ NoAbort \in Int
    BY PoolAssumption DEF NoAbort
  <2>. QED
    BY <1>1, <2>1 DEF Pool
<1>4. \A t \in Threads : th[t] \in State
  <2>1. <<0, 0>> \in Nat \X (0 .. NumThreads)
    BY PoolAssumption
  <2>. QED
    BY <1>2, <2>1 DEF State
<1>5. TypeOK
  <2>1. th \in [Threads -> State]
    BY <1>2, <1>4
  <2>. QED
    BY <1>3, <2>1 DEF TypeOK, Pool, State
<1>6. tp.count = 0 /\ tp.n_threads = 0 /\ tp.n_barrier = 0
  BY <1>1
<1>7. \A t \in Threads : th[t].pc \in {"idle", "loop"} /\ th[t].last_graph = <<0, 0>>
                         /\ (t = 0 => th[t].pc = "idle") /\ (t # 0 => th[t].pc = "loop")
  BY <1>2
<1>8. Together
  <2>1. Part = {}
    BY <1>6, Types, <1>5 DEF Part, Threads
  <2>. QED
    BY <2>1 DEF Together
<1>9. \A t \in Threads : ~Inside(tp, th[t]) /\ ~Late(tp, th[t]) /\ ~Unseen(tp, th[t], t)
  BY <1>6, <1>7 DEF Inside, Late, Waiting, AtWork, Unseen
<1>10. Members
  BY <1>6, <1>7, <1>9 DEF Members, Member, Owner_pcs, Worker_pcs
<1>11. Round /\ Last
  BY <1>7 DEF Round, Last
<1>12. Counted
  <2>1. Waiters = {}
    BY <1>9 DEF Waiters, Inside
  <2>. QED
    BY <1>6, <2>1, FS_EmptySet DEF Counted
<1>13. th[0].pc = "idle"
  BY <1>5, <1>7, Types
<1>. QED
  BY <1>5, <1>8, <1>10, <1>11, <1>12, <1>13 DEF Inv

LEMMA StepInv ==
    ASSUME Inv, [Next]_vars
    PROVE  Inv'
<1>1. ASSUME NEW t \in Threads, Compute(t)
      PROVE  Inv'
  BY <1>1, BarrierAloneStep, BarrierEnterStep, BarrierArriveStep, BarrierResetStep, BarrierReleaseStep,
     BarrierSpinStep, GraphEndsStep, SkipNodeStep, ComputeNodeStep, MulMatStartStep, MulMatStep,
     NodeDoneStep DEF Compute
<1>2. ASSUME NEW w \in Workers, Worker(w)
      PROVE  Inv'
  BY <1>2, WorkerStep
<1>3. CASE GraphReset \/ Kickoff \/ Pause \/ Resume \/ Free \/ Join
  BY <1>3, GraphResetStep, KickoffStep, OwnerCallStep, JoinStep
<1>4. CASE UNCHANGED vars
  <2>1. tp' = tp /\ th' = th
    BY <1>4 DEF vars
  <2>. QED
    BY <2>1 DEF Inv, TypeOK, Together, Members, Round, Last, Counted, Part, Waiters
<1>. QED
  BY <1>1, <1>2, <1>3, <1>4 DEF Next

\* The invariant of the pool: types, one common next barrier, and what the barrier's counters mean.
THEOREM SpecInv == Spec => []Inv
<1>1. Init => Inv
  BY InitInv
<1>2. Inv /\ [Next]_vars => Inv'
  BY StepInv
<1>. QED
  BY <1>1, <1>2, PTL DEF Spec

\* QuietBetweenGraphs (ggml_graph_compute): while thread 0 is between two graphs, no
\* worker reads the graph, the chunk counter or the abort flag, however late it is.
THEOREM SpecQuietBetweenGraphs == Spec => []QuietBetweenGraphs
<1>1. Inv => QuietBetweenGraphs
  <2>1. SUFFICES ASSUME Inv, th[0].pc \in Owner_pcs, NEW w \in Workers
                 PROVE  /\ th[w].pc \notin AtWork \cup {"barrier", "arrive", "reset", "release"}
                        /\ th[w].pc = "spin" => th[w].after = "end" /\ th[w].n_passed # tp.n_barrier_passed
    BY DEF QuietBetweenGraphs, Owner_pcs
  <2>2. ~Inside(tp, th[w]) /\ ~(Late(tp, th[w]) /\ th[w].after # "end")
    BY <2>1, AllOut DEF Workers
  <2>. QED
    BY <2>2 DEF Inside, Late, Waiting
<1>. QED
  BY <1>1, SpecInv, PTL

\* InStep (ggml_barrier): no thread works on a node while another works on a different
\* one, whatever they skipped, fused or aborted on the way there.
THEOREM SpecInStep == Spec => []InStep
<1>1. Inv => InStep
  <2>1. SUFFICES ASSUME Inv, NEW t \in Threads, NEW u \in Threads,
                        th[t].pc \in AtWork \ {"node"}, th[u].pc \in AtWork \ {"node"}
                 PROVE  th[t].node = th[u].node
    BY DEF InStep, Inv
  <2>2. \A v \in {t, u} : v \in Part /\ ~Unseen(tp, th[v], v) /\ th[v] \in State
    BY <2>1, AtWorkIs, Types DEF Inside, Inv
  <2>3. \A v \in {t, u} : Next_barrier(tp, th[v], v) = Closes(tp.graph, th[v].node)
    BY <2>1, <2>2, WhereTo, Types DEF Inv
  <2>4. Closes(tp.graph, th[t].node) = Closes(tp.graph, th[u].node)
    BY <2>1, <2>2, <2>3 DEF Inv, Together
  <2>5. th[t].node \in Nat /\ th[u].node \in Nat /\ tp.graph \in Seq(Kinds)
    BY <2>1, <2>2, Types DEF State, Inv
  <2>. QED
    BY <2>4, <2>5, ClosesInjective
<1>. QED
  BY <1>1, SpecInv, PTL
-----------------------------------------------------------------------------
(* Who has computed what.  A thread's place is the first node it has not   *)
(* done its part of.                                                       *)

InBarrier(x)  == x.pc \in {"barrier", "arrive", "reset", "release", "spin"}
Place(p, x, t) ==
    IF Unseen(p, x, t) THEN 0
    ELSE IF x.pc = "computed" \/ (InBarrier(x) /\ x.after = "next") THEN x.node + 1
    ELSE x.node

\* At the mul_mat i, after the barrier that precedes its chunks.
AtChunks(p, x)       == x.pc \in {"chunk", "take"} \/ (Late(p, x) /\ x.after = "chunks")
Started(p, x, t, i)  == Place(p, x, t) > i \/ (Place(p, x, t) = i /\ AtChunks(p, x))

\* Chunk k of the mul_mat i is thread t's to compute: the one it has taken, or its first.
Has(p, x, t, i, k) ==
    /\ Place(p, x, t) <= i
    /\ IF Place(p, x, t) = i /\ x.pc \in {"chunk", "take"} THEN x.pc = "chunk" /\ k = x.chunk ELSE k = t

At(t)        == Place(tp, th[t], t)
Begun(t, i)  == Started(tp, th[t], t, i)
Owes(t, i, k) == Has(tp, th[t], t, i, k)

\* A thread's node is one it can be at, and it leaves the walk at its end.
Shape(p, x, t) ==
    /\ Place(p, x, t) <= Len(p.graph)
    /\ Place(p, x, t) > 0 => p.graph[Place(p, x, t)] # "fuse"
    /\ ~Unseen(p, x, t) =>
        /\ x.pc \in {"chunk", "take"} \/ (InBarrier(x) /\ x.after = "chunks") =>
              x.node < Len(p.graph) /\ p.graph[x.node + 1] = "mul_mat"
        /\ x.pc \notin AtWork /\ (InBarrier(x) => x.after = "end") =>
              x.node = Len(p.graph) \/ x.node = p.abort

MulMats == {i \in 0 .. n_nodes - 1 : Node(i) = "mul_mat"}
Ops     == {i \in 0 .. n_nodes - 1 : Node(i) \in {"op", "fuse"} /\ ~Skipped(i)}

Running   == th[0].pc \notin {"kickoff", "join", "exit"}
Shapes    == \A t \in Part : Shape(tp, th[t], t)
\* Thread 0 goes no further than the node of the abort.
AbortSeen ==
    tp.abort = NoAbort \/ (/\ tp.abort = At(0) /\ th[0].pc \notin {"computed", "chunk", "take"}
                           /\ InBarrier(th[0]) => th[0].after # "chunks")
\* The counter is set when thread 0 comes to the barrier, and nobody takes a chunk until it leaves.
CounterSet == Inside(tp, th[0]) /\ InBarrier(th[0]) /\ th[0].after = "chunks" => tp.current_chunk = tp.n_threads
\* Who is done with the graph has done the same nodes.
AllEnd     == Next_barrier(tp, th[0], 0) = Out => \A t \in Part : At(t) = At(0)

\* A count is 1, and of a part that there is.
PartsOnly ==
    \A key \in DOMAIN computed : computed[key] = 1 /\ \E i \in MulMats \cup Ops : \E k \in Parts(i) : key = <<i, k>>
\* An op: who is past it has computed its part.
OpsDone == \A i \in Ops, t \in Part : <<i, t>> \in DOMAIN computed <=> i < At(t)
\* The chunks of a mul_mat: none, until the barrier opens; then those that were taken and
\* are nobody's any more; at the end, all.
Underway(i) ==
    /\ tp.n_threads <= tp.current_chunk
    /\ \A k \in 0 .. Chunks - 1 :
          <<i, k>> \in DOMAIN computed <=> k < tp.current_chunk /\ \A t \in Part : ~Owes(t, i, k)
    /\ \A t \in Part : \A k \in Nat : Owes(t, i, k) => k < tp.current_chunk
    /\ \A t, u \in Part : \A k \in Nat : Owes(t, i, k) /\ Owes(u, i, k) => t = u
    /\ \A t \in Part : At(t) > i => Chunks <= tp.current_chunk
Chunked(i) ==
    /\ ~Begun(0, i) => \A k \in Nat : <<i, k>> \notin DOMAIN computed
    /\ Begun(0, i) /\ (\E t \in Part : At(t) <= i) => Underway(i)
    /\ Begun(0, i) /\ (\A t \in Part : At(t) > i) => \A k \in 0 .. Chunks - 1 : <<i, k>> \in DOMAIN computed
ChunksDone == \A i \in MulMats : Chunked(i)

Tally ==
    /\ th[0].pc = "kickoff" => tp.abort = NoAbort /\ computed = <<>>
    /\ Running /\ Part = {} => tp.graph = <<>> /\ tp.abort = NoAbort
    /\ Running => PartsOnly
    /\ Running /\ Part # {} => Shapes /\ AbortSeen /\ CounterSet /\ AllEnd /\ OpsDone /\ ChunksDone

-----------------------------------------------------------------------------
(* Lemmas about the places of the threads.                                 *)

\* A barrier is before the chunks of the mul_mat i, or not.
Before(b, i) == b[1] < i \/ (b[1] = i /\ b[2] # "next")

LEMMA Fused ==
    ASSUME TypeOK, NEW i \in Nat, i < Len(tp.graph), tp.graph[i + 1] = "fuse"
    PROVE  i + 1 < Len(tp.graph) /\ tp.graph[i + 2] = "op"
<1>1. tp.graph \in Graphs
  <2>1. tp.graph \in Graphs \cup {<<>>}
    BY Types DEF Pool
  <2>2. tp.graph # <<>>
    BY EmptySeq
  <2>. QED
    BY <2>1, <2>2
<1>2. i + 1 \in 1 .. Len(tp.graph) /\ Len(tp.graph) \in Nat
  BY Types
<1>3. i + 1 < Len(tp.graph) /\ tp.graph[(i + 1) + 1] = "op"
  BY <1>1, <1>2, PoolAssumption
<1>. QED
  BY <1>3

LEMMA StageCloses ==
    ASSUME TypeOK, NEW i \in MulMats, NEW n \in Nat
    PROVE  Before(Closes(tp.graph, n), i) <=> n < i
<1>1. i \in Nat /\ i < Len(tp.graph) /\ Len(tp.graph) \in Nat
  BY Types DEF MulMats, n_nodes
<1>2. CASE n + 1 < Len(tp.graph)
  BY <1>1, <1>2 DEF Before, Closes
<1>3. CASE ~(n + 1 < Len(tp.graph))
  BY <1>1, <1>3 DEF Before, Closes
<1>. QED
  BY <1>2, <1>3

LEMMA StageFrom ==
    ASSUME TypeOK, NEW i \in MulMats, NEW n \in Nat
    PROVE  Before(From(tp.graph, tp.abort, n), i) <=> n <= i
<1>. DEFINE g == tp.graph
            a == tp.abort
            w == First(g, a, n)
            v == IF g[w + 1] = "fuse" THEN w + 1 ELSE w
<1>1. i \in Nat /\ i < Len(g) /\ Len(g) \in Nat /\ g[i + 1] = "mul_mat" /\ g \in Seq(Kinds) /\ a \in Int
  BY Types DEF MulMats, n_nodes, Node
<1>2. w \in Nat /\ w >= n /\ Stops(g, a, w) /\ \A k \in n .. w - 1 : ~Stops(g, a, k)
  BY <1>1, FirstIs
<1>3. From(g, a, n) = Meets(g, a, w)
  BY DEF From
<1>. HIDE DEF w
<1>4. CASE w > i
  <2>1. Stops(g, a, i)
    BY <1>1 DEF Stops
  <2>2. ~(n <= i)
    BY <1>1, <1>2, <1>4, <2>1
  <2>3. ~Before(Meets(g, a, w), i)
    <3>1. CASE w >= Len(g) \/ w = a
      BY <1>1, <1>2, <1>4, <3>1 DEF Meets, Before
    <3>2. CASE ~(w >= Len(g) \/ w = a) /\ g[w + 1] = "mul_mat"
      BY <1>1, <1>2, <1>4, <3>2 DEF Meets, Before
    <3>3. CASE ~(w >= Len(g) \/ w = a) /\ g[w + 1] # "mul_mat"
      <4>1. Meets(g, a, w) = Closes(g, v) /\ v \in Nat /\ ~(v < i)
        BY <1>1, <1>2, <1>4, <3>3 DEF Meets
      <4>. QED
        BY <4>1, StageCloses
    <3>. QED
      BY <3>1, <3>2, <3>3
  <2>. QED
    BY <1>3, <2>2, <2>3
<1>5. CASE w <= i
  <2>1. n <= i
    BY <1>1, <1>2, <1>5
  <2>2. Before(Meets(g, a, w), i)
    <3>1. CASE w = a
      BY <1>1, <1>2, <1>5, <3>1 DEF Meets, Before
    <3>2. CASE w # a /\ g[w + 1] = "mul_mat"
      BY <1>1, <1>2, <1>5, <3>2 DEF Meets, Before
    <3>3. CASE w # a /\ g[w + 1] # "mul_mat"
      <4>1. w < i /\ w < Len(g)
        BY <1>1, <1>2, <1>5, <3>3
      <4>2. v < i /\ v \in Nat
        <5>1. CASE g[w + 1] = "fuse"
          <6>1. g[w + 2] = "op"
            BY <1>2, <4>1, <5>1, Fused
          <6>2. w + 1 # i
            BY <1>1, <1>2, <6>1
          <6>. QED
            BY <1>1, <1>2, <4>1, <5>1, <6>2
        <5>. QED
          BY <1>2, <4>1, <5>1
      <4>3. Meets(g, a, w) = Closes(g, v)
        BY <1>1, <1>2, <3>3, <4>1 DEF Meets
      <4>. QED
        BY <4>2, <4>3, StageCloses
    <3>. QED
      BY <3>1, <3>2, <3>3
  <2>. QED
    BY <1>3, <2>1, <2>2
<1>. QED
  BY <1>1, <1>2, <1>4, <1>5

LEMMA PlaceType ==
    ASSUME NEW p, NEW x \in State, NEW t
    PROVE  Place(p, x, t) \in Nat
<1>1. x.node \in Nat
  BY DEF State
<1>. QED
  BY <1>1 DEF Place

\* A thread has begun the chunks of i when the barrier it comes to next is not before them.
LEMMA StageIs ==
    ASSUME TypeOK, Members, NEW t \in Part, NEW i \in MulMats, Next_barrier(tp, th[t], t) # Out
    PROVE  Begun(t, i) <=> ~Before(Next_barrier(tp, th[t], t), i)
<1>. DEFINE x == th[t]
            b == Next_barrier(tp, th[t], t)
<1>1. t \in Threads /\ x \in State /\ tp \in Pool /\ i \in Nat /\ x.node \in Nat /\ x.node + 1 \in Nat /\ 0 \in Nat
  <2>1. t \in Threads /\ x \in State /\ tp \in Pool /\ i \in Nat
    BY Types DEF Part, MulMats, n_nodes
  <2>2. x.node \in Nat
    BY <2>1 DEF State
  <2>. QED
    BY <2>1, <2>2
<1>2. Inside(tp, x) \/ (Late(tp, x) /\ x.after # "end") => ~Unseen(tp, x, t)
  BY <1>1 DEF Members, Member
<1>4. CASE Unseen(tp, x, t)
  <2>1. b = From(tp.graph, tp.abort, 0) /\ Place(tp, x, t) = 0
    BY <1>1, <1>4, WhereTo DEF Place
  <2>2. ~AtChunks(tp, x)
    BY <1>2, <1>4 DEF AtChunks, Inside, AtWork
  <2>3. Before(b, i) <=> 0 <= i
    BY <1>1, <2>1, StageFrom
  <2>. QED
    BY <1>1, <2>1, <2>2, <2>3 DEF Begun, Started
<1>5. CASE ~Unseen(tp, x, t) /\ x.pc = "node"
  <2>1. b = From(tp.graph, tp.abort, x.node) /\ Place(tp, x, t) = x.node /\ ~AtChunks(tp, x)
    BY <1>1, <1>5, WhereTo DEF Place, InBarrier, AtChunks, Late
  <2>. QED
    BY <1>1, <2>1, StageFrom DEF Begun, Started
<1>6. CASE ~Unseen(tp, x, t) /\ x.pc = "computed"
  <2>1. b = Closes(tp.graph, x.node) /\ Place(tp, x, t) = x.node + 1 /\ ~AtChunks(tp, x)
    BY <1>1, <1>6, WhereTo DEF Place, InBarrier, AtChunks, Late, AtWork
  <2>. QED
    BY <1>1, <2>1, StageCloses DEF Begun, Started
<1>7. CASE ~Unseen(tp, x, t) /\ AtChunks(tp, x)
  <2>1. b = Closes(tp.graph, x.node) /\ Place(tp, x, t) = x.node
    BY <1>1, <1>7, WhereTo DEF Place, InBarrier, AtChunks, Late, AtWork
  <2>. QED
    BY <1>1, <1>7, <2>1, StageCloses DEF Begun, Started
<1>8. CASE ~Unseen(tp, x, t) /\ (x.pc \in {"barrier", "arrive", "reset", "release"} \/ Waiting(tp, x))
  <2>1. b = <<x.node, x.after>> /\ ~AtChunks(tp, x) /\ InBarrier(x)
        /\ Place(tp, x, t) = IF x.after = "next" THEN x.node + 1 ELSE x.node
    BY <1>1, <1>8, WhereTo DEF Place, InBarrier, AtChunks, Late, Waiting
  <2>. QED
    BY <1>1, <2>1 DEF Begun, Started, Before
<1>9. CASE ~Unseen(tp, x, t) /\ Late(tp, x) /\ x.after = "next"
  <2>1. b = From(tp.graph, tp.abort, x.node + 1) /\ Place(tp, x, t) = x.node + 1 /\ ~AtChunks(tp, x)
    BY <1>1, <1>9, WhereTo DEF Place, InBarrier, AtChunks, Late
  <2>. QED
    BY <1>1, <2>1, StageFrom DEF Begun, Started
<1>10. Inside(tp, x) \/ (Late(tp, x) /\ x.after # "end") \/ Unseen(tp, x, t)
  BY <1>1, DoneIsOut, Types
<1>11. x.after \in {"next", "chunks", "end"}
  BY <1>1 DEF State
<1>. QED
  BY <1>4, <1>5, <1>6, <1>7, <1>8, <1>9, <1>10, <1>11 DEF Inside, AtChunks, AtWork

\* The threads of the graph are past that barrier all together.
LEMMA BegunAlike ==
    ASSUME Inv, AllEnd, NEW t \in Part, NEW u \in Part, NEW i \in MulMats
    PROVE  Begun(t, i) <=> Begun(u, i)
<1>1. 0 \in Part /\ Next_barrier(tp, th[t], t) = Next_barrier(tp, th[0], 0)
      /\ Next_barrier(tp, th[u], u) = Next_barrier(tp, th[0], 0)
  BY OwnerTakesPart DEF Inv, Together
<1>2. CASE Next_barrier(tp, th[0], 0) # Out
  BY <1>1, <1>2, StageIs DEF Inv
<1>3. CASE Next_barrier(tp, th[0], 0) = Out
  <2>1. At(t) = At(0) /\ At(u) = At(0)
    BY <1>3 DEF AllEnd
  <2>2. ASSUME NEW v \in Part, Next_barrier(tp, th[v], v) = Out
        PROVE  ~AtChunks(tp, th[v])
    <3>1. v \in Threads /\ th[v] \in State /\ tp \in Pool /\ tp.graph \in Seq(Kinds)
      BY Types DEF Part, Inv
    <3>2. ~Inside(tp, th[v]) /\ ~(Late(tp, th[v]) /\ th[v].after # "end")
      BY <2>2, <3>1, DoneIsOut DEF Inv
    <3>. QED
      BY <3>2 DEF AtChunks, Inside, AtWork
  <2>3. ~AtChunks(tp, th[t]) /\ ~AtChunks(tp, th[u])
    BY <1>1, <1>3, <2>2
  <2>. QED
    BY <2>1, <2>3 DEF Begun, Started, At
<1>. QED
  BY <1>2, <1>3

\* Chunks of two mul_mats are not computed at the same time.
LEMMA OneUnderway ==
    ASSUME Inv, NEW t \in Part, NEW u \in Part, AtChunks(tp, th[t]), AtChunks(tp, th[u])
    PROVE  At(t) = At(u)
<1>1. \A v \in {t, u} : v \in Threads /\ v \in Part /\ th[v] \in State /\ th[v].node \in Nat /\ AtChunks(tp, th[v])
  BY Types DEF Part, Inv, State
<1>2. \A v \in {t, u} : ~Unseen(tp, th[v], v)
  <2>1. \A v \in {t, u} : Inside(tp, th[v]) \/ (Late(tp, th[v]) /\ th[v].after # "end")
    BY <1>1 DEF AtChunks, Inside, AtWork
  <2>. QED
    BY <1>1, <2>1, AtWorkIs
<1>3. \A v \in {t, u} : Next_barrier(tp, th[v], v) = Closes(tp.graph, th[v].node) /\ At(v) = th[v].node
  BY <1>1, <1>2, WhereTo, Types DEF AtChunks, AtWork, Late, At, Place, InBarrier, Inv
<1>4. Closes(tp.graph, th[t].node) = Closes(tp.graph, th[u].node)
  BY <1>1, <1>3 DEF Inv, Together
<1>. QED
  BY <1>1, <1>3, <1>4, ClosesInjective, Types DEF Inv

-----------------------------------------------------------------------------
(* Lemmas about what a step keeps of the tally.                            *)

SameGraph == tp'.graph = tp.graph /\ tp'.count = tp.count /\ tp'.n_threads = tp.n_threads

\* For node i, thread u is where it was, and owes what it owed.
SameAt(u, i) ==
    /\ At(u)' > i <=> At(u) > i
    /\ Begun(u, i)' <=> Begun(u, i)
    /\ \A k \in Nat : Owes(u, i, k)' <=> Owes(u, i, k)

LEMMA AtType ==
    ASSUME TypeOK, NEW t \in Threads
    PROVE  At(t) \in Nat
BY Types, PlaceType DEF At

LEMMA GraphSets ==
    ASSUME SameGraph
    PROVE  /\ Part' = Part /\ MulMats' = MulMats /\ Ops' = Ops /\ Chunks' = Chunks /\ n_nodes' = n_nodes
           /\ \A i : Parts(i)' = Parts(i)
<1>1. n_nodes' = n_nodes /\ \A i : Node(i)' = Node(i)
  BY DEF SameGraph, n_nodes, Node
<1>2. \A i : Skipped(i)' <=> Skipped(i)
  BY <1>1 DEF Skipped
<1>3. Chunks' = Chunks
  BY DEF SameGraph, Chunks
<1>4. \A i : Parts(i)' = Parts(i)
  BY <1>1, <1>3 DEF Parts, SameGraph
<1>5. Part' = Part
  BY DEF SameGraph, Part
<1>6. MulMats' = MulMats
  BY <1>1 DEF MulMats
<1>7. Ops' = Ops
  BY <1>1, <1>2 DEF Ops
<1>. QED
  BY <1>1, <1>3, <1>4, <1>5, <1>6, <1>7

\* A thread that does not move, when no barrier is opened.
LEMMA StaysAt ==
    ASSUME SameRound, NEW u \in Threads, th'[u] = th[u]
    PROVE  At(u)' = At(u) /\ \A i : SameAt(u, i)
<1>1. At(u)' = At(u)
  BY DEF SameRound, At, Place, Unseen
<1>2. AtChunks(tp', th'[u]) <=> AtChunks(tp, th[u])
  BY DEF SameRound, AtChunks, Late
<1>3. \A i : Begun(u, i)' <=> Begun(u, i)
  BY <1>1, <1>2 DEF Begun, Started, At
<1>4. \A i, k : Owes(u, i, k)' <=> Owes(u, i, k)
  BY <1>1 DEF Owes, Has, At
<1>. QED
  BY <1>1, <1>3, <1>4 DEF SameAt

LEMMA ChunkedKept ==
    ASSUME TypeOK, TypeOK', SameGraph, 0 \in Part, NEW i \in MulMats, Chunked(i),
           \A u \in Part : SameAt(u, i),
           \A k \in Nat : <<i, k>> \in DOMAIN computed' <=> <<i, k>> \in DOMAIN computed,
           tp'.current_chunk = tp.current_chunk \/ ~(Begun(0, i) /\ \E u \in Part : At(u) <= i)
    PROVE  Chunked(i)'
<1>1. i \in Nat /\ Part' = Part /\ Chunks' = Chunks /\ Chunks \in Nat
  BY GraphSets, PoolAssumption, Types DEF MulMats, n_nodes, Chunks
<1>2. \A u \in Part : At(u) \in Nat /\ At(u)' \in Nat
  <2>1. \A u \in Part : u \in Threads /\ th[u] \in State
    BY Types DEF Part
  <2>2. \A u \in Part : th'[u] \in State
    BY <2>1 DEF TypeOK, State
  <2>. QED
    BY <2>1, <2>2, PlaceType DEF At
<1>3. \A u \in Part : (At(u)' <= i <=> At(u) <= i) /\ (At(u)' > i <=> At(u) > i)
  BY <1>1, <1>2 DEF SameAt
<1>4. \A u \in Part : Begun(u, i)' <=> Begun(u, i)
  BY DEF SameAt
<1>5. \A u \in Part : \A k \in Nat : Owes(u, i, k)' <=> Owes(u, i, k)
  BY DEF SameAt
<1>6. Begun(0, i)' <=> Begun(0, i)
  BY <1>4
<1>7. CASE ~Begun(0, i)
  BY <1>6, <1>7 DEF Chunked
<1>8. CASE Begun(0, i) /\ \A u \in Part : At(u) > i
  <2>1. \A k \in 0 .. Chunks - 1 : <<i, k>> \in DOMAIN computed
    BY <1>8 DEF Chunked
  <2>2. \A k \in 0 .. Chunks - 1 : <<i, k>> \in DOMAIN computed'
    BY <1>1, <2>1
  <2>3. ~\E u \in Part' : At(u)' <= i
    BY <1>1, <1>2, <1>3, <1>8
  <2>. QED
    BY <1>1, <1>6, <1>8, <2>2, <2>3 DEF Chunked
<1>9. CASE Begun(0, i) /\ \E u \in Part : At(u) <= i
  <2>1. Underway(i) /\ tp'.current_chunk = tp.current_chunk /\ tp'.n_threads = tp.n_threads
    BY <1>9 DEF Chunked, SameGraph
  <2>2. \A k \in 0 .. Chunks - 1 :
            <<i, k>> \in DOMAIN computed' <=> k < tp'.current_chunk /\ \A t \in Part : ~Owes(t, i, k)'
    <3>1. \A k \in 0 .. Chunks - 1 :
            <<i, k>> \in DOMAIN computed <=> k < tp.current_chunk /\ \A t \in Part : ~Owes(t, i, k)
      BY <2>1 DEF Underway
    <3>. QED
      BY <1>1, <1>5, <2>1, <3>1
  <2>3. \A t \in Part : \A k \in Nat : Owes(t, i, k)' => k < tp'.current_chunk
    BY <1>5, <2>1 DEF Underway
  <2>4. \A t, u \in Part : \A k \in Nat : Owes(t, i, k)' /\ Owes(u, i, k)' => t = u
    BY <1>5, <2>1 DEF Underway
  <2>5. \A t \in Part : At(t)' > i => Chunks <= tp'.current_chunk
    BY <1>3, <2>1 DEF Underway
  <2>6. Underway(i)'
    BY <1>1, <2>1, <2>2, <2>3, <2>4, <2>5 DEF Underway
  <2>7. ~\A u \in Part' : At(u)' > i
    BY <1>1, <1>2, <1>3, <1>9
  <2>. QED
    BY <1>6, <1>9, <2>6, <2>7 DEF Chunked
<1>10. \A u \in Part : ~(At(u) > i) => At(u) <= i
  BY <1>1, <1>2
<1>. QED
  BY <1>7, <1>8, <1>9, <1>10

LEMMA OpsKept ==
    ASSUME SameGraph, OpsDone, TypeOK, TypeOK',
           \A i \in Ops, u \in Part : At(u)' > i <=> At(u) > i,
           \A i \in Ops, u \in Part : <<i, u>> \in DOMAIN computed' <=> <<i, u>> \in DOMAIN computed
    PROVE  OpsDone'
<1>1. Ops' = Ops /\ Part' = Part
  BY GraphSets
<1>2. ASSUME NEW i \in Ops, NEW u \in Part
      PROVE  <<i, u>> \in DOMAIN computed' <=> i < At(u)'
  <2>1. i \in Nat /\ u \in Threads /\ th[u] \in State /\ th'[u] \in State
    <3>1. u \in Threads /\ th[u] \in State
      BY Types DEF Part
    <3>. QED
      BY <3>1, Types DEF Ops, n_nodes, TypeOK, State
  <2>2. At(u) \in Nat /\ At(u)' \in Nat
    BY <2>1, PlaceType DEF At
  <2>3. <<i, u>> \in DOMAIN computed <=> i < At(u)
    BY DEF OpsDone
  <2>. QED
    BY <2>1, <2>2, <2>3
<1>. QED
  BY <1>1, <1>2 DEF OpsDone

LEMMA PartsKept ==
    ASSUME SameGraph, PartsOnly, computed' = computed
    PROVE  PartsOnly'
<1>1. /\ MulMats' = MulMats /\ Ops' = Ops
      /\ \A i : Parts(i)' = Parts(i)
  BY GraphSets
<1>. QED
  BY <1>1 DEF PartsOnly

LEMMA ShapesKept ==
    ASSUME Inv, Shapes, SameGraph, NEW t \in Threads, NEW y \in State, th' = [th EXCEPT ![t] = y],
           tp'.abort = tp.abort \/ tp.abort = NoAbort, t \in Part => Shape(tp', y, t)
    PROVE  Shapes'
<1>1. ASSUME NEW u \in Part, u # t
      PROVE  Shape(tp', th[u], u)
  <2>1. Shape(tp, th[u], u) /\ th[u] \in State /\ Place(tp', th[u], u) = Place(tp, th[u], u)
        /\ Unseen(tp', th[u], u) = Unseen(tp, th[u], u)
    BY Types DEF Shapes, Part, Inv, SameGraph, Place, Unseen
  <2>2. th[u].node = tp.abort => th[u].node = tp'.abort
    BY <2>1 DEF State, NoAbort
  <2>. QED
    BY <2>1, <2>2 DEF Shape, SameGraph
<1>2. Part' = Part /\ th'[t] = y /\ \A u \in Threads \ {t} : th'[u] = th[u]
  BY GraphSets, Types DEF Inv
<1>. QED
  BY <1>1, <1>2 DEF Shapes, Part

\* Who is inside the graph has thread 0 on the way with it.
LEMMA InsideRuns ==
    ASSUME Inv, NEW t \in Threads, Inside(tp, th[t])
    PROVE  /\ Running /\ t \in Part /\ 0 \in Part /\ ~Unseen(tp, th[t], t)
           /\ Next_barrier(tp, th[t], t) = Next_barrier(tp, th[0], 0)
           /\ Next_barrier(tp, th[0], 0) # Out
<1>1. t \in Part /\ 0 \in Part /\ ~Unseen(tp, th[t], t)
  BY AtWorkIs
<1>2. Next_barrier(tp, th[t], t) = Next_barrier(tp, th[0], 0)
  BY <1>1 DEF Inv, Together
<1>3. Next_barrier(tp, th[t], t) # Out
  BY DoneIsOut, Types DEF Inv
<1>4. Running
  <2>1. 0 \in Threads /\ th[0] \in State /\ ~Unseen(tp, th[0], 0) /\ tp \in Pool
    BY Types DEF Unseen, Inv
  <2>2. th[0].pc \notin Owner_pcs \cup {"exit"}
    BY <1>2, <1>3, <2>1, WhereTo DEF Inv
  <2>. QED
    BY <2>2 DEF Running, Owner_pcs
<1>. QED
  BY <1>1, <1>2, <1>3, <1>4

LEMMA AllEndInside ==
    ASSUME TypeOK, Inv', NEW t \in Part', NEW y \in State, th'[t] = y, Inside(tp', y)
    PROVE  AllEnd'
<1>1. tp' \in Pool /\ tp'.graph \in Seq(Kinds) /\ t \in Threads
  <2>1. tp' \in Pool /\ tp'.graph \in Graphs \cup {<<>>}
    BY DEF Inv, TypeOK, Pool
  <2>2. <<>> \in Seq(Kinds)
    BY EmptySeq
  <2>. QED
    BY <2>1, <2>2, PoolAssumption DEF Part
<1>2. Next_barrier(tp', y, t) # Out
  BY <1>1, DoneIsOut
<1>3. Next_barrier(tp', th'[t], t) = Next_barrier(tp', th'[0], 0)
  BY DEF Inv, Together
<1>. QED
  BY <1>2, <1>3 DEF AllEnd

-----------------------------------------------------------------------------
(* The steps that compute nothing and open no barrier.                     *)

\* A thread's view of node i, as a record y would have it.
SameView(t, y, i) ==
    /\ Place(tp', y, t) > i <=> At(t) > i
    /\ Started(tp', y, t, i) <=> Begun(t, i)
    /\ \A k \in Nat : Has(tp', y, t, i, k) <=> Owes(t, i, k)

LEMMA QuietStep ==
    ASSUME Inv, Inv', Tally, Running, Running', NEW t \in Threads, NEW y \in State, th' = [th EXCEPT ![t] = y],
           SameRound, tp'.graph = tp.graph, tp'.current_chunk = tp.current_chunk, computed' = computed,
           tp'.abort = tp.abort \/ (tp.abort = NoAbort /\ Part # {}),
           t \in Part => Shape(tp', y, t) /\ \A i \in MulMats \cup Ops : SameView(t, y, i),
           0 \in Part => AbortSeen' /\ CounterSet' /\ AllEnd'
    PROVE  Tally'
<1>1. SameGraph /\ TypeOK /\ TypeOK'
  BY DEF SameGraph, SameRound, Inv
<1>2. Part' = Part /\ th'[t] = y /\ \A u \in Threads \ {t} : th'[u] = th[u]
  BY <1>1, GraphSets, Types
<1>3. th'[0].pc # "kickoff"
  BY DEF Running
<1>4. PartsOnly'
  BY <1>1, PartsKept DEF Tally
<1>5. CASE Part = {}
  BY <1>2, <1>3, <1>4, <1>5 DEF Tally
<1>6. CASE Part # {}
  <2>1. 0 \in Part /\ Shapes /\ OpsDone /\ ChunksDone
    BY <1>1, <1>6, OwnerTakesPart DEF Tally
  <2>2. ASSUME NEW u \in Part, NEW i \in MulMats \cup Ops
        PROVE  SameAt(u, i)
    <3>1. CASE u = t
      BY <1>2, <3>1 DEF SameAt, SameView, At, Begun, Owes
    <3>2. CASE u # t
      BY <1>2, <3>2, StaysAt DEF Part
    <3>. QED
      BY <3>1, <3>2
  <2>3. Shapes'
    BY <1>1, <2>1, ShapesKept
  <2>4. OpsDone'
    BY <1>1, <2>1, <2>2, OpsKept DEF SameAt
  <2>5. ASSUME NEW i \in MulMats
        PROVE  Chunked(i)'
    BY <1>1, <2>1, <2>2, ChunkedKept DEF ChunksDone
  <2>6. ChunksDone'
    BY <1>1, <2>5, GraphSets DEF ChunksDone
  <2>. QED
    BY <1>2, <1>3, <1>4, <1>6, <2>1, <2>3, <2>4, <2>6 DEF Tally
<1>. QED
  BY <1>5, <1>6

\* What the owner sees is the same when another thread moves.
LEMMA OthersMove ==
    ASSUME Inv, Tally, Running, NEW t \in Threads \ {0}, NEW y, th' = [th EXCEPT ![t] = y],
           SameRound, tp'.graph = tp.graph, tp'.current_chunk = tp.current_chunk, tp'.abort = tp.abort
    PROVE  /\ Running' /\ th'[0] = th[0]
           /\ 0 \in Part => AbortSeen' /\ CounterSet'
           /\ Next_barrier(tp', th'[0], 0) = Next_barrier(tp, th[0], 0)
<1>1. 0 \in Threads /\ th'[0] = th[0]
  BY Types DEF Inv
<1>2. At(0)' = At(0)
  BY <1>1, StaysAt
<1>3. Inside(tp', th[0]) <=> Inside(tp, th[0])
  BY DEF SameRound, Inside, Waiting
<1>4. ASSUME 0 \in Part
      PROVE  AbortSeen' /\ CounterSet'
  <2>1. AbortSeen /\ CounterSet
    BY <1>4 DEF Tally
  <2>. QED
    BY <1>1, <1>2, <1>3, <2>1 DEF AbortSeen, CounterSet, SameRound
<1>5. Next_barrier(tp', th'[0], 0) = Next_barrier(tp, th[0], 0)
  BY <1>1, SameKeeps DEF Keeps
<1>. QED
  BY <1>1, <1>4, <1>5 DEF Running

\* A step inside the graph that neither leaves a barrier nor goes to the chunks.
LEMMA InsideStep ==
    ASSUME Inv, Inv', Tally, NEW t \in Threads, NEW y \in State, th' = [th EXCEPT ![t] = y],
           SameRound, tp'.graph = tp.graph, tp'.current_chunk = tp.current_chunk, computed' = computed,
           Inside(tp, th[t]), Inside(tp', y), y.last_graph = th[t].last_graph,
           Shape(tp', y, t), \A i \in MulMats \cup Ops : SameView(t, y, i),
           t # 0 => tp'.abort = tp.abort,
           t = 0 => /\ tp'.abort = tp.abort \/ tp.abort = NoAbort
                    /\ tp'.abort = NoAbort \/ (/\ tp'.abort = Place(tp', y, 0) /\ y.pc \notin {"computed", "chunk", "take"}
                                               /\ InBarrier(y) => y.after # "chunks")
                    /\ InBarrier(y) /\ y.after = "chunks" => tp'.current_chunk = tp'.n_threads
    PROVE  Tally'
<1>1. Running /\ t \in Part /\ 0 \in Part
  BY InsideRuns
<1>2. th'[t] = y /\ Part' = Part
  BY GraphSets, Types DEF Inv, SameRound, SameGraph
<1>3. AllEnd'
  BY <1>1, <1>2, AllEndInside DEF Inv
<1>4. Running' /\ AbortSeen' /\ CounterSet'
  <2>1. CASE t = 0
    <3>1. y.pc \notin {"kickoff", "join", "exit"}
      BY DEF Inside, AtWork, Waiting
    <3>. QED
      BY <1>2, <2>1, <3>1 DEF Running, AbortSeen, CounterSet, At
  <2>2. CASE t # 0
    BY <1>1, <2>2, OthersMove
  <2>. QED
    BY <2>1, <2>2
<1>. QED
  BY <1>1, <1>3, <1>4, QuietStep

\* What a thread is seen from, when its place is as before and it is not at chunks.
LEMMA SameViews ==
    ASSUME Inv, NEW t \in Threads, NEW y \in State, tp'.count = tp.count, tp'.n_threads = tp.n_threads,
           ~AtChunks(tp, th[t]), ~AtChunks(tp', y), Place(tp', y, t) = At(t)
    PROVE  \A i \in MulMats \cup Ops : SameView(t, y, i)
BY DEF SameView, At, Begun, Owes, Started, Has, AtChunks

LEMMA GraphEndsTally ==
    ASSUME Inv, Inv', Tally, NEW t \in Threads, GraphEnds(t)
    PROVE  Tally'
<1>. DEFINE y == [th[t] EXCEPT !.pc = "barrier", !.after = "end"]
            i == th[t].node
<1>1. th[t] \in State /\ th[t].pc = "node" /\ i \in Nat /\ tp \in Pool /\ Len(tp.graph) \in Nat
  BY Types DEF GraphEnds, Inv, State
<1>2. /\ y \in State /\ y.pc = "barrier" /\ y.after = "end" /\ y.node = i /\ y.last_graph = th[t].last_graph
      /\ th' = [th EXCEPT ![t] = y] /\ tp' = tp /\ computed' = computed
  BY <1>1, Types DEF GraphEnds, Barrier, Inv, State
<1>. HIDE DEF y
<1>3. Inside(tp, th[t]) /\ Inside(tp', y)
  BY <1>1, <1>2 DEF Inside, AtWork
<1>4. Running /\ t \in Part /\ 0 \in Part /\ ~Unseen(tp, th[t], t) /\ ~Unseen(tp', y, t)
  BY <1>2, <1>3, InsideRuns DEF Unseen
<1>5. At(t) = i /\ Place(tp', y, t) = i /\ ~AtChunks(tp, th[t]) /\ ~AtChunks(tp', y)
  BY <1>1, <1>2, <1>4 DEF At, Place, InBarrier, AtChunks, Late
<1>6. Shape(tp, th[t], t) /\ AbortSeen
  BY <1>4 DEF Tally, Shapes
<1>7. Shape(tp', y, t)
  <2>1. i <= Len(tp.graph) /\ (i >= Len(tp.graph) \/ tp.abort = i)
    BY <1>5, <1>6 DEF Shape, At, GraphEnds, n_nodes
  <2>. QED
    BY <1>1, <1>2, <1>5, <1>6, <2>1 DEF Shape, At, AtWork
<1>8. t = 0 => tp.abort = NoAbort \/ tp.abort = i
  BY <1>5, <1>6 DEF AbortSeen
<1>. QED
  BY <1>1, <1>2, <1>3, <1>5, <1>7, <1>8, SameViews, InsideStep DEF SameRound

LEMMA SkipNodeTally ==
    ASSUME Inv, Inv', Tally, NEW t \in Threads, SkipNode(t)
    PROVE  Tally'
<1>. DEFINE y == [th[t] EXCEPT !.node = @ + 1]
            i == th[t].node
<1>1. th[t] \in State /\ th[t].pc = "node" /\ i \in Nat /\ Len(tp.graph) \in Nat
  BY Types DEF SkipNode, AtNode, Inv, State
<1>2. /\ y \in State /\ y.pc = "node" /\ y.node = i + 1 /\ y.last_graph = th[t].last_graph
      /\ th' = [th EXCEPT ![t] = y] /\ tp' = tp /\ computed' = computed
  <2>1. y \in State /\ y.pc = "node" /\ y.node = i + 1 /\ y.last_graph = th[t].last_graph
    BY <1>1 DEF State
  <2>. QED
    BY <2>1 DEF SkipNode
<1>. HIDE DEF y
<1>3. Inside(tp, th[t]) /\ Inside(tp', y)
  BY <1>1, <1>2 DEF Inside, AtWork
<1>4. Running /\ t \in Part /\ 0 \in Part /\ ~Unseen(tp, th[t], t) /\ ~Unseen(tp', y, t)
  BY <1>2, <1>3, InsideRuns DEF Unseen
<1>5. At(t) = i /\ Place(tp', y, t) = i + 1 /\ ~AtChunks(tp, th[t]) /\ ~AtChunks(tp', y)
  BY <1>1, <1>2, <1>4 DEF At, Place, InBarrier, AtChunks, Late
<1>6. Shape(tp, th[t], t) /\ AbortSeen
  BY <1>4 DEF Tally, Shapes
<1>7. i < Len(tp.graph) /\ tp.graph[i + 1] = "nop" /\ tp.abort # i
  BY DEF SkipNode, AtNode, Node, n_nodes
<1>8. Shape(tp', y, t)
  BY <1>1, <1>2, <1>5, <1>7 DEF Shape, At, AtWork, InBarrier
<1>9. ASSUME NEW j \in MulMats \cup Ops
      PROVE  SameView(t, y, j)
  <2>1. j \in Nat /\ j # i
    BY <1>7 DEF MulMats, Ops, Node, n_nodes
  <2>. QED
    BY <1>1, <1>2, <1>5, <2>1 DEF SameView, At, Begun, Owes, Started, Has, AtChunks
<1>10. t = 0 => tp.abort = NoAbort
  BY <1>5, <1>6, <1>7 DEF AbortSeen
<1>. QED
  BY <1>1, <1>2, <1>3, <1>8, <1>9, <1>10, InsideStep DEF SameRound, InBarrier

LEMMA NodeDoneTally ==
    ASSUME Inv, Inv', Tally, NEW t \in Threads, NodeDone(t)
    PROVE  Tally'
<1>. DEFINE i == th[t].node
            y == IF i + 1 < Len(tp.graph) THEN [th[t] EXCEPT !.pc = "barrier", !.after = "next"]
                 ELSE [th[t] EXCEPT !.pc = "node", !.node = i + 1]
<1>1. th[t] \in State /\ th[t].pc = "computed" /\ tp \in Pool
  BY Types DEF NodeDone, Inv
<1>2. i \in Nat /\ i + 1 \in Nat /\ Len(tp.graph) \in Nat
  <2>1. i \in Nat
    BY <1>1 DEF State
  <2>. QED
    BY <2>1, Types DEF Inv
<1>3. y \in State /\ y.last_graph = th[t].last_graph
  <2>1. LET z == [th[t] EXCEPT !.pc = "barrier", !.after = "next"]
        IN  z \in State /\ z.last_graph = th[t].last_graph
    BY <1>1 DEF State
  <2>2. ASSUME NEW j \in Nat
        PROVE  LET z == [th[t] EXCEPT !.pc = "node", !.node = j]
               IN  z \in State /\ z.last_graph = th[t].last_graph
    BY <1>1 DEF State
  <2>. QED
    BY <1>2, <2>1, <2>2, Zenon
<1>4. /\ i + 1 < Len(tp.graph) => y.pc = "barrier" /\ y.after = "next" /\ y.node = i
      /\ ~(i + 1 < Len(tp.graph)) => y.pc = "node" /\ y.node = i + 1
  BY <1>1 DEF State
<1>5. th' = [th EXCEPT ![t] = y] /\ computed' = computed
  BY Types DEF NodeDone, Barrier, n_nodes, Inv, State
<1>6. PICK abort \in BOOLEAN : /\ abort => t = 0
                               /\ tp' = IF abort THEN [tp EXCEPT !.abort = i + 1] ELSE tp
  BY DEF NodeDone
<1>7. /\ SameRound /\ tp'.graph = tp.graph /\ tp'.current_chunk = tp.current_chunk
      /\ tp'.abort = IF abort THEN i + 1 ELSE tp.abort
  <2>1. CASE abort
    BY <1>1, <1>6, <2>1 DEF Pool, SameRound
  <2>2. CASE ~abort
    BY <1>6, <2>2 DEF SameRound
  <2>. QED
    BY <2>1, <2>2
<1>. HIDE DEF y
<1>8. Inside(tp, th[t]) /\ Inside(tp', y)
  BY <1>1, <1>4 DEF Inside, AtWork
<1>9. t \in Part /\ ~Unseen(tp, th[t], t) /\ ~Unseen(tp', y, t)
  BY <1>3, <1>7, <1>8, InsideRuns DEF Unseen, SameRound
<1>10. At(t) = i + 1 /\ Place(tp', y, t) = i + 1 /\ ~AtChunks(tp, th[t]) /\ ~AtChunks(tp', y)
  BY <1>1, <1>4, <1>9 DEF At, Place, InBarrier, AtChunks, Late
<1>11. Shape(tp, th[t], t) /\ AbortSeen
  BY <1>9, InsideRuns, <1>8 DEF Tally, Shapes
<1>12. Shape(tp', y, t)
  BY <1>2, <1>4, <1>7, <1>10, <1>11 DEF Shape, At, AtWork, InBarrier
<1>13. t = 0 => tp.abort = NoAbort
  BY <1>1, <1>11 DEF AbortSeen
<1>14. \A j \in MulMats \cup Ops : SameView(t, y, j)
  BY <1>3, <1>7, <1>10, SameViews DEF SameRound
<1>15. InBarrier(y) => y.after # "chunks"
  BY <1>4 DEF InBarrier
<1>16. y.pc \notin {"computed", "chunk", "take"}
  BY <1>4
<1>. QED
  BY <1>3, <1>5, <1>6, <1>7, <1>8, <1>10, <1>12, <1>13, <1>14, <1>15, <1>16, InsideStep

\* Where a thread is after the barrier, its chunk included.
LEMMA LeaveTo ==
    ASSUME TypeOK, NEW t \in Threads, Leave(t)
    PROVE  \E y \in State :
              /\ th' = [th EXCEPT ![t] = y]
              /\ y.last_graph = th[t].last_graph
              /\ th[t].after = "next"   => y.pc = "node" /\ y.node = th[t].node + 1
              /\ th[t].after = "chunks" => y.pc = "chunk" /\ y.node = th[t].node /\ y.chunk = t
              /\ th[t].after = "end"    => y.pc = (IF t = 0 THEN "idle" ELSE "loop") /\ y.node = th[t].node
<1>1. th[t] \in State /\ t \in Nat /\ th \in [Threads -> State]
  BY Types DEF Threads
<1>2. PICK y \in State :
              /\ th' = [th EXCEPT ![t] = y]
              /\ y.last_graph = th[t].last_graph
              /\ th[t].after = "next"   => y.pc = "node" /\ y.node = th[t].node + 1
              /\ th[t].after = "chunks" => y.pc = "chunk" /\ y.node = th[t].node
              /\ th[t].after = "end"    => y.pc = IF t = 0 THEN "idle" ELSE "loop"
  BY LeaveIs
<1>3. y = th'[t]
  BY <1>1, <1>2
<1>4. th[t].after = "chunks" => th'[t].chunk = t
  BY <1>1 DEF Leave, State
<1>5. th[t].after = "end" => th'[t].node = th[t].node
  BY <1>1 DEF Leave, State
<1>. QED
  BY <1>2, <1>3, <1>4, <1>5

\* Whoever was done stays where it was.
LEMMA AllEndKept ==
    ASSUME TypeOK, 0 \in Part, SameRound, NEW t \in Threads, NEW y, th' = [th EXCEPT ![t] = y], AllEnd,
           Next_barrier(tp', th'[0], 0) = Out => Next_barrier(tp, th[0], 0) = Out,
           t \in Part => Place(tp', y, t) = At(t)
    PROVE  AllEnd'
<1>1. Part' = Part /\ th'[t] = y /\ \A u \in Threads \ {t} : th'[u] = th[u]
  BY Types DEF Part, SameRound
<1>2. \A u \in Part : At(u)' = At(u)
  <2>1. ASSUME NEW u \in Part, u # t
        PROVE  At(u)' = At(u)
    BY <1>1, <2>1, StaysAt DEF Part
  <2>2. t \in Part => At(t)' = At(t)
    BY <1>1 DEF At
  <2>. QED
    BY <2>1, <2>2
<1>. QED
  BY <1>1, <1>2 DEF AllEnd

\* The steps of the barrier up to its opening: the thread stays in it.
LEMMA InBarrierTally ==
    ASSUME Inv, Inv', Tally, NEW t \in Threads, BarrierEnter(t) \/ BarrierArrive(t) \/ BarrierReset(t)
    PROVE  Tally'
<1>1. th[t] \in State /\ th[t].pc \in {"barrier", "arrive", "reset"} /\ tp \in Pool /\ tp.n_barrier_passed \in Nat
  BY Types DEF BarrierEnter, BarrierArrive, BarrierReset, Inv
<1>2. PICK y \in State :
        /\ y.pc \in {"arrive", "reset", "release", "spin"} /\ (y.pc = "spin" => y.n_passed = tp.n_barrier_passed)
        /\ y.node = th[t].node /\ y.after = th[t].after /\ y.last_graph = th[t].last_graph
        /\ th' = [th EXCEPT ![t] = y]
  <2>1. CASE BarrierEnter(t)
    <3>. DEFINE y == [th[t] EXCEPT !.pc = "arrive", !.n_passed = tp.n_barrier_passed]
    <3>1. /\ y \in State /\ y.pc = "arrive"
          /\ y.node = th[t].node /\ y.after = th[t].after /\ y.last_graph = th[t].last_graph
      BY <1>1 DEF State
    <3>2. th' = [th EXCEPT ![t] = y]
      BY <2>1 DEF BarrierEnter
    <3>. HIDE DEF y
    <3>. QED
      BY <3>1, <3>2
  <2>2. ASSUME NEW pc \in {"reset", "release", "spin"}, Goto(t, pc),
               pc = "spin" => th[t].n_passed = tp.n_barrier_passed
        PROVE  \E y \in State :
                  /\ y.pc \in {"arrive", "reset", "release", "spin"}
                  /\ (y.pc = "spin" => y.n_passed = tp.n_barrier_passed)
                  /\ y.node = th[t].node /\ y.after = th[t].after /\ y.last_graph = th[t].last_graph
                  /\ th' = [th EXCEPT ![t] = y]
    <3>. DEFINE y == [th[t] EXCEPT !.pc = pc]
    <3>1. /\ y \in State /\ y.pc = pc /\ y.n_passed = th[t].n_passed
          /\ y.node = th[t].node /\ y.after = th[t].after /\ y.last_graph = th[t].last_graph
      BY <1>1 DEF State
    <3>2. th' = [th EXCEPT ![t] = y]
      BY <2>2 DEF Goto
    <3>. HIDE DEF y
    <3>. QED
      BY <2>2, <3>1, <3>2
  <2>3. CASE BarrierArrive(t)
    <3>1. th[t].n_passed = tp.n_barrier_passed
      BY <2>3 DEF BarrierArrive, Inv, Round
    <3>2. PICK pc \in {"reset", "spin"} : Goto(t, pc)
      BY <2>3 DEF BarrierArrive
    <3>. QED
      BY <2>2, <3>1, <3>2
  <2>4. CASE BarrierReset(t)
    BY <2>2, <2>4 DEF BarrierReset
  <2>. QED
    BY <2>1, <2>3, <2>4
<1>3. /\ SameRound /\ tp'.graph = tp.graph /\ tp'.current_chunk = tp.current_chunk /\ tp'.abort = tp.abort
      /\ computed' = computed
  BY <1>1 DEF BarrierEnter, BarrierArrive, BarrierReset, Pool, SameRound
<1>4. Inside(tp, th[t]) /\ Inside(tp', y) /\ InBarrier(th[t]) /\ InBarrier(y)
  BY <1>1, <1>2, <1>3 DEF Inside, Waiting, SameRound, InBarrier
<1>5. Running /\ t \in Part /\ 0 \in Part /\ (Unseen(tp', y, t) <=> Unseen(tp, th[t], t))
  BY <1>2, <1>3, <1>4, InsideRuns DEF Unseen, SameRound
<1>6. Place(tp', y, t) = At(t) /\ ~AtChunks(tp, th[t]) /\ ~AtChunks(tp', y)
  BY <1>1, <1>2, <1>3, <1>4, <1>5 DEF At, Place, AtChunks, Late, SameRound
<1>7. Shape(tp, th[t], t) /\ AbortSeen /\ CounterSet
  BY <1>5 DEF Tally, Shapes
<1>8. Shape(tp', y, t)
  BY <1>1, <1>2, <1>3, <1>4, <1>5, <1>6, <1>7 DEF Shape, At, AtWork, InBarrier
<1>9. \A j \in MulMats \cup Ops : SameView(t, y, j)
  BY <1>2, <1>3, <1>6, SameViews DEF SameRound
<1>10. t = 0 => /\ tp'.abort = NoAbort \/ (/\ tp'.abort = Place(tp', y, 0) /\ y.pc \notin {"computed", "chunk", "take"}
                                           /\ InBarrier(y) => y.after # "chunks")
                /\ InBarrier(y) /\ y.after = "chunks" => tp'.current_chunk = tp'.n_threads
  BY <1>2, <1>3, <1>4, <1>6, <1>7 DEF AbortSeen, CounterSet, SameRound
<1>. QED
  BY <1>2, <1>3, <1>4, <1>8, <1>9, <1>10, InsideStep

\* A thread that is late out of the barrier goes where it was seen already.
LEMMA BarrierSpinTally ==
    ASSUME Inv, Inv', Tally, Running, NEW t \in Threads, BarrierSpin(t)
    PROVE  Tally'
<1>1. /\ th[t].pc = "spin" /\ Leave(t) /\ tp' = tp /\ computed' = computed /\ th[t] \in State
      /\ Late(tp, th[t]) /\ ~Waiting(tp, th[t]) /\ tp \in Pool /\ th[t].node \in Nat /\ th[t].node + 1 \in Nat
      /\ t \in Nat
  <2>1. th[t] \in State /\ tp \in Pool /\ t \in Nat
    BY Types DEF Inv, Threads
  <2>2. th[t].node \in Nat
    BY <2>1 DEF State
  <2>3. /\ th[t].pc = "spin" /\ Leave(t) /\ tp' = tp /\ computed' = computed
        /\ Late(tp, th[t]) /\ ~Waiting(tp, th[t])
    BY DEF BarrierSpin, Late, Waiting
  <2>. QED
    BY <2>1, <2>2, <2>3
<1>2. th[t].after \in {"next", "chunks", "end"}
  BY <1>1 DEF State
<1>3. PICK y \in State :
        /\ th' = [th EXCEPT ![t] = y]
        /\ y.last_graph = th[t].last_graph
        /\ th[t].after = "next"   => y.pc = "node" /\ y.node = th[t].node + 1
        /\ th[t].after = "chunks" => y.pc = "chunk" /\ y.node = th[t].node /\ y.chunk = t
        /\ th[t].after = "end"    => y.pc = (IF t = 0 THEN "idle" ELSE "loop") /\ y.node = th[t].node
  BY <1>1, LeaveTo DEF Inv
<1>4. SameRound
  BY <1>1 DEF SameRound
<1>5. (Unseen(tp, y, t) <=> Unseen(tp, th[t], t)) /\ (Unseen(tp, th[t], t) => th[t].after = "end")
  <2>1. th[t].after # "end" => ~Unseen(tp, th[t], t)
    BY <1>1, AtWorkIs
  <2>. QED
    BY <1>3, <2>1 DEF Unseen
<1>6. /\ Place(tp, y, t) = At(t)
      /\ AtChunks(tp, th[t]) <=> th[t].after = "chunks"
      /\ AtChunks(tp, y) <=> th[t].after = "chunks"
      /\ y.pc \in {"chunk", "take"} => y.pc = "chunk" /\ y.chunk = t
  BY <1>1, <1>2, <1>3, <1>5 DEF At, Place, InBarrier, AtChunks, Late
<1>7. \A i \in MulMats \cup Ops : SameView(t, y, i)
  BY <1>1, <1>6 DEF SameView, At, Begun, Owes, Started, Has
<1>8. t \in Part => Shape(tp', y, t)
  <2>1. ASSUME t \in Part
        PROVE  Shape(tp, th[t], t)
    BY <2>1 DEF Tally, Shapes
  <2>2. CASE th[t].after = "next"
    BY <1>1, <1>3, <1>6, <2>1, <2>2 DEF Shape, At, AtWork, InBarrier
  <2>3. CASE th[t].after = "chunks"
    BY <1>1, <1>3, <1>5, <1>6, <2>1, <2>3 DEF Shape, At, AtWork, InBarrier
  <2>4. CASE th[t].after = "end"
    BY <1>1, <1>3, <1>5, <1>6, <2>1, <2>4 DEF Shape, At, AtWork, InBarrier
  <2>. QED
    BY <1>2, <2>2, <2>3, <2>4
<1>9. Running' /\ (0 \in Part => AbortSeen' /\ CounterSet' /\ AllEnd')
  <2>1. CASE t # 0
    <3>1. /\ Running' /\ (0 \in Part => AbortSeen' /\ CounterSet')
          /\ Next_barrier(tp', th'[0], 0) = Next_barrier(tp, th[0], 0)
      BY <1>1, <1>3, <1>4, <2>1, OthersMove
    <3>2. ASSUME 0 \in Part
          PROVE  AllEnd'
      BY <1>1, <1>3, <1>4, <1>6, <3>1, <3>2, AllEndKept DEF Inv, Tally
    <3>. QED
      BY <3>1, <3>2
  <2>2. CASE t = 0
    <3>1. th'[0] = y /\ ~Unseen(tp, y, 0) /\ ~Unseen(tp, th[0], 0)
      BY <1>3, <2>2, Types DEF Inv, Unseen
    <3>2. Running'
      BY <1>2, <1>3, <2>2, <3>1 DEF Running
    <3>3. ASSUME 0 \in Part
          PROVE  AbortSeen' /\ CounterSet'
      <4>1. AbortSeen
        BY <3>3 DEF Tally
      <4>2. ~InBarrier(y)
        BY <1>2, <1>3, <2>2 DEF InBarrier
      <4>3. tp.abort = NoAbort \/ y.pc \notin {"computed", "chunk", "take"}
        BY <1>1, <1>2, <1>3, <2>2, <4>1 DEF AbortSeen, InBarrier
      <4>. QED
        BY <1>1, <1>6, <2>2, <3>1, <4>1, <4>2, <4>3 DEF AbortSeen, CounterSet, At
    <3>4. ASSUME 0 \in Part
          PROVE  AllEnd'
      <4>1. CASE th[0].after = "end"
        <5>1. Next_barrier(tp, th[0], 0) = Out
          BY <1>1, <2>2, <3>1, <4>1, WhereTo DEF Inv
        <5>2. AllEnd
          BY <3>4 DEF Tally
        <5>. QED
          BY <1>1, <1>3, <1>4, <1>6, <5>1, <5>2, <3>4, AllEndKept DEF Inv
      <4>2. CASE th[0].after # "end"
        <5>1. Inside(tp', y)
          BY <1>2, <1>3, <2>2, <4>2 DEF Inside, AtWork
        <5>2. 0 \in Part'
          BY <1>1, <3>4 DEF Part
        <5>. QED
          BY <3>1, <5>1, <5>2, AllEndInside DEF Inv
      <4>. QED
        BY <4>1, <4>2
    <3>. QED
      BY <3>2, <3>3, <3>4
  <2>. QED
    BY <2>1, <2>2
<1>. QED
  BY <1>1, <1>3, <1>4, <1>7, <1>8, <1>9, QuietStep

-----------------------------------------------------------------------------
(* The steps that compute.                                                 *)

LEMMA CountIs ==
    ASSUME TypeOK, PartsOnly, NEW i \in MulMats \cup Ops, NEW k \in Parts(i),
           <<i, k>> \notin DOMAIN computed, Count(i, k), SameGraph
    PROVE  /\ PartsOnly'
           /\ DOMAIN computed' = DOMAIN computed \cup {<<i, k>>}
<1>1. DOMAIN computed' = DOMAIN computed \cup {<<i, k>>}
  BY DEF Count
<1>2. \A key \in DOMAIN computed : computed'[key] = computed[key] + 0 /\ computed[key] = 1
  BY DEF Count, PartsOnly
<1>3. computed'[<<i, k>>] = 1
  BY DEF Count
<1>4. \A key \in DOMAIN computed' : computed'[key] = 1
  BY <1>1, <1>2, <1>3
<1>5. \A key \in DOMAIN computed' : \E j \in MulMats \cup Ops : \E l \in Parts(j) : key = <<j, l>>
  BY <1>1 DEF PartsOnly
<1>6. MulMats' = MulMats /\ Ops' = Ops /\ \A j : Parts(j)' = Parts(j)
  BY GraphSets
<1>. QED
  BY <1>1, <1>4, <1>5, <1>6 DEF PartsOnly

\* A step of a thread at work, put together from what it does to the counts.
LEMMA WorkTally ==
    ASSUME Inv, Inv', Tally, NEW t \in Threads, NEW y \in State, th' = [th EXCEPT ![t] = y],
           SameRound, tp'.graph = tp.graph, tp'.abort = tp.abort,
           Inside(tp, th[t]), Inside(tp', y), Shape(tp', y, t),
           t = 0 => tp.abort = NoAbort, CounterSet',
           PartsOnly', OpsDone', ChunksDone'
    PROVE  Tally'
<1>1. Running /\ t \in Part /\ 0 \in Part
  BY InsideRuns
<1>2. th'[t] = y /\ Part' = Part /\ SameGraph /\ \A u \in Threads \ {t} : th'[u] = th[u]
  BY GraphSets, Types DEF Inv, SameRound, SameGraph
<1>3. AllEnd'
  BY <1>1, <1>2, AllEndInside DEF Inv
<1>4. Shapes'
  BY <1>1, <1>2, ShapesKept DEF Tally
<1>5. th'[0].pc # "kickoff"
  BY <1>1, <1>2, Types DEF Running, Inside, AtWork, Waiting, Inv
<1>6. AbortSeen'
  <2>1. CASE t = 0
    BY <2>1 DEF AbortSeen
  <2>2. CASE t # 0
    <3>1. th'[0] = th[0] /\ 0 \in Threads /\ AbortSeen
      BY <1>1, <1>2, <2>2, Types DEF Inv, Tally
    <3>2. At(0)' = At(0)
      BY <3>1, StaysAt
    <3>. QED
      BY <3>1, <3>2 DEF AbortSeen
  <2>. QED
    BY <2>1, <2>2
<1>. QED
  BY <1>1, <1>2, <1>3, <1>4, <1>5, <1>6 DEF Tally

\* The counter, when it is not touched and thread 0 is not on the way into the barrier.
LEMMA CounterSame ==
    ASSUME Inv, CounterSet, NEW t \in Threads, NEW y, th' = [th EXCEPT ![t] = y], SameRound,
           tp'.current_chunk = tp.current_chunk, t # 0 \/ y.pc \in AtWork
    PROVE  CounterSet'
<1>1. 0 \in Threads
  BY Types DEF Inv
<1>2. CASE t = 0
  <2>1. th'[0] = y
    BY <1>1, <1>2, Types DEF Inv
  <2>. QED
    BY <1>2, <2>1 DEF CounterSet, InBarrier, AtWork
<1>3. CASE t # 0
  <2>1. th'[0] = th[0]
    BY <1>1, <1>3, Types DEF Inv
  <2>2. Inside(tp', th[0]) <=> Inside(tp, th[0])
    BY DEF SameRound, Inside, Waiting
  <2>. QED
    BY <2>1, <2>2 DEF CounterSet, SameRound
<1>. QED
  BY <1>2, <1>3

LEMMA ComputeNodeTally ==
    ASSUME Inv, Inv', Tally, NEW t \in Threads, ComputeNode(t)
    PROVE  Tally'
<1>. DEFINE i == th[t].node
            j == IF Node(i) = "fuse" THEN i + 1 ELSE i
            y == [th[t] EXCEPT !.pc = "computed", !.node = j]
<1>1. th[t] \in State /\ th[t].pc = "node" /\ i \in Nat /\ j \in Nat /\ Len(tp.graph) \in Nat
  <2>1. th[t] \in State /\ th[t].pc = "node"
    BY Types DEF ComputeNode, AtNode, Inv
  <2>2. i \in Nat
    BY <2>1 DEF State
  <2>. QED
    BY <2>1, <2>2, Types DEF Inv
<1>2. /\ y \in State /\ y.pc = "computed" /\ y.node = j /\ y.last_graph = th[t].last_graph
      /\ th' = [th EXCEPT ![t] = y] /\ tp' = tp /\ Count(i, t)
  BY <1>1, Types DEF ComputeNode, Inv, State
<1>. HIDE DEF y
<1>3. Inside(tp, th[t]) /\ Inside(tp', y) /\ SameGraph /\ SameRound
  BY <1>1, <1>2 DEF Inside, AtWork, SameGraph, SameRound
<1>4. Running /\ t \in Part /\ 0 \in Part /\ ~Unseen(tp, th[t], t) /\ ~Unseen(tp', y, t)
  BY <1>2, <1>3, InsideRuns DEF Unseen
<1>5. At(t) = i /\ Place(tp', y, t) = j + 1 /\ ~AtChunks(tp, th[t]) /\ ~AtChunks(tp', y)
  BY <1>1, <1>2, <1>4 DEF At, Place, InBarrier, AtChunks, Late
<1>6. Shape(tp, th[t], t) /\ AbortSeen /\ PartsOnly /\ OpsDone /\ ChunksDone /\ CounterSet
  BY <1>4 DEF Tally, Shapes
<1>7. i < Len(tp.graph) /\ tp.graph[i + 1] \in {"op", "fuse"} /\ tp.abort # i
  BY DEF ComputeNode, AtNode, Node, n_nodes
<1>8. Node(i) = "fuse" => i + 1 < Len(tp.graph) /\ tp.graph[i + 2] = "op"
  BY <1>1, <1>7, Fused DEF Inv, Node
<1>9. Shape(tp', y, t)
  <2>1. j + 1 <= Len(tp.graph) /\ tp.graph[j + 1] # "fuse"
    BY <1>1, <1>7, <1>8 DEF Node
  <2>. QED
    BY <1>1, <1>2, <1>5, <2>1 DEF Shape, AtWork, InBarrier
<1>10. i \in Ops /\ t \in Parts(i) /\ i \notin MulMats
  <2>1. ~Skipped(i)
    <3>1. i > 0 => tp.graph[i] # "fuse"
      BY <1>5, <1>6 DEF Shape, At
    <3>2. i > 0 => Node(i - 1) # "fuse"
      BY <1>1, <3>1 DEF Node
    <3>. QED
      BY <1>1, <1>7, <3>2 DEF Skipped, Node
  <2>2. t \in 0 .. tp.n_threads - 1
    BY <1>4, Types DEF Part, Threads, Inv
  <2>. QED
    BY <1>1, <1>7, <2>1, <2>2 DEF Ops, MulMats, Parts, Node, n_nodes
<1>11. <<i, t>> \notin DOMAIN computed
  BY <1>1, <1>4, <1>5, <1>6, <1>10 DEF OpsDone
<1>12. PartsOnly' /\ DOMAIN computed' = DOMAIN computed \cup {<<i, t>>}
  BY <1>2, <1>3, <1>6, <1>10, <1>11, CountIs DEF Inv
<1>13. t = 0 => tp.abort = NoAbort
  BY <1>5, <1>6, <1>7 DEF AbortSeen
<1>14. CounterSet'
  BY <1>2, <1>3, <1>6, CounterSame DEF AtWork
<1>15. th'[t] = y /\ \A u \in Threads \ {t} : th'[u] = th[u]
  BY <1>2, Types DEF Inv
<1>16. ASSUME NEW n \in MulMats \cup Ops, n # i, NEW u \in Part
       PROVE  SameAt(u, n)
  <2>1. CASE u # t
    BY <1>3, <1>15, <2>1, StaysAt DEF Part
  <2>2. CASE u = t
    <3>1. n \in Nat /\ (j = i + 1 => n # j)
      <4>1. n \in Nat
        BY DEF MulMats, Ops, n_nodes
      <4>2. ASSUME j = i + 1, n = j
            PROVE  FALSE
        <5>1. Node(i) = "fuse" /\ tp.graph[n + 1] = "op" /\ n > 0 /\ n - 1 = i
          BY <1>1, <1>8, <4>2
        <5>2. n \in Ops /\ ~Skipped(n)
          BY <5>1 DEF MulMats, Ops, Node
        <5>. QED
          BY <5>1, <5>2 DEF Skipped
      <4>. QED
        BY <4>1, <4>2
    <3>2. j = i \/ j = i + 1
      OBVIOUS
    <3>3. At(u)' = j + 1 /\ At(u) = i /\ Place(tp', y, t) = At(u)'
      BY <1>5, <1>15, <2>2 DEF At
    <3>4. At(u)' > n <=> At(u) > n
      BY <1>1, <1>16, <3>1, <3>2, <3>3
    <3>5. Begun(u, n)' <=> Begun(u, n)
      BY <1>5, <1>15, <2>2, <3>3, <3>4 DEF Begun, Started, At
    <3>6. \A k \in Nat : Owes(u, n, k)' <=> Owes(u, n, k)
      <4>1. th'[u].pc = "computed" /\ th[u].pc = "node"
        BY <1>1, <1>2, <1>15, <2>2
      <4>2. At(u)' <= n <=> At(u) <= n
        BY <1>1, <3>1, <3>3, <3>4
      <4>. QED
        BY <4>1, <4>2 DEF Owes, Has, At
    <3>. QED
      BY <3>4, <3>5, <3>6 DEF SameAt
  <2>. QED
    BY <2>1, <2>2
<1>17. TypeOK /\ TypeOK' /\ Ops' = Ops /\ MulMats' = MulMats /\ Part' = Part
  BY <1>3, GraphSets DEF Inv
<1>18. OpsDone'
  <2>1. ASSUME NEW n \in Ops, NEW u \in Part
        PROVE  <<n, u>> \in DOMAIN computed' <=> n < At(u)'
    <3>0. <<n, u>> \in DOMAIN computed <=> n < At(u)
      BY <1>6 DEF OpsDone
    <3>1. CASE u = t /\ n = i
      <4>1. At(t)' = j + 1 /\ (j = i \/ j = i + 1)
        BY <1>5, <1>15 DEF At
      <4>. QED
        BY <1>1, <1>12, <3>1, <4>1
    <3>2. CASE u = t /\ n # i
      BY <1>12, <1>16, <3>0, <3>2 DEF SameAt
    <3>3. CASE u # t
      <4>1. At(u)' = At(u)
        BY <1>3, <1>15, <3>3, StaysAt DEF Part
      <4>. QED
        BY <1>12, <3>0, <3>3, <4>1
    <3>. QED
      BY <3>1, <3>2, <3>3
  <2>. QED
    BY <1>17, <2>1 DEF OpsDone
<1>19. ChunksDone'
  <2>1. ASSUME NEW n \in MulMats
        PROVE  Chunked(n)'
    <3>1. n # i /\ \A k : <<n, k>> # <<i, t>>
      BY <1>10
    <3>2. \A u \in Part : SameAt(u, n)
      BY <1>16, <3>1
    <3>. QED
      BY <1>2, <1>3, <1>4, <1>6, <1>12, <1>17, <3>1, <3>2, ChunkedKept DEF ChunksDone
  <2>. QED
    BY <1>17, <2>1 DEF ChunksDone
<1>. QED
  BY <1>2, <1>3, <1>9, <1>12, <1>13, <1>14, <1>18, <1>19, WorkTally

\* While the chunks of i are computed, what is said of them holds at the end, too: a step that
\* keeps them underway keeps Chunked.
LEMMA UnderwayLater ==
    ASSUME TypeOK, TypeOK', SameGraph, 0 \in Part, NEW i \in MulMats, Begun(0, i)', Underway(i)'
    PROVE  Chunked(i)'
<1>1. /\ Part' = Part /\ Chunks' = Chunks /\ Chunks \in Nat /\ i \in Nat /\ tp'.current_chunk \in Nat
      /\ \A t \in Part : At(t)' \in Nat
  <2>1. Chunks \in Nat /\ i \in Nat
    BY PoolAssumption, Types DEF MulMats, n_nodes, Chunks
  <2>2. \A t \in Part : t \in Threads /\ th'[t] \in State
    BY DEF Part, TypeOK, State
  <2>3. \A t \in Part : At(t)' \in Nat
    BY <2>2, PlaceType DEF At
  <2>4. tp'.current_chunk \in Nat
    BY DEF TypeOK
  <2>. QED
    BY <2>1, <2>3, <2>4, GraphSets
<1>2. ASSUME \A t \in Part : At(t)' > i, NEW k \in 0 .. Chunks - 1
      PROVE  <<i, k>> \in DOMAIN computed'
  <2>1. k < tp'.current_chunk
    BY <1>1, <1>2 DEF Underway
  <2>2. \A t \in Part : ~(At(t)' <= i)
    BY <1>1, <1>2
  <2>3. \A t \in Part : ~Owes(t, i, k)'
    BY <2>2 DEF Owes, Has, At
  <2>. QED
    BY <1>1, <2>1, <2>3 DEF Underway
<1>. QED
  BY <1>1, <1>2 DEF Chunked

LEMMA MulMatStartTally ==
    ASSUME Inv, Inv', Tally, NEW t \in Threads, MulMatStart(t)
    PROVE  Tally'
<1>. DEFINE i == th[t].node
            y == [th[t] EXCEPT !.pc = "barrier", !.after = "chunks"]
<1>1. th[t] \in State /\ th[t].pc = "node" /\ i \in Nat /\ Len(tp.graph) \in Nat /\ tp \in Pool
  BY Types DEF MulMatStart, AtNode, Inv, State
<1>2. /\ y \in State /\ y.pc = "barrier" /\ y.after = "chunks" /\ y.node = i /\ y.last_graph = th[t].last_graph
      /\ th' = [th EXCEPT ![t] = y] /\ computed' = computed
  BY <1>1, Types DEF MulMatStart, Barrier, Inv, State
<1>. HIDE DEF y
<1>3. /\ SameRound /\ SameGraph /\ tp'.graph = tp.graph /\ tp'.abort = tp.abort
      /\ t = 0 => tp'.current_chunk = tp.n_threads
      /\ t # 0 => tp'.current_chunk = tp.current_chunk
  BY <1>1 DEF MulMatStart, Pool, SameRound, SameGraph
<1>4. Inside(tp, th[t]) /\ Inside(tp', y)
  BY <1>1, <1>2 DEF Inside, AtWork
<1>5. Running /\ t \in Part /\ 0 \in Part /\ ~Unseen(tp, th[t], t) /\ ~Unseen(tp', y, t)
  BY <1>2, <1>3, <1>4, InsideRuns DEF Unseen, SameRound
<1>6. At(t) = i /\ Place(tp', y, t) = i /\ ~AtChunks(tp, th[t]) /\ ~AtChunks(tp', y)
  BY <1>1, <1>2, <1>5 DEF At, Place, InBarrier, AtChunks, Late
<1>7. Shape(tp, th[t], t) /\ AbortSeen /\ PartsOnly /\ OpsDone /\ ChunksDone /\ CounterSet /\ AllEnd
  BY <1>5 DEF Tally, Shapes
<1>8. i < Len(tp.graph) /\ tp.graph[i + 1] = "mul_mat" /\ tp.abort # i
  BY DEF MulMatStart, AtNode, Node, n_nodes
<1>9. Shape(tp', y, t)
  BY <1>1, <1>2, <1>3, <1>6, <1>7, <1>8 DEF Shape, At, AtWork, InBarrier
<1>10. t = 0 => tp.abort = NoAbort
  BY <1>6, <1>7, <1>8 DEF AbortSeen
<1>11. th'[t] = y /\ \A u \in Threads \ {t} : th'[u] = th[u]
  BY <1>2, Types DEF Inv
<1>12. CounterSet'
  <2>1. CASE t = 0
    BY <1>3, <2>1 DEF CounterSet, SameRound
  <2>2. CASE t # 0
    BY <1>2, <1>3, <1>7, <2>2, CounterSame
  <2>. QED
    BY <2>1, <2>2
<1>13. ASSUME NEW n \in MulMats \cup Ops, NEW u \in Part
       PROVE  SameAt(u, n)
  <2>1. CASE u # t
    BY <1>3, <1>11, <2>1, StaysAt DEF Part
  <2>2. CASE u = t
    <3>1. SameView(t, y, n)
      BY <1>2, <1>3, <1>6, SameViews DEF SameRound
    <3>. QED
      BY <1>11, <2>2, <3>1 DEF SameAt, SameView, At, Begun, Owes
  <2>. QED
    BY <2>1, <2>2
<1>14. ASSUME NEW n \in MulMats, t = 0, Begun(0, n), NEW u \in Part, At(u) <= n
       PROVE  FALSE
  <2>1. Begun(u, n) /\ n \in Nat /\ At(u) \in Nat
    BY <1>5, <1>7, <1>14, BegunAlike, AtType DEF Part, MulMats, n_nodes, Inv
  <2>2. AtChunks(tp, th[u]) /\ At(u) = n
    BY <1>14, <2>1 DEF Begun, Started, At
  <2>3. u \in Threads /\ th[u] \in State /\ th[u].node \in Nat
    BY Types DEF Part, Inv, State
  <2>4. ~Unseen(tp, th[u], u)
    BY <2>2, <2>3, AtWorkIs DEF AtChunks, Inside, AtWork
  <2>5. Next_barrier(tp, th[u], u) = Closes(tp.graph, th[u].node) /\ At(u) = th[u].node
    BY <2>2, <2>3, <2>4, WhereTo, Types DEF AtChunks, AtWork, Late, At, Place, InBarrier, Inv
  <2>6. Next_barrier(tp, th[0], 0) = <<i, "chunks">>
    <3>1. Stops(tp.graph, tp.abort, i) /\ Meets(tp.graph, tp.abort, i) = <<i, "chunks">>
      BY <1>1, <1>8 DEF Stops, Meets
    <3>. QED
      BY <1>1, <1>5, <1>14, <3>1, StopsHere, WhereTo, Types DEF Inv
  <2>7. Closes(tp.graph, th[u].node) = <<i, "chunks">>
    BY <1>5, <2>5, <2>6 DEF Inv, Together
  <2>. QED
    BY <2>7 DEF Closes
<1>15. TypeOK /\ TypeOK' /\ Ops' = Ops /\ MulMats' = MulMats /\ Part' = Part
  BY <1>3, GraphSets DEF Inv
<1>16. PartsOnly' /\ OpsDone'
  BY <1>2, <1>3, <1>7, <1>13, <1>15, PartsKept, OpsKept DEF SameAt
<1>17. ChunksDone'
  <2>1. ASSUME NEW n \in MulMats
        PROVE  Chunked(n)'
    <3>1. tp'.current_chunk = tp.current_chunk \/ ~(Begun(0, n) /\ \E u \in Part : At(u) <= n)
      BY <1>3, <1>14
    <3>. QED
      BY <1>2, <1>3, <1>5, <1>7, <1>13, <1>15, <3>1, ChunkedKept DEF ChunksDone
  <2>. QED
    BY <1>15, <2>1 DEF ChunksDone
<1>. QED
  BY <1>2, <1>3, <1>4, <1>9, <1>10, <1>12, <1>16, <1>17, WorkTally

\* A step at the chunks of the mul_mat i: its other nodes stay as they were.
LEMMA ChunkStep ==
    ASSUME Inv, Inv', Tally, NEW t \in Threads, NEW i, i = th[t].node, th[t].pc \in {"chunk", "take"},
           NEW y \in State, th' = [th EXCEPT ![t] = y], y.node = i, y.last_graph = th[t].last_graph,
           y.pc \in {"chunk", "take", "computed"},
           SameRound, tp'.graph = tp.graph, tp'.abort = tp.abort,
           tp'.current_chunk = tp.current_chunk \/ th[t].pc = "take",
           PartsOnly',
           \A j \in Nat : \A k : j # i => (<<j, k>> \in DOMAIN computed' <=> <<j, k>> \in DOMAIN computed),
           (/\ t \in Part /\ 0 \in Part /\ i \in MulMats /\ At(t) = i
            /\ Underway(i)
            /\ At(t)' = IF y.pc = "computed" THEN i + 1 ELSE i
            /\ \A u \in Part \ {t} : SameAt(u, i)
            /\ \A k : Owes(t, i, k) <=> th[t].pc = "chunk" /\ k = th[t].chunk
            /\ \A k : Owes(t, i, k)' <=> y.pc = "chunk" /\ k = y.chunk) => Underway(i)'
    PROVE  Tally'
<1>1. th[t] \in State /\ i \in Nat /\ i + 1 \in Nat /\ Len(tp.graph) \in Nat
  <2>1. th[t] \in State
    BY Types DEF Inv
  <2>2. i \in Nat
    BY <2>1 DEF State
  <2>. QED
    BY <2>1, <2>2, Types DEF Inv
<1>2. Inside(tp, th[t]) /\ Inside(tp', y) /\ SameGraph
  BY DEF Inside, AtWork, SameGraph, SameRound
<1>3. Running /\ t \in Part /\ 0 \in Part /\ ~Unseen(tp, th[t], t) /\ ~Unseen(tp', y, t)
  BY <1>2, InsideRuns DEF Unseen, SameRound
<1>4. /\ At(t) = i /\ AtChunks(tp, th[t])
      /\ Place(tp', y, t) = IF y.pc = "computed" THEN i + 1 ELSE i
      /\ AtChunks(tp', y) <=> y.pc # "computed"
  BY <1>1, <1>3 DEF At, Place, InBarrier, AtChunks, Late
<1>5. Shape(tp, th[t], t) /\ AbortSeen /\ PartsOnly /\ OpsDone /\ ChunksDone /\ CounterSet /\ AllEnd
  BY <1>3 DEF Tally, Shapes
<1>6. i < Len(tp.graph) /\ tp.graph[i + 1] = "mul_mat" /\ i \in MulMats /\ i \notin Ops
  <2>1. i < Len(tp.graph) /\ tp.graph[i + 1] = "mul_mat"
    BY <1>3, <1>5 DEF Shape
  <2>. QED
    BY <1>1, <2>1 DEF MulMats, Ops, Node, n_nodes
<1>7. Shape(tp', y, t)
  BY <1>1, <1>3, <1>4, <1>5, <1>6 DEF Shape, At, AtWork, InBarrier
<1>8. t = 0 => tp.abort = NoAbort
  BY <1>5 DEF AbortSeen
<1>9. th'[t] = y /\ At(t)' = Place(tp', y, t) /\ \A u \in Threads \ {t} : th'[u] = th[u]
  BY Types DEF Inv, At
<1>10. TypeOK /\ TypeOK' /\ Ops' = Ops /\ MulMats' = MulMats /\ Part' = Part
  BY <1>2, GraphSets DEF Inv
<1>11. CounterSet'
  <2>1. CASE tp'.current_chunk = tp.current_chunk
    BY <1>5, <2>1, CounterSame DEF AtWork
  <2>2. CASE th[t].pc = "take"
    <3>1. Next_barrier(tp, th[0], 0) = Closes(tp.graph, i)
      BY <1>1, <1>2, <2>2, InsideRuns, WhereTo, Types DEF Inv, AtWork
    <3>2. Closes(tp.graph, i)[2] # "chunks"
      BY DEF Closes
    <3>3. 0 \in Threads /\ th[0] \in State /\ tp \in Pool /\ ~Unseen(tp, th[0], 0)
      BY Types DEF Inv, Unseen
    <3>4. ~(Inside(tp, th[0]) /\ InBarrier(th[0]) /\ th[0].after = "chunks")
      <4>1. SUFFICES ASSUME Inside(tp, th[0]), InBarrier(th[0]), th[0].after = "chunks"
                     PROVE  FALSE
        OBVIOUS
      <4>2. Next_barrier(tp, th[0], 0) = <<th[0].node, th[0].after>>
        BY <3>3, <4>1, WhereTo DEF Inside, InBarrier, AtWork, Inv
      <4>. QED
        BY <3>1, <3>2, <4>1, <4>2
    <3>5. CASE t = 0
      BY <1>9, <3>5 DEF CounterSet, InBarrier
    <3>6. CASE t # 0
      <4>1. th'[0] = th[0]
        BY <1>9, <3>3, <3>6
      <4>2. Inside(tp', th[0]) <=> Inside(tp, th[0])
        BY DEF SameRound, Inside, Waiting
      <4>. QED
        BY <3>4, <4>1, <4>2 DEF CounterSet
    <3>. QED
      BY <3>5, <3>6
  <2>. QED
    BY <2>1, <2>2
<1>12. ASSUME NEW u \in Part \ {t}, NEW n
       PROVE  SameAt(u, n)
  BY <1>9, StaysAt DEF Part
<1>13. ASSUME NEW n \in MulMats \cup Ops, n # i
       PROVE  SameAt(t, n)
  <2>1. n \in Nat
    BY DEF MulMats, Ops, n_nodes
  <2>2. At(t) = i /\ (At(t)' = i \/ (At(t)' = i + 1 /\ y.pc = "computed"))
    BY <1>4, <1>9
  <2>3. (At(t)' > n <=> At(t) > n) /\ (At(t)' <= n <=> At(t) <= n)
    BY <1>1, <1>13, <2>1, <2>2
  <2>4. Begun(t, n)' <=> Begun(t, n)
    BY <1>4, <1>9, <1>13, <2>2, <2>3 DEF Begun, Started, At
  <2>5. \A k \in Nat : Owes(t, n, k)' <=> Owes(t, n, k)
    <3>1. ~(At(t) = n) /\ ~(At(t)' = n /\ y.pc \in {"chunk", "take"})
      BY <1>1, <1>13, <2>2
    <3>. QED
      BY <1>9, <2>3, <3>1 DEF Owes, Has, At
  <2>. QED
    BY <2>3, <2>4, <2>5 DEF SameAt
<1>14. OpsDone'
  <2>1. \A n \in Ops, u \in Part : SameAt(u, n)
    BY <1>6, <1>12, <1>13
  <2>2. \A n \in Ops, u \in Part : <<n, u>> \in DOMAIN computed' <=> <<n, u>> \in DOMAIN computed
    <3>1. \A n \in Ops : n \in Nat /\ n # i
      BY <1>6 DEF Ops, n_nodes
    <3>. QED
      BY <3>1
  <2>. QED
    BY <1>2, <1>5, <1>10, <2>1, <2>2, OpsKept DEF SameAt
<1>15. ASSUME NEW n \in MulMats, n # i
       PROVE  Chunked(n)'
  <2>1. \A u \in Part : SameAt(u, n)
    BY <1>12, <1>13, <1>15
  <2>2. n \in Nat /\ \A k \in Nat : <<n, k>> \in DOMAIN computed' <=> <<n, k>> \in DOMAIN computed
    BY <1>15 DEF MulMats, n_nodes
  <2>3. ~(Begun(0, n) /\ \E u \in Part : At(u) <= n)
    <3>1. SUFFICES ASSUME Begun(0, n), NEW u \in Part, At(u) <= n
                   PROVE  FALSE
      OBVIOUS
    <3>2. Begun(u, n) /\ At(u) \in Nat
      BY <1>3, <1>5, <3>1, BegunAlike, AtType DEF Part, Inv
    <3>3. AtChunks(tp, th[u]) /\ At(u) = n
      BY <2>2, <3>1, <3>2 DEF Begun, Started, At
    <3>. QED
      BY <1>3, <1>4, <1>15, <3>3, OneUnderway
  <2>. QED
    BY <1>2, <1>3, <1>5, <1>10, <2>1, <2>2, <2>3, ChunkedKept DEF ChunksDone
<1>16. Chunked(i)'
  <2>1. Begun(0, i) /\ Underway(i)
    <3>1. Begun(t, i)
      BY <1>4 DEF Begun, Started, At
    <3>2. Begun(0, i)
      BY <1>3, <1>5, <1>6, <3>1, BegunAlike
    <3>3. At(t) <= i
      BY <1>1, <1>4
    <3>. QED
      BY <1>3, <1>5, <1>6, <3>2, <3>3 DEF ChunksDone, Chunked
  <2>2. \A k : Owes(t, i, k) <=> th[t].pc = "chunk" /\ k = th[t].chunk
    BY <1>1, <1>4 DEF Owes, Has, At
  <2>3. \A k : Owes(t, i, k)' <=> y.pc = "chunk" /\ k = y.chunk
    BY <1>1, <1>4, <1>9 DEF Owes, Has, At
  <2>4. Underway(i)'
    BY <1>3, <1>4, <1>6, <1>9, <1>12, <2>1, <2>2, <2>3
  <2>5. Begun(0, i)'
    <3>1. CASE t = 0
      BY <1>1, <1>4, <1>9, <3>1 DEF Begun, Started, At
    <3>2. CASE t # 0
      BY <1>3, <1>12, <2>1, <3>2 DEF SameAt
    <3>. QED
      BY <3>1, <3>2
  <2>. QED
    BY <1>2, <1>3, <1>6, <1>10, <2>4, <2>5, UnderwayLater
<1>17. ChunksDone'
  BY <1>10, <1>15, <1>16 DEF ChunksDone
<1>. QED
  BY <1>2, <1>7, <1>8, <1>11, <1>14, <1>17, WorkTally

LEMMA ChunkNumbers ==
    ASSUME TypeOK
    PROVE  /\ Chunks \in Nat /\ tp.n_threads \in Nat /\ tp.current_chunk \in Nat
           /\ \A t \in Threads : th[t] \in State /\ th[t].chunk \in Nat
<1>1. \A t \in Threads : th[t] \in State
  BY Types
<1>2. \A t \in Threads : th[t].chunk \in Nat
  BY <1>1 DEF State
<1>. QED
  BY <1>1, <1>2, Types, PoolAssumption DEF Chunks, Pool

LEMMA MulMatChunkTally ==
    ASSUME Inv, Inv', Tally, NEW t \in Threads, MulMatChunk(t)
    PROVE  Tally'
<1>0. PICK i : i = th[t].node
  OBVIOUS
<1>. DEFINE c  == th[t].chunk
            pc == IF tp.n_threads >= Chunks THEN "computed" ELSE "take"
            y  == [th[t] EXCEPT !.pc = pc]
<1>1. /\ i = th[t].node /\ th[t] \in State /\ th[t].pc = "chunk" /\ c \in Nat /\ c < Chunks /\ Chunks \in Nat
      /\ tp.n_threads \in Nat /\ tp.current_chunk \in Nat
  BY <1>0, ChunkNumbers DEF MulMatChunk, Inv
<1>2. /\ y \in State /\ y.pc = pc /\ y.node = i /\ y.last_graph = th[t].last_graph
      /\ th' = [th EXCEPT ![t] = y] /\ tp' = tp /\ Count(i, c)
  <2>1. pc \in {"computed", "take"}
    OBVIOUS
  <2>2. y \in State /\ y.pc = pc /\ y.node = i /\ y.last_graph = th[t].last_graph
    <3>. HIDE DEF pc
    <3>. QED
      BY <1>1, <2>1 DEF State
  <2>. QED
    BY <2>2 DEF MulMatChunk, Goto
<1>. HIDE DEF y
<1>3. SameRound /\ SameGraph
  BY <1>2 DEF SameRound, SameGraph
<1>4. /\ Running /\ t \in Part /\ 0 \in Part /\ ~Unseen(tp, th[t], t)
      /\ Shape(tp, th[t], t) /\ PartsOnly /\ ChunksDone /\ AllEnd
  BY <1>1, InsideRuns DEF Inside, AtWork, Tally, Shapes
<1>5. i \in MulMats /\ i \in Nat
  <2>1. i < Len(tp.graph) /\ tp.graph[i + 1] = "mul_mat"
    BY <1>1, <1>4 DEF Shape
  <2>2. i \in Nat
    BY <1>1 DEF State
  <2>. QED
    BY <2>1, <2>2, Types DEF MulMats, Node, n_nodes, Inv
<1>6. At(t) = i /\ Begun(t, i) /\ Owes(t, i, c)
  BY <1>1, <1>4, <1>5 DEF At, Place, InBarrier, Begun, Started, AtChunks, Owes, Has
<1>7. Underway(i)
  <2>1. Begun(0, i)
    BY <1>4, <1>5, <1>6, BegunAlike
  <2>. QED
    BY <1>4, <1>5, <1>6, <2>1 DEF ChunksDone, Chunked
<1>8. <<i, c>> \notin DOMAIN computed /\ c \in 0 .. Chunks - 1
  BY <1>1, <1>4, <1>6, <1>7 DEF Underway
<1>9. PartsOnly' /\ DOMAIN computed' = DOMAIN computed \cup {<<i, c>>}
  <2>1. c \in Parts(i)
    BY <1>5, <1>8 DEF Parts, MulMats
  <2>. QED
    BY <1>2, <1>3, <1>4, <1>5, <1>8, <2>1, CountIs DEF Inv
<1>10. ASSUME At(t) = i, At(t)' = IF y.pc = "computed" THEN i + 1 ELSE i,
              \A u \in Part \ {t} : SameAt(u, i),
              \A k : Owes(t, i, k) <=> th[t].pc = "chunk" /\ k = c,
              \A k : Owes(t, i, k)' <=> y.pc = "chunk" /\ k = y.chunk
       PROVE  Underway(i)'
  <2>1. Part' = Part /\ Chunks' = Chunks /\ tp' = tp
    BY <1>2, <1>3, GraphSets
  <2>2. /\ \A k : ~Owes(t, i, k)'
        /\ \A k : Owes(t, i, k) <=> k = c
    BY <1>1, <1>2, <1>10
  <2>3. \A u \in Part \ {t} : (At(u)' > i <=> At(u) > i) /\ \A k \in Nat : Owes(u, i, k)' <=> Owes(u, i, k)
    BY <1>10 DEF SameAt
  <2>4. ASSUME NEW k \in 0 .. Chunks - 1
        PROVE  <<i, k>> \in DOMAIN computed' <=> k < tp.current_chunk /\ \A u \in Part : ~Owes(u, i, k)'
    <3>0. k \in Nat /\ (<<i, k>> \in DOMAIN computed <=> k < tp.current_chunk /\ \A u \in Part : ~Owes(u, i, k))
      BY <1>1, <1>7 DEF Underway
    <3>1. CASE k = c
      <4>1. k < tp.current_chunk
        BY <1>4, <1>6, <1>7, <3>0, <3>1 DEF Underway
      <4>2. \A u \in Part \ {t} : ~Owes(u, i, k)
        BY <1>4, <1>6, <1>7, <3>0, <3>1 DEF Underway
      <4>3. \A u \in Part : ~Owes(u, i, k)'
        BY <2>2, <2>3, <3>0, <4>2
      <4>. QED
        BY <1>9, <3>1, <4>1, <4>3
    <3>2. CASE k # c
      <4>1. (\A u \in Part : ~Owes(u, i, k)') <=> (\A u \in Part : ~Owes(u, i, k))
        BY <2>2, <2>3, <3>0, <3>2
      <4>. QED
        BY <1>9, <3>0, <3>2, <4>1
    <3>. QED
      BY <3>1, <3>2
  <2>5. /\ \A u \in Part : \A k \in Nat : Owes(u, i, k)' => k < tp.current_chunk
        /\ \A u, v \in Part : \A k \in Nat : Owes(u, i, k)' /\ Owes(v, i, k)' => u = v
    BY <1>7, <2>2, <2>3 DEF Underway
  <2>6. ASSUME NEW u \in Part, At(u)' > i
        PROVE  Chunks <= tp.current_chunk
    <3>1. CASE u # t
      BY <1>7, <2>3, <2>6, <3>1 DEF Underway
    <3>2. CASE u = t
      <4>1. tp.n_threads >= Chunks /\ tp.n_threads <= tp.current_chunk
        BY <1>2, <1>5, <1>7, <1>10, <2>6, <3>2 DEF Underway
      <4>. QED
        BY <1>1, <4>1
    <3>. QED
      BY <3>1, <3>2
  <2>7. tp.n_threads <= tp.current_chunk
    BY <1>7 DEF Underway
  <2>. QED
    BY <2>1, <2>4, <2>5, <2>6, <2>7 DEF Underway
<1>11. y.pc \in {"chunk", "take", "computed"}
  BY <1>2
<1>12. \A j \in Nat : \A k : j # i => (<<j, k>> \in DOMAIN computed' <=> <<j, k>> \in DOMAIN computed)
  BY <1>9
<1>. QED
  BY <1>1, <1>2, <1>3, <1>9, <1>10, <1>11, <1>12, ChunkStep

LEMMA MulMatEndTally ==
    ASSUME Inv, Inv', Tally, NEW t \in Threads, MulMatEnd(t)
    PROVE  Tally'
<1>0. PICK i : i = th[t].node
  OBVIOUS
<1>. DEFINE c  == th[t].chunk
            y  == [th[t] EXCEPT !.pc = "computed"]
<1>1. /\ i = th[t].node /\ th[t] \in State /\ th[t].pc = "chunk" /\ c \in Nat /\ Chunks <= c /\ Chunks \in Nat
      /\ tp.n_threads \in Nat /\ tp.current_chunk \in Nat
  BY <1>0, ChunkNumbers DEF MulMatEnd, Inv
<1>2. /\ y \in State /\ y.pc = "computed" /\ y.node = i /\ y.last_graph = th[t].last_graph
      /\ th' = [th EXCEPT ![t] = y] /\ tp' = tp /\ computed' = computed
  BY <1>1 DEF State, MulMatEnd, Goto
<1>. HIDE DEF y
<1>3. SameRound /\ SameGraph
  BY <1>2 DEF SameRound, SameGraph
<1>4. PartsOnly'
  <2>1. PartsOnly
    BY <1>1, InsideRuns DEF Inside, AtWork, Tally
  <2>. QED
    BY <1>2, <1>3, <2>1, PartsKept
<1>5. ASSUME t \in Part, At(t) = i, Underway(i), \A u \in Part \ {t} : SameAt(u, i),
             \A k : Owes(t, i, k) <=> th[t].pc = "chunk" /\ k = c,
             \A k : Owes(t, i, k)' <=> y.pc = "chunk" /\ k = y.chunk
      PROVE  Underway(i)'
  <2>1. Part' = Part /\ Chunks' = Chunks /\ tp' = tp
    BY <1>2, <1>3, GraphSets
  <2>2. /\ \A k : ~Owes(t, i, k)'
        /\ \A k : Owes(t, i, k) <=> k = c
    BY <1>1, <1>2, <1>5
  <2>3. \A u \in Part \ {t} : (At(u)' > i <=> At(u) > i) /\ \A k \in Nat : Owes(u, i, k)' <=> Owes(u, i, k)
    BY <1>5 DEF SameAt
  <2>4. ASSUME NEW k \in 0 .. Chunks - 1
        PROVE  <<i, k>> \in DOMAIN computed' <=> k < tp.current_chunk /\ \A u \in Part : ~Owes(u, i, k)'
    <3>1. k \in Nat /\ k # c
      BY <1>1
    <3>2. (\A u \in Part : ~Owes(u, i, k)') <=> (\A u \in Part : ~Owes(u, i, k))
      BY <2>2, <2>3, <3>1
    <3>3. <<i, k>> \in DOMAIN computed <=> k < tp.current_chunk /\ \A u \in Part : ~Owes(u, i, k)
      BY <1>5 DEF Underway
    <3>. QED
      BY <1>2, <3>2, <3>3
  <2>5. /\ \A u \in Part : \A k \in Nat : Owes(u, i, k)' => k < tp.current_chunk
        /\ \A u, v \in Part : \A k \in Nat : Owes(u, i, k)' /\ Owes(v, i, k)' => u = v
    BY <1>5, <2>2, <2>3 DEF Underway
  <2>6. Chunks <= tp.current_chunk /\ tp.n_threads <= tp.current_chunk
    BY <1>1, <1>5, <2>2 DEF Underway
  <2>. QED
    BY <2>1, <2>4, <2>5, <2>6 DEF Underway
<1>. QED
  BY <1>1, <1>2, <1>3, <1>4, <1>5, ChunkStep

\* The counter hands a chunk to one thread only, and none that was handed out before.
LEMMA MulMatTakeTally ==
    ASSUME Inv, Inv', Tally, NEW t \in Threads, MulMatTake(t)
    PROVE  Tally'
<1>0. PICK i : i = th[t].node
  OBVIOUS
<1>. DEFINE c  == tp.current_chunk
            y  == [th[t] EXCEPT !.pc = "chunk", !.chunk = c]
<1>1. /\ i = th[t].node /\ th[t] \in State /\ th[t].pc = "take" /\ c \in Nat /\ Chunks \in Nat /\ tp.n_threads \in Nat /\ tp \in Pool
  BY <1>0, ChunkNumbers, Types DEF MulMatTake, Inv
<1>2. /\ y \in State /\ y.pc = "chunk" /\ y.chunk = c /\ y.node = i /\ y.last_graph = th[t].last_graph
      /\ th' = [th EXCEPT ![t] = y] /\ computed' = computed
  BY <1>1 DEF State, MulMatTake
<1>. HIDE DEF y
<1>3. SameRound /\ SameGraph /\ tp'.graph = tp.graph /\ tp'.abort = tp.abort /\ tp'.current_chunk = c + 1
  <2>1. tp' = [tp EXCEPT !.current_chunk = c + 1]
    BY DEF MulMatTake
  <2>. QED
    BY <1>1, <2>1 DEF Pool, SameRound, SameGraph
<1>4. PartsOnly'
  <2>1. PartsOnly
    BY <1>1, InsideRuns DEF Inside, AtWork, Tally
  <2>. QED
    BY <1>2, <1>3, <2>1, PartsKept
<1>5. ASSUME t \in Part, At(t) = i, At(t)' = i, i \in MulMats, Underway(i), \A u \in Part \ {t} : SameAt(u, i),
             \A k : Owes(t, i, k) <=> th[t].pc = "chunk" /\ k = th[t].chunk,
             \A k : Owes(t, i, k)' <=> y.pc = "chunk" /\ k = y.chunk
      PROVE  Underway(i)'
  <2>1. Part' = Part /\ Chunks' = Chunks /\ tp'.n_threads = tp.n_threads
    BY <1>3, GraphSets DEF SameGraph
  <2>2. /\ \A k : ~Owes(t, i, k)
        /\ \A k : Owes(t, i, k)' <=> k = c
    BY <1>1, <1>2, <1>5
  <2>3. \A u \in Part \ {t} : (At(u)' > i <=> At(u) > i) /\ \A k \in Nat : Owes(u, i, k)' <=> Owes(u, i, k)
    BY <1>5 DEF SameAt
  <2>4. ASSUME NEW k \in 0 .. Chunks - 1
        PROVE  <<i, k>> \in DOMAIN computed' <=> k < c + 1 /\ \A u \in Part : ~Owes(u, i, k)'
    <3>0. k \in Nat /\ (<<i, k>> \in DOMAIN computed <=> k < c /\ \A u \in Part : ~Owes(u, i, k))
      BY <1>1, <1>5 DEF Underway
    <3>1. CASE k = c
      BY <1>1, <1>2, <1>5, <2>2, <3>0, <3>1
    <3>2. CASE k # c
      <4>1. (\A u \in Part : ~Owes(u, i, k)') <=> (\A u \in Part : ~Owes(u, i, k))
        BY <2>2, <2>3, <3>0, <3>2
      <4>2. k < c + 1 <=> k < c
        BY <1>1, <3>0, <3>2
      <4>. QED
        BY <1>2, <3>0, <4>1, <4>2
    <3>. QED
      BY <3>1, <3>2
  <2>5. ASSUME NEW u \in Part, NEW k \in Nat, Owes(u, i, k)'
        PROVE  k < c + 1 /\ (u # t => k < c)
    BY <1>1, <1>5, <2>2, <2>3, <2>5 DEF Underway
  <2>6. ASSUME NEW u \in Part, NEW v \in Part, NEW k \in Nat, Owes(u, i, k)', Owes(v, i, k)'
        PROVE  u = v
    <3>1. CASE u # t /\ v # t
      BY <1>5, <2>3, <2>6, <3>1 DEF Underway
    <3>2. CASE u = t /\ v # t
      BY <1>1, <2>2, <2>5, <2>6, <3>2
    <3>3. CASE u # t /\ v = t
      BY <1>1, <2>2, <2>5, <2>6, <3>3
    <3>. QED
      BY <3>1, <3>2, <3>3
  <2>7. ASSUME NEW u \in Part, At(u)' > i
        PROVE  Chunks <= c + 1
    <3>1. i \in Nat
      BY <1>5 DEF MulMats, n_nodes
    <3>2. u # t
      BY <1>5, <2>7, <3>1
    <3>3. Chunks <= c
      BY <1>5, <2>3, <2>7, <3>2 DEF Underway
    <3>. QED
      BY <1>1, <3>3
  <2>8. tp.n_threads <= c + 1
    BY <1>1, <1>5 DEF Underway
  <2>. QED
    BY <1>3, <2>1, <2>4, <2>5, <2>6, <2>7, <2>8 DEF Underway
<1>6. (/\ t \in Part /\ 0 \in Part /\ i \in MulMats /\ At(t) = i
       /\ Underway(i)
       /\ At(t)' = IF y.pc = "computed" THEN i + 1 ELSE i
       /\ \A u \in Part \ {t} : SameAt(u, i)
       /\ \A k : Owes(t, i, k) <=> th[t].pc = "chunk" /\ k = th[t].chunk
       /\ \A k : Owes(t, i, k)' <=> y.pc = "chunk" /\ k = y.chunk) => Underway(i)'
  BY <1>2, <1>5
<1>7. i = th[t].node /\ th[t].pc = "take" /\ th[t].pc \in {"chunk", "take"} /\ y.pc \in {"chunk", "take", "computed"}
  BY <1>1, <1>2
<1>8. \A j \in Nat : \A k : j # i => (<<j, k>> \in DOMAIN computed' <=> <<j, k>> \in DOMAIN computed)
  BY <1>2
<1>. HIDE DEF c
<1>. QED
  BY <1>2, <1>3, <1>4, <1>6, <1>7, <1>8, ChunkStep

-----------------------------------------------------------------------------
(* The opening of a barrier.                                               *)

\* t lets the others go, which wait with it, or is alone: at the chunks of a mul_mat
\* each owes the chunk of its own number, and the counter goes on behind these.
LEMMA OpenTally ==
    ASSUME Inv, Inv', Tally, NEW t \in Threads, th[t].pc \in {"barrier", "release"}, Leave(t), SameGraph,
           tp'.abort = tp.abort, tp'.current_chunk = tp.current_chunk, computed' = computed,
           \A u \in Part \ {t} : /\ Waiting(tp, th[u]) /\ Late(tp', th[u])
                                 /\ th[u].node = th[t].node /\ th[u].after = th[t].after
    PROVE  Tally'
<1>0. PICK i, after : i = th[t].node /\ after = th[t].after
  OBVIOUS
<1>1. /\ th[t] \in State /\ i = th[t].node /\ i \in Nat /\ i + 1 \in Nat /\ after = th[t].after
      /\ after \in {"next", "chunks", "end"} /\ Len(tp.graph) \in Nat /\ tp.n_threads \in Nat
  <2>1. th[t] \in State
    BY Types DEF Inv
  <2>2. i \in Nat /\ after \in {"next", "chunks", "end"}
    BY <1>0, <2>1 DEF State
  <2>. QED
    BY <1>0, <2>1, <2>2, Types DEF Inv
<1>2. PICK y \in State :
        /\ th' = [th EXCEPT ![t] = y]
        /\ y.last_graph = th[t].last_graph
        /\ after = "next"   => y.pc = "node" /\ y.node = i + 1
        /\ after = "chunks" => y.pc = "chunk" /\ y.node = i /\ y.chunk = t
        /\ after = "end"    => y.pc = (IF t = 0 THEN "idle" ELSE "loop") /\ y.node = i
  BY <1>1, LeaveTo DEF Inv
<1>3. /\ Running /\ t \in Part /\ 0 \in Part /\ 0 \in Threads
      /\ Shapes /\ AbortSeen /\ PartsOnly /\ OpsDone /\ ChunksDone /\ CounterSet /\ AllEnd
  BY InsideRuns, Types DEF Inside, Tally, Inv
<1>4. th'[t] = y /\ \A u \in Threads \ {t} : th'[u] = th[u]
  BY <1>2, Types DEF Inv
<1>5. TypeOK /\ TypeOK' /\ Ops' = Ops /\ MulMats' = MulMats /\ Part' = Part
  BY GraphSets DEF Inv
<1>6. \A u \in Part : /\ ~Unseen(tp, th[u], u) /\ ~Unseen(tp', th'[u], u)
                      /\ Inside(tp, th[u]) /\ th[u].node = i /\ th[u].after = after
                      /\ th[u].pc \in {"barrier", "release", "spin"} /\ ~Late(tp, th[u])
  <2>1. ASSUME NEW u \in Part
        PROVE  /\ Inside(tp, th[u]) /\ th[u].node = i /\ th[u].after = after
               /\ th[u].pc \in {"barrier", "release", "spin"} /\ ~Late(tp, th[u])
    <3>1. CASE u = t
      BY <1>1, <3>1 DEF Inside, Late
    <3>2. CASE u # t
      BY <1>1, <3>2 DEF Inside, Late, Waiting
    <3>. QED
      BY <3>1, <3>2
  <2>2. \A u \in Part : ~Unseen(tp, th[u], u)
    BY <2>1, InsideRuns DEF Part
  <2>3. \A u \in Part : th'[u].last_graph = th[u].last_graph
    BY <1>2, <1>4 DEF Part
  <2>4. \A u \in Part : ~Unseen(tp', th'[u], u)
    BY <2>2, <2>3 DEF Unseen, SameGraph
  <2>. QED
    BY <2>1, <2>2, <2>4
<1>7. ASSUME NEW u \in Part
      PROVE  /\ At(u) = IF after = "next" THEN i + 1 ELSE i
             /\ At(u)' = At(u) /\ ~AtChunks(tp, th[u])
             /\ AtChunks(tp', th'[u]) <=> after = "chunks"
             /\ th'[u].pc \in {"chunk", "take"} => th'[u].pc = "chunk" /\ th'[u].chunk = u /\ after = "chunks"
  <2>1. At(u) = (IF after = "next" THEN i + 1 ELSE i) /\ ~AtChunks(tp, th[u])
    BY <1>6 DEF At, Place, InBarrier, AtChunks
  <2>2. CASE u = t
    BY <1>1, <1>2, <1>4, <1>6, <2>1, <2>2 DEF At, Place, InBarrier, AtChunks, Late
  <2>3. CASE u # t
    <3>1. th'[u] = th[u] /\ Late(tp', th[u]) /\ th[u].pc = "spin"
      BY <1>4, <2>3 DEF Part, Late
    <3>. QED
      BY <1>6, <2>1, <3>1 DEF At, Place, InBarrier, AtChunks
  <2>. QED
    BY <2>2, <2>3
<1>8. ASSUME NEW n \in MulMats \cup Ops, after # "chunks" \/ n # i, NEW u \in Part
      PROVE  SameAt(u, n)
  <2>1. At(u)' = At(u) /\ ~AtChunks(tp, th[u]) /\ (At(u) = n => ~AtChunks(tp', th'[u]))
        /\ (At(u) = n => th'[u].pc \notin {"chunk", "take"})
    BY <1>7, <1>8
  <2>2. Begun(u, n)' <=> Begun(u, n)
    BY <2>1 DEF Begun, Started, At
  <2>3. \A k \in Nat : Owes(u, n, k)' <=> Owes(u, n, k)
    BY <2>1 DEF Owes, Has, At, AtChunks
  <2>. QED
    BY <2>1, <2>2, <2>3 DEF SameAt
<1>9. PartsOnly' /\ OpsDone'
  <2>1. PartsOnly'
    BY <1>3, PartsKept
  <2>2. \A n \in Ops, u \in Part : At(u)' > n <=> At(u) > n
    BY <1>7
  <2>. QED
    BY <1>3, <1>5, <2>1, <2>2, OpsKept
<1>10. ASSUME NEW n \in MulMats
       PROVE  Chunked(n)'
  <2>1. CASE after # "chunks" \/ n # i
    <3>1. \A u \in Part : SameAt(u, n)
      BY <1>8, <2>1
    <3>. QED
      BY <1>3, <1>5, <3>1, ChunkedKept DEF ChunksDone
  <2>2. CASE after = "chunks" /\ n = i
    <3>1. ~Begun(0, n) /\ \A k \in Nat : <<n, k>> \notin DOMAIN computed
      <4>1. ~Begun(0, n)
        BY <1>1, <1>3, <1>7, <2>2 DEF Begun, Started, At
      <4>. QED
        BY <1>3, <4>1 DEF ChunksDone, Chunked
    <3>2. Begun(0, n)'
      BY <1>3, <1>7, <2>2 DEF Begun, Started, At
    <3>3. tp.current_chunk = tp.n_threads
      <4>1. Inside(tp, th[0]) /\ InBarrier(th[0]) /\ th[0].after = "chunks"
        BY <1>3, <1>6, <2>2 DEF InBarrier
      <4>. QED
        BY <1>3, <4>1 DEF CounterSet
    <3>4. \A u \in Part : At(u)' = n /\ u \in Nat /\ u < tp.n_threads
      BY <1>7, <2>2, Types DEF Part, Threads, Inv
    <3>5. \A u \in Part : \A k : Owes(u, n, k)' <=> k = u
      <4>1. \A u \in Part : At(u)' <= n
        BY <1>1, <2>2, <3>4
      <4>. QED
        BY <1>7, <3>4, <4>1 DEF Owes, Has, At
    <3>6. ASSUME NEW k \in 0 .. Chunks - 1
          PROVE  ~(k < tp.n_threads /\ \A u \in Part : ~Owes(u, n, k)')
      <4>1. k \in Nat /\ (k < tp.n_threads => k \in Part)
        <5>1. Chunks \in Nat /\ tp.n_threads \in 0 .. NumThreads /\ NumThreads \in Nat
          BY ChunkNumbers, Types DEF Inv, Pool
        <5>. QED
          BY <5>1 DEF Part, Threads
      <4>. QED
        BY <3>5, <4>1
    <3>7. Underway(n)'
      <4>1. tp'.n_threads <= tp'.current_chunk /\ tp'.current_chunk = tp.n_threads
        BY <1>1, <3>3 DEF SameGraph
      <4>2. Chunks' = Chunks /\ Chunks \in Nat
        BY GraphSets, ChunkNumbers DEF Inv
      <4>3. \A k \in 0 .. Chunks - 1 : k \in Nat
        BY <4>2
      <4>4. \A k \in 0 .. Chunks - 1 :
               <<n, k>> \in DOMAIN computed' <=> k < tp'.current_chunk /\ \A u \in Part : ~Owes(u, n, k)'
        BY <3>1, <3>6, <4>1, <4>3
      <4>5. \A u \in Part : \A k \in Nat : Owes(u, n, k)' => k < tp'.current_chunk
        BY <3>4, <3>5, <4>1
      <4>6. \A u, v \in Part : \A k \in Nat : Owes(u, n, k)' /\ Owes(v, n, k)' => u = v
        BY <3>5
      <4>7. \A u \in Part : ~(At(u)' > n)
        BY <1>1, <2>2, <3>4
      <4>. QED
        BY <1>5, <4>1, <4>2, <4>4, <4>5, <4>6, <4>7 DEF Underway
    <3>. QED
      BY <1>3, <1>5, <3>2, <3>7, UnderwayLater
  <2>. QED
    BY <2>1, <2>2
<1>11. ChunksDone'
  BY <1>5, <1>10 DEF ChunksDone
<1>12. Shapes'
  <2>1. Shape(tp, th[t], t) /\ Place(tp', y, t) = At(t) /\ ~Unseen(tp, th[t], t)
    <3>1. At(t)' = Place(tp', y, t)
      BY <1>4 DEF At
    <3>. QED
      BY <1>3, <1>6, <1>7, <3>1 DEF Shapes
  <2>2. InBarrier(th[t]) /\ th[t].pc \notin AtWork
    BY DEF InBarrier, AtWork
  <2>3. Shape(tp', y, t)
    <3>1. CASE after = "next"
      BY <1>1, <1>2, <2>1, <3>1 DEF Shape, At, AtWork, InBarrier, SameGraph
    <3>2. CASE after = "chunks"
      BY <1>1, <1>2, <2>1, <2>2, <3>2 DEF Shape, At, AtWork, InBarrier, SameGraph
    <3>3. CASE after = "end"
      BY <1>1, <1>2, <2>1, <2>2, <3>3 DEF Shape, At, AtWork, InBarrier, SameGraph
    <3>. QED
      BY <1>1, <3>1, <3>2, <3>3
  <2>. QED
    BY <1>2, <1>3, <2>3, ShapesKept
<1>13. AbortSeen'
  <2>1. tp.abort = NoAbort \/ (tp.abort = At(0) /\ after # "chunks")
    BY <1>3, <1>6 DEF AbortSeen, InBarrier
  <2>2. At(0)' = At(0)
    BY <1>3, <1>7
  <2>3. CASE t = 0
    <3>1. after # "chunks" => th'[0].pc \notin {"computed", "chunk", "take"} /\ ~InBarrier(th'[0])
      BY <1>1, <1>2, <1>4, <2>3 DEF InBarrier
    <3>. QED
      BY <2>1, <2>2, <3>1 DEF AbortSeen
  <2>4. CASE t # 0
    <3>1. th'[0] = th[0]
      BY <1>3, <1>4, <2>4
    <3>. QED
      BY <1>3, <2>2, <3>1 DEF AbortSeen
  <2>. QED
    BY <2>3, <2>4
<1>14. CounterSet'
  <2>1. CASE t = 0
    BY <1>1, <1>2, <1>4, <2>1 DEF CounterSet, InBarrier
  <2>2. CASE t # 0
    <3>1. th'[0] = th[0] /\ Late(tp', th[0])
      BY <1>3, <1>4, <2>2
    <3>2. ~Inside(tp', th[0])
      BY <3>1 DEF Late, Inside, Waiting, AtWork
    <3>. QED
      BY <3>1, <3>2 DEF CounterSet
  <2>. QED
    BY <2>1, <2>2
<1>15. AllEnd'
  BY <1>3, <1>5, <1>7 DEF AllEnd
<1>16. th'[0].pc \notin {"kickoff", "join", "exit"}
  BY <1>1, <1>2, <1>3, <1>4 DEF Running
<1>. QED
  BY <1>3, <1>5, <1>9, <1>11, <1>12, <1>13, <1>14, <1>15, <1>16 DEF Tally

LEMMA BarrierAloneTally ==
    ASSUME Inv, Inv', Tally, NEW t \in Threads, BarrierAlone(t)
    PROVE  Tally'
<1>1. th[t].pc = "barrier" /\ tp.n_threads = 1 /\ Leave(t) /\ tp' = tp /\ computed' = computed
  BY DEF BarrierAlone
<1>2. t \in Part
  BY <1>1, InsideRuns DEF Inside
<1>3. Part = {0}
  BY <1>1, Types DEF Part, Threads, Inv
<1>. QED
  BY <1>1, <1>2, <1>3, OpenTally DEF SameGraph

LEMMA BarrierReleaseTally ==
    ASSUME Inv, Inv', Tally, NEW t \in Threads, BarrierRelease(t)
    PROVE  Tally'
<1>1. th[t].pc = "release" /\ Leave(t) /\ computed' = computed /\ tp \in Pool /\ tp.n_barrier_passed \in Nat
  BY Types DEF BarrierRelease, Inv
<1>2. /\ SameGraph /\ tp'.abort = tp.abort /\ tp'.current_chunk = tp.current_chunk
      /\ tp'.n_barrier_passed = tp.n_barrier_passed + 1
  <2>1. tp' = [tp EXCEPT !.n_barrier_passed = tp.n_barrier_passed + 1]
    BY DEF BarrierRelease
  <2>. QED
    BY <1>1, <2>1 DEF Pool, SameGraph
<1>3. ASSUME NEW u \in Part \ {t}
      PROVE  /\ Waiting(tp, th[u]) /\ Late(tp', th[u])
             /\ th[u].node = th[t].node /\ th[u].after = th[t].after
  <2>1. Waiting(tp, th[u]) /\ u \in Threads /\ th[u] \in State /\ th[t] \in State
    BY <1>1, Types DEF Inv, Last, Part
  <2>2. Late(tp', th[u])
    BY <1>1, <1>2, <2>1 DEF Late, Waiting
  <2>3. /\ ~Unseen(tp, th[u], u) /\ ~Unseen(tp, th[t], t)
        /\ Next_barrier(tp, th[u], u) = Next_barrier(tp, th[t], t)
    BY <1>1, <2>1, InsideRuns DEF Inside
  <2>4. /\ Next_barrier(tp, th[u], u) = <<th[u].node, th[u].after>>
        /\ Next_barrier(tp, th[t], t) = <<th[t].node, th[t].after>>
    BY <1>1, <2>1, <2>3, WhereTo DEF Inv
  <2>5. <<th[u].node, th[u].after>> = <<th[t].node, th[t].after>>
    BY <2>3, <2>4
  <2>6. th[u].node = th[t].node /\ th[u].after = th[t].after
    BY <2>5
  <2>. QED
    BY <2>1, <2>2, <2>6
<1>. QED
  BY <1>1, <1>2, <1>3, OpenTally

-----------------------------------------------------------------------------
(* The workers between two graphs, and the owner.                          *)

LEMMA WorkerMoveTally ==
    ASSUME Inv, Inv', Tally, Running, NEW w \in Workers, NEW pc \in Worker_pcs \cup {"exit"}, th[w].pc \in Worker_pcs,
           Goto(w, pc), tp' = tp, computed' = computed
    PROVE  Tally'
<1>. DEFINE y == [th[w] EXCEPT !.pc = pc]
<1>1. th[w] \in State /\ w \in Threads \ {0}
  BY Types DEF Inv, Workers
<1>2. /\ y \in State /\ y.pc = pc /\ y.last_graph = th[w].last_graph /\ y.node = th[w].node
      /\ th' = [th EXCEPT ![w] = y]
  BY <1>1, SMT DEF Worker_pcs, State, Goto
<1>. HIDE DEF y
<1>3. SameRound /\ (Unseen(tp, y, w) <=> Unseen(tp, th[w], w))
  BY <1>2 DEF SameRound, Unseen
<1>4. /\ ~InBarrier(y) /\ ~InBarrier(th[w]) /\ y.pc \notin AtWork /\ th[w].pc \notin AtWork
      /\ ~AtChunks(tp, th[w]) /\ ~AtChunks(tp', y)
  BY <1>2 DEF Worker_pcs, InBarrier, AtWork, AtChunks, Late
<1>5. Place(tp', y, w) = At(w)
  BY <1>2, <1>3, <1>4 DEF Place, At, AtWork
<1>6. w \in Part => Shape(tp', y, w)
  <2>1. SUFFICES ASSUME w \in Part
                 PROVE  Shape(tp, y, w)
    OBVIOUS
  <2>2. Shape(tp, th[w], w)
    BY <2>1 DEF Tally, Shapes
  <2>. QED
    BY <1>2, <1>3, <1>4, <1>5, <2>2 DEF Shape, At, AtWork
<1>7. \A i \in MulMats \cup Ops : SameView(w, y, i)
  BY <1>1, <1>2, <1>4, <1>5, SameViews
<1>8. /\ Running' /\ (0 \in Part => AbortSeen' /\ CounterSet')
      /\ Next_barrier(tp', th'[0], 0) = Next_barrier(tp, th[0], 0)
  BY <1>1, <1>2, <1>3, OthersMove
<1>9. ASSUME 0 \in Part
      PROVE  AllEnd'
  BY <1>1, <1>2, <1>3, <1>5, <1>8, <1>9, AllEndKept DEF Inv, Tally
<1>. QED
  BY <1>1, <1>2, <1>3, <1>6, <1>7, <1>8, <1>9, QuietStep

LEMMA LookTally ==
    ASSUME Inv, Inv', Tally, Running, NEW w \in Workers, NEW pc \in {"lock", "loop"}, th[w].pc \in Worker_pcs,
           NewGraph(w), Look(w, pc), tp' = tp, computed' = computed
    PROVE  Tally'
<1>1. th[w] \in State /\ w \in Threads \ {0} /\ w \in Nat /\ tp.n_threads \in Nat
  BY Types DEF Inv, Workers, Threads
<1>2. PICK y : y = th'[w]
  OBVIOUS
<1>3. y \in State /\ th' = [th EXCEPT ![w] = y]
  <2>1. th'[w] \in State
    BY <1>1 DEF Inv, TypeOK, State
  <2>. QED
    BY <1>1, <1>2, <2>1, Types DEF Look, Inv
<1>4. /\ y.last_graph = n_graph
      /\ w < tp.n_threads => y.pc = "node" /\ y.node = 0
      /\ y.pc \in {"node", "lock", "loop"}
  BY <1>1, <1>2, Types DEF Look, Inv, State
<1>5. SameRound /\ Unseen(tp, th[w], w) /\ ~Unseen(tp', y, w)
  BY <1>1, <1>4 DEF SameRound, NewGraph, Unseen, n_graph
<1>6. ~AtChunks(tp, th[w]) /\ ~AtChunks(tp', y) /\ At(w) = 0
  BY <1>4, <1>5 DEF Worker_pcs, AtChunks, Late, At, Place
<1>7. ASSUME w \in Part
      PROVE  Place(tp', y, w) = At(w) /\ Shape(tp', y, w)
  <2>1. y.pc = "node" /\ y.node = 0
    BY <1>4, <1>7 DEF Part
  <2>2. Place(tp', y, w) = 0
    BY <1>5, <2>1 DEF Place, InBarrier
  <2>. QED
    BY <1>6, <2>1, <2>2, Types DEF Shape, InBarrier, AtWork, Inv
<1>8. w \in Part => \A i \in MulMats \cup Ops : SameView(w, y, i)
  BY <1>1, <1>3, <1>6, <1>7, SameViews
<1>9. /\ Running' /\ (0 \in Part => AbortSeen' /\ CounterSet')
      /\ Next_barrier(tp', th'[0], 0) = Next_barrier(tp, th[0], 0)
  BY <1>1, <1>3, <1>5, OthersMove
<1>10. ASSUME 0 \in Part
       PROVE  AllEnd'
  BY <1>1, <1>3, <1>5, <1>7, <1>9, <1>10, AllEndKept DEF Inv, Tally
<1>. QED
  BY <1>1, <1>3, <1>5, <1>7, <1>8, <1>9, <1>10, QuietStep

\* While the owner starts or frees, the tally is of no graph yet, or none any more.
LEMMA NotRunningTally ==
    ASSUME Tally, ~Running, th'[0] = th[0], tp' = tp, computed' = computed
    PROVE  Tally'
BY DEF Running, Tally

LEMMA WorkerTally ==
    ASSUME Inv, Inv', Tally, NEW w \in Workers, Worker(w)
    PROVE  Tally'
<1>0. tp' = tp /\ computed' = computed
  BY DEF Worker, PauseSleep, CheckStop, PollOrExit, PollWork, PollEnds, LockedWork, LockedReturn, LockedSleep
<1>1. CASE ~Running
  <2>1. w # 0 /\ 0 \in Threads
    BY Types DEF Workers, Inv
  <2>2. th'[0] = th[0]
    BY <2>1, Types DEF Worker, PauseSleep, CheckStop, PollOrExit, PollWork, PollEnds,
                       LockedWork, LockedReturn, LockedSleep, Look, Goto, Inv
  <2>. QED
    BY <1>0, <1>1, <2>2, NotRunningTally
<1>2. CASE Running
  <2>1. CASE PauseSleep(w)
    BY <1>0, <1>2, <2>1, WorkerMoveTally DEF PauseSleep, Worker_pcs
  <2>2. CASE CheckStop(w)
    BY <1>0, <1>2, <2>2, WorkerMoveTally DEF CheckStop, Worker_pcs
  <2>3. CASE PollOrExit(w)
    <3>1. PICK pc \in {"exit", "poll"} : Goto(w, pc)
      BY <2>3 DEF PollOrExit
    <3>. QED
      BY <1>0, <1>2, <2>3, <3>1, WorkerMoveTally DEF PollOrExit, Worker_pcs
  <2>4. CASE PollWork(w)
    BY <1>0, <1>2, <2>4, LookTally DEF PollWork, Worker_pcs
  <2>5. CASE PollEnds(w)
    BY <1>0, <1>2, <2>5, WorkerMoveTally DEF PollEnds, Worker_pcs
  <2>6. CASE LockedWork(w)
    BY <1>0, <1>2, <2>6, LookTally DEF LockedWork, Worker_pcs
  <2>7. CASE LockedReturn(w)
    BY <1>0, <1>2, <2>7, WorkerMoveTally DEF LockedReturn, Worker_pcs
  <2>8. CASE LockedSleep(w)
    BY <1>0, <1>2, <2>8, WorkerMoveTally DEF LockedSleep, Worker_pcs
  <2>. QED
    BY <2>1, <2>2, <2>3, <2>4, <2>5, <2>6, <2>7, <2>8 DEF Worker
<1>. QED
  BY <1>1, <1>2

LEMMA OwnerTally ==
    ASSUME Inv, Inv', Tally, GraphReset \/ Free \/ Join
    PROVE  Tally'
<1>1. 0 \in Threads /\ th \in [Threads -> State] /\ tp \in Pool
  BY Types DEF Inv
<1>2. CASE GraphReset
  <2>1. th'[0].pc = "kickoff" /\ computed' = <<>> /\ tp'.abort = NoAbort
    <3>1. PICK g \in Graphs : tp' = [tp EXCEPT !.graph = g, !.current_chunk = 0, !.abort = NoAbort]
      BY <1>2 DEF GraphReset
    <3>2. tp'.abort = NoAbort
      BY <1>1, <3>1 DEF Pool
    <3>3. computed' = <<>> /\ th' = [th EXCEPT ![0].pc = "kickoff"]
      BY <1>2 DEF GraphReset, Goto
    <3>. QED
      BY <1>1, <3>2, <3>3 DEF State
  <2>. QED
    BY <2>1 DEF Tally, Running
<1>3. CASE Free
  <2>1. th[0].pc \in Owner_pcs /\ th' = Broadcast([th EXCEPT ![0].pc = "join"])
    BY <1>3 DEF Free, Owner_pcs
  <2>2. th'[0].pc = "join"
    BY <2>1, BroadcastIs DEF Inv, Owner_pcs
  <2>. QED
    BY <2>2 DEF Tally, Running
<1>4. CASE Join
  <2>1. th'[0].pc = "exit"
    BY <1>1, <1>4 DEF Join, Goto, State
  <2>. QED
    BY <2>1 DEF Tally, Running
<1>. QED
  BY <1>2, <1>3, <1>4

\* A pool that is paused or goes on: workers are woken at most.
LEMMA PauseTally ==
    ASSUME Inv, Inv', Tally, Pause \/ Resume
    PROVE  Tally'
<1>1. th[0].pc = "idle" /\ tp \in Pool /\ 0 \in Threads /\ th \in [Threads -> State] /\ computed' = computed
      /\ th' = Broadcast(th)
  BY Types DEF Pause, Resume, Inv
<1>2. SameRound /\ SameGraph /\ tp'.graph = tp.graph /\ tp'.abort = tp.abort /\ tp'.current_chunk = tp.current_chunk
  BY <1>1 DEF Pause, Resume, Pool, SameRound, SameGraph
<1>3. th'[0] = th[0] /\ \A w \in Workers : Woken(th[w], th'[w])
  <2>1. th = [th EXCEPT ![0].pc = "idle"]
    BY <1>1 DEF State
  <2>2. th'[0] = [th[0] EXCEPT !.pc = "idle"] /\ \A w \in Workers : Woken(th[w], th'[w])
    BY <1>1, <2>1, BroadcastIs DEF Inv, Owner_pcs
  <2>. QED
    BY <1>1, <2>2 DEF State
<1>4. ASSUME NEW u \in Threads
      PROVE  /\ At(u)' = At(u) /\ \A i : SameAt(u, i)
             /\ u \in Part /\ Shape(tp, th[u], u) => Shape(tp', th'[u], u)
  <2>1. Woken(th[u], th'[u])
    BY <1>3 DEF Workers, Woken
  <2>2. Unseen(tp', th'[u], u) <=> Unseen(tp, th[u], u)
    BY <1>2, <2>1 DEF Unseen, Woken, SameRound
  <2>3. th[u].pc \notin AtWork /\ th'[u].pc \notin AtWork /\ (InBarrier(th'[u]) <=> InBarrier(th[u]))
    <3>1. th[u].pc \notin AtWork
      BY <1>1, AllOut DEF Owner_pcs, Inside
    <3>. QED
      BY <2>1, <3>1 DEF Woken, Worker_pcs, AtWork, InBarrier
  <2>4. At(u)' = At(u)
    BY <2>1, <2>2, <2>3 DEF At, Place, Woken, AtWork
  <2>5. AtChunks(tp', th'[u]) <=> AtChunks(tp, th[u])
    BY <1>2, <2>1, <2>3 DEF AtChunks, Late, Woken, Worker_pcs, SameRound, AtWork
  <2>6. \A i : Begun(u, i)' <=> Begun(u, i)
    BY <2>4, <2>5 DEF Begun, Started, At
  <2>7. \A i, k : Owes(u, i, k)' <=> Owes(u, i, k)
    BY <2>3, <2>4 DEF Owes, Has, At, AtWork
  <2>8. Shape(tp, th[u], u) => Shape(tp', th'[u], u)
    BY <1>2, <2>1, <2>2, <2>3, <2>4 DEF Shape, At, AtWork, Woken
  <2>. QED
    BY <2>4, <2>6, <2>7, <2>8 DEF SameAt
<1>5. TypeOK /\ TypeOK' /\ Ops' = Ops /\ MulMats' = MulMats /\ Part' = Part /\ Running
  BY <1>1, <1>2, GraphSets DEF Inv, Running
<1>6. PartsOnly'
  BY <1>1, <1>2, <1>5, PartsKept DEF Tally
<1>7. CASE Part = {}
  BY <1>1, <1>2, <1>3, <1>5, <1>6, <1>7 DEF Tally
<1>8. CASE Part # {}
  <2>1. Shapes /\ AbortSeen /\ CounterSet /\ AllEnd /\ OpsDone /\ ChunksDone /\ 0 \in Part
    BY <1>5, <1>8, OwnerTakesPart DEF Tally
  <2>2. \A u \in Part : u \in Threads
    BY DEF Part
  <2>3. Shapes'
    BY <1>4, <1>5, <2>1, <2>2 DEF Shapes
  <2>4. AbortSeen' /\ CounterSet'
    <3>1. th[0].pc \notin {"computed", "chunk", "take"} /\ ~InBarrier(th[0])
      BY <1>1 DEF InBarrier
    <3>2. At(0)' = At(0)
      BY <1>1, <1>4
    <3>. QED
      BY <1>2, <1>3, <2>1, <3>1, <3>2 DEF AbortSeen, CounterSet
  <2>5. AllEnd'
    <3>1. Next_barrier(tp, th[0], 0) = Out
      BY <1>1, WhereTo DEF Inv, Unseen, Owner_pcs
    <3>2. \A u \in Part : At(u)' = At(0)'
      BY <1>4, <2>1, <2>2, <3>1 DEF AllEnd
    <3>. QED
      BY <1>5, <3>2 DEF AllEnd
  <2>6. OpsDone'
    <3>1. \A i \in Ops, u \in Part : At(u)' > i <=> At(u) > i
      BY <1>4, <2>2
    <3>. QED
      BY <1>1, <1>2, <1>5, <2>1, <3>1, OpsKept
  <2>7. ChunksDone'
    <3>1. ASSUME NEW i \in MulMats
          PROVE  Chunked(i)'
      <4>1. \A u \in Part : SameAt(u, i)
        BY <1>4, <2>2
      <4>. QED
        BY <1>1, <1>2, <1>5, <2>1, <4>1, ChunkedKept DEF ChunksDone
    <3>. QED
      BY <1>5, <3>1 DEF ChunksDone
  <2>. QED
    BY <1>1, <1>3, <1>5, <1>6, <1>8, <2>1, <2>3, <2>4, <2>5, <2>6, <2>7 DEF Tally
<1>. QED
  BY <1>7, <1>8

LEMMA KickoffTally ==
    ASSUME Inv, Inv', Tally, Kickoff
    PROVE  Tally'
<1>1. /\ tp'.graph = tp.graph /\ tp'.abort = tp.abort /\ tp'.n_threads \in 1 .. NumThreads
      /\ th'[0].pc = "node" /\ th'[0].node = 0
      /\ \A w \in Workers : Unseen(tp', th'[w], w)
  BY KickoffIs DEF Unseen
<1>2. tp'.abort = NoAbort /\ DOMAIN computed' = {} /\ 0 \in Threads /\ 0 \in Part' /\ Len(tp'.graph) \in Nat
  <2>1. tp'.abort = NoAbort /\ computed' = <<>> /\ 0 \in Threads /\ Len(tp'.graph) \in Nat
    BY <1>1, Types DEF Kickoff, Tally, Inv
  <2>2. 0 \in Part'
    BY <1>1, <2>1 DEF Part
  <2>. QED
    BY <2>1, <2>2
<1>3. ASSUME NEW u \in Part'
      PROVE  At(u)' = 0 /\ Shape(tp', th'[u], u) /\ (u # 0 => Unseen(tp', th'[u], u))
  <2>1. CASE u = 0
    <3>1. At(u)' = 0
      BY <1>1, <2>1 DEF At, Place, InBarrier
    <3>. QED
      BY <1>1, <1>2, <2>1, <3>1 DEF Shape, At, InBarrier, AtWork
  <2>2. CASE u # 0
    <3>1. Unseen(tp', th'[u], u)
      BY <1>1, <2>2 DEF Part, Workers
    <3>2. At(u)' = 0
      BY <3>1 DEF At, Place
    <3>. QED
      BY <1>2, <3>1, <3>2 DEF Shape, At
  <2>. QED
    BY <2>1, <2>2
<1>4. Running' /\ PartsOnly' /\ Shapes' /\ AbortSeen' /\ CounterSet'
  BY <1>1, <1>2, <1>3 DEF Running, PartsOnly, Shapes, AbortSeen, CounterSet, InBarrier
<1>5. AllEnd'
  BY <1>2, <1>3 DEF AllEnd
<1>6. OpsDone'
  <2>1. \A i \in Ops' : ~(i < 0)
    BY <1>2 DEF Ops, n_nodes
  <2>. QED
    BY <1>2, <1>3, <2>1 DEF OpsDone
<1>7. ChunksDone'
  <2>1. ASSUME NEW i \in MulMats'
        PROVE  ~Begun(0, i)'
    <3>1. i \in Nat
      BY <1>2 DEF MulMats, n_nodes
    <3>2. At(0)' = 0 /\ ~AtChunks(tp', th'[0])
      BY <1>1, <1>2, <1>3 DEF AtChunks, Late
    <3>. QED
      BY <3>1, <3>2 DEF Begun, Started, At
  <2>. QED
    BY <1>2, <2>1 DEF ChunksDone, Chunked
<1>. QED
  BY <1>1, <1>2, <1>4, <1>5, <1>6, <1>7 DEF Tally

-----------------------------------------------------------------------------
(* EachPartOnce.                                                           *)

LEMMA InitTally ==
    ASSUME Init
    PROVE  Tally
<1>1. tp.graph = <<>> /\ tp.n_threads = 0 /\ tp.abort = NoAbort /\ computed = <<>>
  BY DEF Init
<1>2. TypeOK /\ 0 \in Threads
  BY InitInv, Types DEF Inv
<1>3. th[0].pc = "idle"
  BY <1>2 DEF Init
<1>4. Part = {}
  BY <1>1, <1>2, Types DEF Part, Threads
<1>5. PartsOnly
  BY <1>1 DEF PartsOnly
<1>. QED
  BY <1>1, <1>3, <1>4, <1>5 DEF Tally

LEMMA StepTally ==
    ASSUME Inv, Inv', Tally, [Next]_vars
    PROVE  Tally'
<1>1. ASSUME NEW t \in Threads, BarrierSpin(t)
      PROVE  Tally'
  <2>1. CASE Running
    BY <1>1, <2>1, BarrierSpinTally
  <2>2. CASE ~Running
    <3>1. t # 0 /\ 0 \in Threads
      BY <1>1, <2>2, Types DEF BarrierSpin, Running, Inv
    <3>2. th'[0] = th[0] /\ tp' = tp /\ computed' = computed
      BY <1>1, <3>1, Types DEF BarrierSpin, Leave, Inv
    <3>. QED
      BY <2>2, <3>2, NotRunningTally
  <2>. QED
    BY <2>1, <2>2
<1>2. ASSUME NEW t \in Threads, Compute(t)
      PROVE  Tally'
  BY <1>1, <1>2, BarrierAloneTally, InBarrierTally, BarrierReleaseTally, GraphEndsTally, SkipNodeTally,
     ComputeNodeTally, MulMatStartTally, MulMatChunkTally, MulMatTakeTally, MulMatEndTally, NodeDoneTally
  DEF Compute
<1>3. ASSUME NEW w \in Workers, Worker(w)
      PROVE  Tally'
  BY <1>3, WorkerTally
<1>4. CASE GraphReset \/ Kickoff \/ Pause \/ Resume \/ Free \/ Join
  BY <1>4, OwnerTally, KickoffTally, PauseTally
<1>5. CASE UNCHANGED vars
  <2>1. tp' = tp /\ th' = th /\ computed' = computed
    BY <1>5 DEF vars
  <2>2. SameGraph /\ SameRound /\ \A u : At(u)' = At(u)
    BY <2>1 DEF SameGraph, SameRound, At
  <2>3. /\ Part' = Part /\ MulMats' = MulMats /\ Ops' = Ops /\ Chunks' = Chunks
        /\ \A i : Parts(i)' = Parts(i)
    BY <2>2, GraphSets
  <2>4. Running' <=> Running
    BY <2>1 DEF Running
  <2>5. PartsOnly' <=> PartsOnly
    BY <2>1, <2>3 DEF PartsOnly
  <2>6. Shapes' <=> Shapes
    BY <2>1, <2>3 DEF Shapes
  <2>7. AbortSeen' <=> AbortSeen
    BY <2>1, <2>2 DEF AbortSeen
  <2>8. (CounterSet' <=> CounterSet) /\ (AllEnd' <=> AllEnd) /\ (OpsDone' <=> OpsDone)
    BY <2>1, <2>2, <2>3 DEF CounterSet, AllEnd, OpsDone
  <2>9. /\ \A u, i : Begun(u, i)' <=> Begun(u, i)
        /\ \A u, i, k : Owes(u, i, k)' <=> Owes(u, i, k)
    BY <2>1 DEF Begun, Owes
  <2>10. ChunksDone' <=> ChunksDone
    <3>1. \A i : Underway(i)' <=> Underway(i)
      BY <2>1, <2>2, <2>3, <2>9 DEF Underway
    <3>2. \A i : Chunked(i)' <=> Chunked(i)
      BY <2>1, <2>2, <2>3, <2>9, <3>1 DEF Chunked
    <3>. QED
      BY <2>3, <3>2 DEF ChunksDone
  <2>. QED
    BY <2>1, <2>3, <2>4, <2>5, <2>6, <2>7, <2>8, <2>10 DEF Tally
<1>. QED
  BY <1>2, <1>3, <1>4, <1>5 DEF Next

LEMMA TallyAtEnd ==
    ASSUME Inv, Tally
    PROVE  EachPartOnce
<1>. DEFINE last == IF tp.abort = NoAbort THEN n_nodes ELSE tp.abort
            J    == {j \in 0 .. last - 1 : ~Skipped(j)}
            All  == UNION {{<<i, part>> : part \in Parts(i)} : i \in J}
<1>1. SUFFICES ASSUME th[0].pc = "idle"
               PROVE  (\A k \in DOMAIN computed : computed[k] = 1) /\ DOMAIN computed = All
  BY Zenon DEF EachPartOnce
<1>2. Running /\ PartsOnly
  BY <1>1 DEF Running, Tally
<1>3. \A k \in DOMAIN computed : computed[k] = 1
  BY <1>2 DEF PartsOnly
<1>4. Len(tp.graph) \in Nat /\ tp \in Pool /\ 0 \in Threads /\ tp.graph \in Seq(Kinds)
  BY Types DEF Inv
<1>5. CASE Part = {}
  <2>1. tp.graph = <<>> /\ tp.abort = NoAbort
    BY <1>2, <1>5 DEF Tally
  <2>2. n_nodes = 0 /\ last = 0
    BY <2>1 DEF n_nodes
  <2>3. MulMats = {} /\ Ops = {} /\ J = {}
    BY <2>2 DEF MulMats, Ops
  <2>4. DOMAIN computed = {}
    BY <1>2, <2>3 DEF PartsOnly
  <2>5. All = {}
    BY <2>3
  <2>. QED
    BY <1>3, <2>4, <2>5
<1>6. CASE Part # {}
  <2>1. Shapes /\ AbortSeen /\ AllEnd /\ OpsDone /\ ChunksDone /\ 0 \in Part
    BY <1>2, <1>6, OwnerTakesPart DEF Tally, Inv
  <2>2. PICK w : w = At(0)
    OBVIOUS
  <2>3. w \in Nat /\ w <= Len(tp.graph) /\ (w = Len(tp.graph) \/ w = tp.abort)
    <3>1. Shape(tp, th[0], 0)
      BY <2>1 DEF Shapes
    <3>2. At(0) = th[0].node
      BY <1>1 DEF At, Place, Unseen, InBarrier
    <3>. QED
      BY <1>1, <1>4, <2>2, <3>1, <3>2, AtType DEF Shape, At, Unseen, InBarrier, AtWork, Inv
  <2>4. last = w
    BY <2>1, <2>2, <2>3 DEF AbortSeen, NoAbort, n_nodes
  <2>5. \A t \in Part : At(t) = w
    <3>1. Next_barrier(tp, th[0], 0) = Out
      BY <1>1, <1>4, WhereTo, Types DEF Inv, Unseen, Owner_pcs
    <3>. QED
      BY <2>1, <2>2, <3>1 DEF AllEnd
  <2>6. ASSUME NEW i \in MulMats, NEW k \in Parts(i)
        PROVE  i \in Nat /\ i < n_nodes /\ ~Skipped(i) /\ (<<i, k>> \in DOMAIN computed <=> i < w)
    <3>1. i \in Nat /\ i < n_nodes /\ Node(i) = "mul_mat" /\ k \in 0 .. Chunks - 1 /\ Chunks \in Nat
      BY <1>4, ChunkNumbers DEF MulMats, Parts, n_nodes, Inv
    <3>2. ~Skipped(i)
      <4>1. ASSUME i > 0, Node(i - 1) = "fuse"
            PROVE  FALSE
        <5>1. i - 1 \in Nat /\ i - 1 < Len(tp.graph) /\ tp.graph[(i - 1) + 1] = "fuse"
          BY <1>4, <3>1, <4>1 DEF n_nodes, Node
        <5>2. tp.graph[(i - 1) + 2] = "op"
          BY <5>1, Fused DEF Inv
        <5>3. (i - 1) + 2 = i + 1
          BY <3>1
        <5>. QED
          BY <3>1, <5>2, <5>3 DEF Node
      <4>. QED
        BY <3>1, <4>1 DEF Skipped
    <3>3. Begun(0, i) <=> i < w
      <4>1. ~AtChunks(tp, th[0])
        BY <1>1 DEF AtChunks, Late
      <4>. QED
        BY <2>2, <2>3, <3>1, <4>1 DEF Begun, Started, At
    <3>4. CASE i < w
      <4>1. \A t \in Part : At(t) > i
        BY <2>3, <2>5, <3>1, <3>4
      <4>. QED
        BY <2>1, <3>1, <3>2, <3>3, <3>4, <4>1 DEF ChunksDone, Chunked
    <3>5. CASE ~(i < w)
      <4>1. k \in Nat
        BY <3>1
      <4>. QED
        BY <2>1, <3>1, <3>2, <3>3, <3>5, <4>1 DEF ChunksDone, Chunked
    <3>. QED
      BY <3>4, <3>5
  <2>7. ASSUME NEW i \in Ops, i \notin MulMats, NEW k \in Parts(i)
        PROVE  i \in Nat /\ i < n_nodes /\ ~Skipped(i) /\ (<<i, k>> \in DOMAIN computed <=> i < w)
    <3>1. i \in Nat /\ i < n_nodes /\ ~Skipped(i) /\ Node(i) # "mul_mat"
      BY <1>4 DEF Ops, n_nodes
    <3>2. k \in Part
      BY <3>1, Types DEF Parts, Part, Threads, Inv, Pool
    <3>. QED
      BY <2>1, <2>5, <3>1, <3>2 DEF OpsDone
  <2>8. ASSUME NEW key \in DOMAIN computed
        PROVE  key \in All
    <3>1. PICK i \in MulMats \cup Ops : \E k \in Parts(i) : key = <<i, k>>
      BY <1>2 DEF PartsOnly
    <3>2. PICK k \in Parts(i) : key = <<i, k>>
      BY <3>1
    <3>3. i \in Nat /\ ~Skipped(i) /\ i < w
      BY <2>6, <2>7, <3>2
    <3>4. i \in J
      BY <2>3, <2>4, <3>3
    <3>. HIDE DEF J
    <3>. QED
      BY <3>2, <3>4
  <2>9. ASSUME NEW i \in J, NEW k \in Parts(i)
        PROVE  <<i, k>> \in DOMAIN computed
    <3>1. i \in Nat /\ i < w /\ i \in 0 .. n_nodes - 1 /\ ~Skipped(i)
      BY <1>4, <2>3, <2>4 DEF n_nodes
    <3>2. Node(i) \in Kinds
      <4>1. i + 1 \in 1 .. Len(tp.graph)
        BY <1>4, <3>1 DEF n_nodes
      <4>. QED
        BY <1>4, <4>1, ElementOfSeq DEF Node
    <3>3. i \in MulMats \/ (i \in Ops /\ i \notin MulMats)
      BY <3>1, <3>2 DEF MulMats, Ops, Kinds, Skipped
    <3>. QED
      BY <2>6, <2>7, <3>1, <3>3
  <2>10. \A key \in All : \E i \in J : \E k \in Parts(i) : key = <<i, k>>
    <3>. HIDE DEF J
    <3>. QED
      OBVIOUS
  <2>. HIDE DEF J, All
  <2>11. DOMAIN computed = All
    BY <2>8, <2>9, <2>10
  <2>. QED
    BY <1>3, <2>11
<1>. QED
  BY <1>5, <1>6

\* EachPartOnce (ggml_graph_compute_thread): in a graph that was computed every part of every
\* node was computed once, up to the node of the abort, and nothing from there on, whichever
\* threads took part and whichever of them took which chunk.
THEOREM SpecEachPartOnce == Spec => []EachPartOnce
<1>1. Init => Tally
  BY InitTally
<1>2. Inv /\ Inv' /\ Tally /\ [Next]_vars => Tally'
  BY StepTally
<1>3. Inv /\ Tally => EachPartOnce
  BY TallyAtEnd
<1>. QED
  BY <1>1, <1>2, <1>3, SpecInv, PTL DEF Spec
=============================================================================
