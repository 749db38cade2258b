----------------------------- MODULE ThreadPool -----------------------------
(***************************************************************************)
(* ggml-cpu: the thread pool that computes a graph (the build without      *)
(* OpenMP).                                                                *)
(*                                                                         *)
(* Thread 0 is the caller of ggml_graph_compute().  It resets the shared   *)
(* parameters without a lock, starts the graph under the mutex (n_graph    *)
(* counts the graphs and says how many threads take part) and computes as  *)
(* one of the threads.  The others poll, then sleep on the condition       *)
(* variable.  All threads of a graph walk over its nodes in step, with a   *)
(* spinning barrier between two nodes, at the end, and inside a mul_mat,   *)
(* whose chunks they then take from a shared counter.  The abort callback  *)
(* is asked by thread 0 alone.                                             *)
(*                                                                         *)
(* A graph is a sequence of node kinds: "nop" (an empty op, or one without *)
(* the compute flag), "op" (a part per thread), "mul_mat" (chunks), "fuse" *)
(* (an op that computes the node after it, too).  Every atomic access is a *)
(* step of its own where another thread can tell.                          *)
(***************************************************************************)
EXTENDS Integers, Sequences

CONSTANTS
    NumThreads,     \* threadpool->n_threads
    Graphs,         \* the graphs that are computed
    NumChunks,      \* nchunk0 * nchunk1 of a mul_mat before it is re-chunked
    ChunkFactor,    \* the 4 of "nth * 4", scaled to NumChunks
    MaxGraphs       \* bound: graphs computed by the pool

Threads == 0 .. NumThreads - 1
Workers == Threads \ {0}
Kinds   == {"nop", "op", "mul_mat", "fuse"}

ASSUME PoolAssumption ==
    /\ NumThreads \in Nat \ {0} /\ NumChunks \in Nat \ {0} /\ ChunkFactor \in Nat /\ MaxGraphs \in Nat
    /\ Graphs \subseteq Seq(Kinds)
    \* ggml_cpu_try_fuse_ops(): RMS_NORM with the MUL right after it
    /\ \A g \in Graphs : \A i \in 1 .. Len(g) : g[i] = "fuse" => i < Len(g) /\ g[i + 1] = "op"

VARIABLES
    tp,             \* struct ggml_threadpool
    th,             \* [Threads -> struct ggml_compute_state, with the locals of its function]
    computed        \* history: [node, part -> how often] of the graph last started

vars == <<tp, th, computed>>

NoAbort == -1

Init ==
    /\ \E paused \in BOOLEAN :
        tp = [graph |-> <<>>, count |-> 0, n_threads |-> 0, n_barrier |-> 0, n_barrier_passed |-> 0,
              current_chunk |-> 0, stop |-> FALSE, pause |-> paused, abort |-> NoAbort]
    /\ th = [t \in Threads |-> [pc |-> IF t = 0 THEN "idle" ELSE "loop", last_graph |-> <<0, 0>>,
                                node |-> 0, chunk |-> 0, n_passed |-> 0, after |-> "end"]]
    /\ computed = <<>>

n_graph    == <<tp.count, tp.n_threads>>
n_nodes    == Len(tp.graph)
Node(i)    == tp.graph[i + 1]
Goto(t, p) == th' = [th EXCEPT ![t].pc = p]

-----------------------------------------------------------------------------
(* ggml_barrier() *)

\* Where the code goes on after the barrier.
Leave(t) ==
    LET after == th[t].after IN
    th' = [th EXCEPT ![t].pc = CASE after = "next"   -> "node"
                                 [] after = "chunks" -> "chunk"
                                 [] after = "end"    -> IF t = 0 THEN "idle" ELSE "loop",
                     ![t].node  = IF after = "next" THEN @ + 1 ELSE @,
                     ![t].chunk = IF after = "chunks" THEN t ELSE @]

\* one thread: nothing to wait for
BarrierAlone(t) ==
    /\ th[t].pc = "barrier" /\ tp.n_threads = 1
    /\ Leave(t)
    /\ UNCHANGED <<tp, computed>>

\* n_passed is read before the thread counts itself
BarrierEnter(t) ==
    /\ th[t].pc = "barrier" /\ tp.n_threads # 1
    /\ th' = [th EXCEPT ![t].pc = "arrive", ![t].n_passed = tp.n_barrier_passed]
    /\ UNCHANGED <<tp, computed>>

BarrierArrive(t) ==
    /\ th[t].pc = "arrive"
    /\ tp' = [tp EXCEPT !.n_barrier = @ + 1]
    /\ Goto(t, IF tp.n_barrier = tp.n_threads - 1 THEN "reset" ELSE "spin")
    /\ UNCHANGED computed

\* the last thread: the counter first, then the others are let go
BarrierReset(t) ==
    /\ th[t].pc = "reset"
    /\ tp' = [tp EXCEPT !.n_barrier = 0]
    /\ Goto(t, "release")
    /\ UNCHANGED computed

BarrierRelease(t) ==
    /\ th[t].pc = "release"
    /\ tp' = [tp EXCEPT !.n_barrier_passed = @ + 1]
    /\ Leave(t)
    /\ UNCHANGED computed

BarrierSpin(t) ==
    /\ th[t].pc = "spin" /\ tp.n_barrier_passed # th[t].n_passed
    /\ Leave(t)
    /\ UNCHANGED <<tp, computed>>

-----------------------------------------------------------------------------
(* ggml_graph_compute_thread() *)

Barrier(t, after) == th' = [th EXCEPT ![t].pc = "barrier", ![t].after = after]

Count(i, part) ==
    computed' = [k \in DOMAIN computed \cup {<<i, part>>} |->
                    (IF k \in DOMAIN computed THEN computed[k] ELSE 0) + (IF k = <<i, part>> THEN 1 ELSE 0)]

\* Mutant: thread 0 does not wait for the others at the end.
GraphEndsEarly(t) ==
    /\ th[t].pc = "node" /\ (th[t].node >= n_nodes \/ tp.abort = th[t].node)
    /\ IF t = 0 THEN Goto(t, "idle") ELSE Barrier(t, "end")
    /\ UNCHANGED <<tp, computed>>

\* the loop's condition fails: the last barrier
GraphEnds(t) ==
    /\ th[t].pc = "node" /\ (th[t].node >= n_nodes \/ tp.abort = th[t].node)
    /\ Barrier(t, "end")
    /\ UNCHANGED <<tp, computed>>

AtNode(t, kinds) ==
    /\ th[t].pc = "node" /\ th[t].node < n_nodes /\ tp.abort # th[t].node
    /\ Node(th[t].node) \in kinds

SkipNode(t) ==
    /\ AtNode(t, {"nop"})
    /\ th' = [th EXCEPT ![t].node = @ + 1]
    /\ UNCHANGED <<tp, computed>>

\* the thread's part of the node; a fused one steps over the next node
ComputeNode(t) ==
    /\ AtNode(t, {"op", "fuse"})
    /\ Count(th[t].node, t)
    /\ th' = [th EXCEPT ![t].pc = "computed", ![t].node = IF Node(@) = "fuse" THEN @ + 1 ELSE @]
    /\ UNCHANGED tp

\* Mutant: the first chunk to take is the first of all.
MulMatStartAtZero(t) ==
    /\ AtNode(t, {"mul_mat"})
    /\ tp' = IF t = 0 THEN [tp EXCEPT !.current_chunk = 0] ELSE tp
    /\ Barrier(t, "chunks")
    /\ UNCHANGED computed

\* ggml_compute_forward_mul_mat(): thread 0 sets the counter before the barrier
MulMatStart(t) ==
    /\ AtNode(t, {"mul_mat"})
    /\ tp' = IF t = 0 THEN [tp EXCEPT !.current_chunk = tp.n_threads] ELSE tp
    /\ Barrier(t, "chunks")
    /\ UNCHANGED computed

\* the chunks, re-made by thread when there are too few of them
Chunks == IF NumChunks < tp.n_threads * ChunkFactor THEN tp.n_threads ELSE NumChunks

MulMatChunk(t) ==
    /\ th[t].pc = "chunk" /\ th[t].chunk < Chunks
    /\ Count(th[t].node, th[t].chunk)
    /\ Goto(t, IF tp.n_threads >= Chunks THEN "computed" ELSE "take")
    /\ UNCHANGED tp

MulMatTake(t) ==
    /\ th[t].pc = "take"
    /\ tp' = [tp EXCEPT !.current_chunk = @ + 1]
    /\ th' = [th EXCEPT ![t].pc = "chunk", ![t].chunk = tp.current_chunk]
    /\ UNCHANGED computed

MulMatEnd(t) ==
    /\ th[t].pc = "chunk" /\ th[t].chunk >= Chunks
    /\ Goto(t, "computed")
    /\ UNCHANGED <<tp, computed>>

\* Mutant: no barrier before the last node.
NodeDoneUnsynced(t) ==
    /\ th[t].pc = "computed"
    /\ \E abort \in IF t = 0 THEN BOOLEAN ELSE {FALSE} :
        tp' = IF abort THEN [tp EXCEPT !.abort = th[t].node + 1] ELSE tp
    /\ IF th[t].node + 2 < n_nodes THEN Barrier(t, "next")
       ELSE th' = [th EXCEPT ![t].pc = "node", ![t].node = @ + 1]
    /\ UNCHANGED computed

\* thread 0 may be told to abort, from the next node on; then the barrier, except after the last node
NodeDone(t) ==
    /\ th[t].pc = "computed"
    /\ \E abort \in IF t = 0 THEN BOOLEAN ELSE {FALSE} :
        tp' = IF abort THEN [tp EXCEPT !.abort = th[t].node + 1] ELSE tp
    /\ IF th[t].node + 1 < n_nodes THEN Barrier(t, "next")
       ELSE th' = [th EXCEPT ![t].pc = "node", ![t].node = @ + 1]
    /\ UNCHANGED computed

-----------------------------------------------------------------------------
(* ggml_graph_compute_secondary_thread() *)

\* cond.wait: the mutex is released in the step that goes to sleep
PauseSleep(t) ==
    /\ th[t].pc = "loop" /\ tp.pause
    /\ Goto(t, "paused")
    /\ UNCHANGED <<tp, computed>>

CheckStop(t) ==
    /\ th[t].pc = "loop" /\ ~tp.pause
    /\ Goto(t, "check")
    /\ UNCHANGED <<tp, computed>>

PollOrExit(t) ==
    /\ th[t].pc = "check"
    /\ Goto(t, IF tp.stop THEN "exit" ELSE "poll")
    /\ UNCHANGED <<tp, computed>>

\* the graph a worker sees for the first time is its own if its number is among the threads
NewGraph(t) ==
    /\ ~tp.stop /\ ~tp.pause /\ n_graph # th[t].last_graph

Look(t, otherwise) ==
    th' = [th EXCEPT ![t].last_graph = n_graph, ![t].node = IF t < tp.n_threads THEN 0 ELSE @,
                     ![t].pc = IF t < tp.n_threads THEN "node" ELSE otherwise]

\* poll_for_work(): new work, or the end of the rounds (which may be none), or stop, or pause
PollWork(t) ==
    /\ th[t].pc = "poll" /\ NewGraph(t)
    /\ Look(t, "lock")
    /\ UNCHANGED <<tp, computed>>

PollEnds(t) ==
    /\ th[t].pc = "poll"
    /\ Goto(t, "lock")
    /\ UNCHANGED <<tp, computed>>

\* check_for_work(), under the mutex
LockedWork(t) ==
    /\ th[t].pc = "lock" /\ NewGraph(t)
    /\ Look(t, "loop")
    /\ UNCHANGED <<tp, computed>>

LockedReturn(t) ==
    /\ th[t].pc = "lock" /\ (tp.stop \/ tp.pause)
    /\ Goto(t, "loop")
    /\ UNCHANGED <<tp, computed>>

LockedSleep(t) ==
    /\ th[t].pc = "lock" /\ ~tp.stop /\ ~tp.pause /\ n_graph = th[t].last_graph
    /\ Goto(t, "asleep")
    /\ UNCHANGED <<tp, computed>>

-----------------------------------------------------------------------------
(* The calls of the owner of the pool: thread 0. *)

\* ggml_cond_broadcast()
Broadcast(f) ==
    [t \in Threads |-> [f[t] EXCEPT !.pc = CASE @ = "asleep" -> "lock" [] @ = "paused" -> "loop" [] OTHER -> @]]

\* ggml_graph_compute(): the parameters, without a lock ...
GraphReset ==
    /\ th[0].pc = "idle" /\ ~tp.stop /\ tp.count < MaxGraphs
    /\ \E g \in Graphs : tp' = [tp EXCEPT !.graph = g, !.current_chunk = 0, !.abort = NoAbort]
    /\ computed' = <<>>
    /\ Goto(0, "kickoff")

\* Mutant: only a paused pool is woken.
KickoffSilently ==
    /\ th[0].pc = "kickoff"
    /\ \E n \in 1 .. NumThreads :
        tp' = [tp EXCEPT !.count = @ + 1, !.n_threads = n, !.pause = FALSE]
    /\ LET f == [th EXCEPT ![0].pc = "node", ![0].node = 0] IN th' = IF tp.pause THEN Broadcast(f) ELSE f
    /\ UNCHANGED computed

\* ... ggml_graph_compute_kickoff() ...
Kickoff ==
    /\ th[0].pc = "kickoff"
    /\ \E n \in 1 .. NumThreads :
        tp' = [tp EXCEPT !.count = @ + 1, !.n_threads = n, !.pause = FALSE]
    /\ th' = Broadcast([th EXCEPT ![0].pc = "node", ![0].node = 0])
    /\ UNCHANGED computed

\* A backend that gets another pool pauses this one.
Pause ==
    /\ th[0].pc = "idle" /\ ~tp.stop /\ ~tp.pause
    /\ tp' = [tp EXCEPT !.pause = TRUE]
    /\ th' = Broadcast(th)
    /\ UNCHANGED computed

Resume ==
    /\ th[0].pc = "idle" /\ tp.pause
    /\ tp' = [tp EXCEPT !.pause = FALSE]
    /\ th' = Broadcast(th)
    /\ UNCHANGED computed

\* ggml_threadpool_free(): stop, then the joins
Free ==
    /\ th[0].pc = "idle" /\ ~tp.stop
    /\ tp' = [tp EXCEPT !.stop = TRUE, !.pause = FALSE]
    /\ th' = Broadcast([th EXCEPT ![0].pc = "join"])
    /\ UNCHANGED computed

Join ==
    /\ th[0].pc = "join" /\ \A w \in Workers : th[w].pc = "exit"
    /\ Goto(0, "exit")
    /\ UNCHANGED <<tp, computed>>

-----------------------------------------------------------------------------
Compute(t) ==
    \/ BarrierAlone(t) \/ BarrierEnter(t) \/ BarrierArrive(t)
    \/ BarrierReset(t) \/ BarrierRelease(t) \/ BarrierSpin(t)
    \/ GraphEnds(t) \/ SkipNode(t) \/ ComputeNode(t)
    \/ MulMatStart(t) \/ MulMatChunk(t) \/ MulMatTake(t) \/ MulMatEnd(t) \/ NodeDone(t)

Worker(t) ==
    \/ PauseSleep(t) \/ CheckStop(t) \/ PollOrExit(t)
    \/ PollWork(t) \/ PollEnds(t)
    \/ LockedWork(t) \/ LockedReturn(t) \/ LockedSleep(t)

Next ==
    \/ \E t \in Threads : Compute(t)
    \/ \E t \in Workers : Worker(t)
    \/ GraphReset \/ Kickoff \/ Pause \/ Resume \/ Free \/ Join

\* Every thread is scheduled; whether the owner calls anything is its own affair.
Fairness ==
    /\ \A t \in Threads : WF_vars(Compute(t))
    /\ \A t \in Workers : WF_vars(Worker(t))
    /\ WF_vars(Kickoff) /\ WF_vars(Join)

Spec == Init /\ [][Next]_vars /\ Fairness

-----------------------------------------------------------------------------
(* Properties *)

\* The fields keep their types (struct ggml_threadpool, struct ggml_compute_state).
TypeOK ==
    /\ tp \in [graph : Graphs \cup {<<>>}, count : 0 .. MaxGraphs, n_threads : 0 .. NumThreads,
               n_barrier : 0 .. NumThreads, n_barrier_passed : Nat, current_chunk : Nat,
               stop : BOOLEAN, pause : BOOLEAN, abort : Int]
    /\ th \in [Threads -> [pc : {"idle", "kickoff", "join", "exit", "loop", "check", "poll", "lock", "asleep", "paused",
                                 "node", "computed", "chunk", "take", "barrier", "arrive", "reset", "release", "spin"},
                           last_graph : Nat \X (0 .. NumThreads), node : Nat, chunk : Nat, n_passed : Nat,
                           after : {"next", "chunks", "end"}]]

AtWork == {"node", "computed", "chunk", "take"}

\* "No worker threads should be accessing the parameters below at this stage"
\* (ggml_graph_compute): while thread 0 is between two graphs, no worker reads
\* the graph, the chunk counter or the abort flag; one that is late spins in the
\* last barrier, which is open already.
QuietBetweenGraphs ==
    th[0].pc \in {"idle", "kickoff", "join"} => \A w \in Workers :
        /\ th[w].pc \notin AtWork \cup {"barrier", "arrive", "reset", "release"}
        /\ th[w].pc = "spin" => th[w].after = "end" /\ th[w].n_passed # tp.n_barrier_passed

\* The barrier (ggml_barrier): no thread works on a node while another works on
\* a different one.  And the fields have their types.
InStep ==
    /\ TypeOK
    /\ \A t, u \in Threads : th[t].pc \in AtWork \ {"node"} /\ th[u].pc \in AtWork \ {"node"} => th[t].node = th[u].node

Parts(i) == IF Node(i) = "mul_mat" THEN 0 .. Chunks - 1 ELSE 0 .. tp.n_threads - 1
Skipped(i) == Node(i) = "nop" \/ (i > 0 /\ Node(i - 1) = "fuse")

\* A graph that was computed: every part of every node once, up to the node of
\* the abort, and nothing from there on, whichever threads took part.
EachPartOnce ==
    LET last == IF tp.abort = NoAbort THEN n_nodes ELSE tp.abort IN
    th[0].pc = "idle" =>
        /\ \A k \in DOMAIN computed : computed[k] = 1
        /\ DOMAIN computed = UNION {{<<i, part>> : part \in Parts(i)} : i \in {j \in 0 .. last - 1 : ~Skipped(j)}}

\* A graph that was started ends: no worker misses the start (it was polling,
\* asleep, paused, or late from the graph before), none is left in a barrier.  And the
\* joins of ggml_threadpool_free() return.
ComputeReturns ==
    /\ th[0].pc \in {"kickoff", "node"} ~> th[0].pc = "idle"
    /\ tp.stop ~> th[0].pc = "exit"
=============================================================================
