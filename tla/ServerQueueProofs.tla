------------------------ MODULE ServerQueueProofs --------------------------
(***************************************************************************)
(* Proofs about ServerQueue, for any sets of clients, tasks and slots.     *)
(***************************************************************************)
EXTENDS ServerQueue, FiniteSetTheorems, WellFoundedInduction, SequenceTheorems, TLAPS

(* A non-empty set of naturals contains its minimum: what SelectInSeq finds *)
(* is an index of the sequence.                                            *)
LEMMA MinInSet ==
    ASSUME NEW I \in SUBSET Nat, I # {}
    PROVE  Min(I) \in I
<1>. DEFINE R == {ss \in Nat \X Nat : ss[1] < ss[2]}
<1>1. IsWellFoundedOn(R, Nat)
  BY NatLessThanWellFounded DEF OpToRel
<1>2. PICK n \in I : \A m \in I : ~ (<<m, n>> \in R)
  BY <1>1, WFMin
<1>3. ASSUME NEW m \in I, m < n
      PROVE  <<m, n>> \in R
  <2>1. <<m, n>> \in Nat \X Nat /\ <<m, n>>[1] < <<m, n>>[2]
    BY <1>3
  <2>. QED
    BY <2>1, Zenon
<1>. HIDE DEF R
<1>4. \A m \in I : ~ (m < n)
  BY <1>2, <1>3, Zenon
<1>5. \A m \in I : n <= m
  BY <1>4
<1>. QED
  BY <1>5 DEF Min

LEMMA RemoveAtType ==
    ASSUME NEW S, NEW q \in Seq(S), NEW i \in 1 .. Len(q)
    PROVE  RemoveAt(q, i) \in Seq(S)
<1>1. SubSeq(q, 1, i - 1) \in Seq(S)
  BY SubSeqProperties
<1>2. SubSeq(q, i + 1, Len(q)) \in Seq(S)
  BY SubSeqProperties
<1>. QED
  BY <1>1, <1>2, ConcatProperties DEF RemoveAt

LEMMA CleanupType ==
    ASSUME NEW q \in Seq(Items), NEW t
    PROVE  Cleanup(q, t) \in Seq(Items)
<1>. DEFINE I == {i \in 1 .. Len(q) : q[i].kind = "task" /\ q[i].task = t}
            i == IF I # {} THEN Min(I) ELSE 0
<1>1. Cleanup(q, t) = IF i = 0 THEN q ELSE RemoveAt(q, i)
  BY Zenon DEF Cleanup, SelectInSeq
<1>2. CASE I = {}
  BY <1>1, <1>2
<1>3. CASE I # {}
  <2>1. I \in SUBSET Nat
    OBVIOUS
  <2>2. Min(I) \in I
    BY <1>3, <2>1, MinInSet
  <2>3. i \in 1 .. Len(q)
    BY <1>3, <2>2
  <2>. QED
    BY <1>1, <2>3, RemoveAtType
<1>. QED
  BY <1>2, <1>3

LEMMA PopIndexType ==
    ASSUME NEW q \in Seq(Items), q # <<>>, NEW s
    PROVE  PopIndex(q, s) \in 1 .. Len(q)
<1>. DEFINE I == {i \in 1 .. Len(q) : q[i].slot = s}
            i == IF I # {} THEN Min(I) ELSE 0
<1>1. PopIndex(q, s) = IF i = 0 THEN 1 ELSE i
  BY Zenon DEF PopIndex, SelectInSeq
<1>2. Len(q) \in Nat /\ 1 \in 1 .. Len(q)
  BY EmptySeq, LenProperties
<1>3. CASE I = {}
  BY <1>1, <1>2, <1>3
<1>4. CASE I # {}
  <2>1. Min(I) \in I
    BY <1>4, MinInSet
  <2>. QED
    BY <1>1, <1>4, <2>1
<1>. QED
  BY <1>3, <1>4

LEMMA NotifyOneType ==
    ASSUME NEW W \in SUBSET Threads, NEW X \in NotifyOne(W)
    PROVE  X \in SUBSET W /\ X \in SUBSET Threads
BY DEF NotifyOne

LEMMA ItemTypes ==
    /\ \A t \in Tasks, s \in Slots \cup {NoSlot} : Item(t, s) \in Items
    /\ \A t \in Tasks : Cancel(t) \in Items
    /\ \A item \in Items : IdsOf(item) \in Seq(Tasks)
BY DEF Item, Cancel, Items, IdsOf

-----------------------------------------------------------------------------
(* Type correctness, one lemma per kind of thread.                         *)

\* A part of the type invariant holds on as long as its variables stay.
LEMMA Frame ==
    /\ FlagsOK /\ UNCHANGED <<flags, yield>> => FlagsOK'
    /\ QueuesOK /\ UNCHANGED queues => QueuesOK'
    /\ MainOK /\ UNCHANGED main => MainOK'
    /\ WorkerOK /\ UNCHANGED worker => WorkerOK'
    /\ ClientsOK /\ UNCHANGED client => ClientsOK'
    /\ HistoryOK /\ UNCHANGED history => HistoryOK'
<1>1. FlagsOK /\ UNCHANGED <<flags, yield>> => FlagsOK'
  BY DEF FlagsOK, flags, yield
<1>2. QueuesOK /\ UNCHANGED queues => QueuesOK'
  BY DEF QueuesOK, queues
<1>3. MainOK /\ UNCHANGED main => MainOK'
  BY DEF MainOK
<1>4. WorkerOK /\ UNCHANGED worker => WorkerOK'
  BY DEF WorkerOK
<1>5. ClientsOK /\ UNCHANGED client => ClientsOK'
  BY DEF ClientsOK
<1>6. HistoryOK /\ UNCHANGED history => HistoryOK'
  BY DEF HistoryOK, history
<1>. QED
  BY <1>1, <1>2, <1>3, <1>4, <1>5, <1>6

\* Updating the record of one client.
LEMMA ClientUpdate ==
    ASSUME ClientsOK, NEW c \in Clients,
           NEW r \in [pc : {"out", "blocked", "inside", "peeked", "posted"},
                      task : Tasks \cup {NoTask}],
           r.pc = "posted" => r.task \in Tasks,
           client' = [client EXCEPT ![c] = r]
    PROVE  ClientsOK'
<1>1. client' \in [Clients -> [pc : {"out", "blocked", "inside", "peeked", "posted"},
                               task : Tasks \cup {NoTask}]]
  BY DEF ClientsOK
<1>2. ASSUME NEW d \in Clients, client'[d].pc = "posted"
      PROVE  client'[d].task \in Tasks
  BY <1>2 DEF ClientsOK
<1>. QED
  BY <1>1, <1>2 DEF ClientsOK

\* ... and only its pc, to one that holds no task.
LEMMA ClientMove ==
    ASSUME ClientsOK, NEW c \in Clients,
           NEW pc \in {"out", "blocked", "inside", "peeked"},
           client' = [client EXCEPT ![c].pc = pc]
    PROVE  ClientsOK'
<1>. DEFINE r == [client[c] EXCEPT !.pc = pc]
<1>1. /\ r \in [pc : {"out", "blocked", "inside", "peeked", "posted"},
                task : Tasks \cup {NoTask}]
      /\ r.pc = pc
  BY DEF ClientsOK
<1>2. client' = [client EXCEPT ![c] = r]
  OBVIOUS
<1>. HIDE DEF r
<1>. QED
  BY <1>1, <1>2, ClientUpdate

LEMMA ClientType ==
    ASSUME TypeOK, NEW c \in Clients, ClientStep(c)
    PROVE  TypeOK'
<1>. USE DEF TypeOK
<1>1. CASE Gate(c)
  <2>1. waiting' \subseteq Threads
    <3>1. CASE SleepEnabled /\ sleeping
      <4>1. PICK W \in (IF req_stop_sleeping THEN {waiting} ELSE NotifyOne(waiting)) :
              waiting' = W \cup {c}
        BY <1>1, <3>1 DEF Gate
      <4>2. W \subseteq Threads
        BY NotifyOneType
      <4>. QED
        BY <4>1, <4>2 DEF Threads
    <3>. QED
      BY <1>1, <3>1 DEF Gate
  <2>2. FlagsOK'
    BY <1>1 DEF Gate, FlagsOK, yield
  <2>3. ClientsOK'
    BY <1>1, ClientMove DEF Gate
  <2>. QED
    BY <1>1, <2>1, <2>2, <2>3, Frame DEF Gate
<1>2. CASE GateRecheck(c)
  <2>1. waiting' \subseteq Threads
    BY <1>2 DEF GateRecheck, Threads
  <2>2. ClientsOK'
    BY <1>2, ClientMove, Frame DEF GateRecheck
  <2>. QED
    BY <1>2, <2>1, <2>2, Frame DEF GateRecheck
<1>3. CASE Peek(c)
  <2>1. ClientsOK'
    BY <1>3, ClientMove DEF Peek
  <2>. QED
    BY <1>3, <2>1, Frame DEF Peek
<1>4. CASE PostCancel(c)
  <2>. DEFINE t == client[c].task
  <2>1. t \in Tasks /\ Cancel(t) \in Items
    BY <1>4, ItemTypes DEF PostCancel, ClientsOK
  <2>2. QueuesOK'
    <3>1. <<Cancel(t)>> \in Seq(Items)
      BY <2>1
    <3>2. /\ Cleanup(queue_tasks, t) \in Seq(Items)
          /\ Cleanup(queue_tasks_deferred, t) \in Seq(Items)
          /\ Cleanup(queue_tasks_unhandled, t) \in Seq(Items)
      BY CleanupType DEF QueuesOK
    <3>. QED
      BY <1>4, <3>1, <3>2, ConcatProperties DEF PostCancel, QueuesOK
  <2>3. waiting' \subseteq Threads
    BY <1>4, NotifyOneType DEF PostCancel
  <2>4. HistoryOK'
    BY <1>4, <2>1 DEF PostCancel, HistoryOK
  <2>5. ClientsOK'
    BY <1>4, ClientUpdate DEF PostCancel
  <2>6. FlagsOK'
    BY <1>4 DEF PostCancel, FlagsOK, yield
  <2>. QED
    BY <1>4, <2>2, <2>3, <2>4, <2>5, <2>6, Frame DEF PostCancel
<1>5. CASE Return(c)
  <2>1. ClientsOK'
    BY <1>5, ClientUpdate DEF Return
  <2>. QED
    BY <1>5, <2>1, Frame DEF Return
<1>6. ASSUME NEW t \in Tasks, NEW s \in Slots \cup {NoSlot}, Post(c, t, s)
      PROVE  TypeOK'
  <2>1. QueuesOK'
    BY <1>6, ItemTypes, ConcatProperties, AppendProperties DEF Post, QueuesOK
  <2>2. HistoryOK'
    BY <1>6, AppendProperties DEF Post, HistoryOK
  <2>3. waiting' \subseteq Threads
    BY <1>6, NotifyOneType DEF Post
  <2>4. ClientsOK'
    BY <1>6, ClientUpdate DEF Post
  <2>5. FlagsOK'
    BY <1>6 DEF Post, FlagsOK, yield
  <2>. QED
    BY <1>6, <2>1, <2>2, <2>3, <2>4, <2>5, Frame DEF Post
<1>. QED
  BY <1>1, <1>2, <1>3, <1>4, <1>5, <1>6 DEF ClientStep

\* What a take does to the queue, and what a thread may hold.
LEMMA TakeType ==
    ASSUME QueuesOK, queue_tasks # <<>>
    PROVE  Head(queue_tasks) \in Items /\ Tail(queue_tasks) \in Seq(Items)
BY HeadTailProperties DEF QueuesOK

LEMMA WorkerType ==
    ASSUME TypeOK, WorkerStep
    PROVE  TypeOK'
<1>. USE DEF TypeOK, Free, Hold
<1>1. CASE WorkerUnpark
  <2>1. WorkerOK'
    BY <1>1 DEF WorkerUnpark, WorkerOK
  <2>. QED
    BY <1>1, <2>1, Frame DEF WorkerUnpark
<1>2. CASE WorkerTake
  <2>1. CASE running /\ queue_tasks # <<>>
    <3>1. QueuesOK'
      BY <1>2, <2>1, TakeType DEF WorkerTake, QueuesOK
    <3>2. WorkerOK'
      BY <1>2, <2>1, TakeType DEF WorkerTake, WorkerOK
    <3>. QED
      BY <1>2, <3>1, <3>2, Frame DEF WorkerTake
  <2>2. CASE ~(running /\ queue_tasks # <<>>)
    <3>1. QueuesOK' /\ WorkerOK'
      BY <1>2, <2>2 DEF WorkerTake, QueuesOK, WorkerOK
    <3>. QED
      BY <1>2, <3>1, Frame DEF WorkerTake
  <2>. QED
    BY <2>1, <2>2
<1>3. CASE WorkerAccept
  <2>1. HistoryOK' /\ WorkerOK'
    BY <1>3, ItemTypes, ConcatProperties DEF WorkerAccept, HistoryOK, WorkerOK
  <2>. QED
    BY <1>3, <2>1, Frame DEF WorkerAccept
<1>4. CASE WorkerDecline
  <2>1. QueuesOK' /\ WorkerOK'
    BY <1>4, AppendProperties DEF WorkerDecline, QueuesOK, WorkerOK
  <2>. QED
    BY <1>4, <2>1, Frame DEF WorkerDecline
<1>5. CASE WorkerThrow
  <2>1. HistoryOK' /\ WorkerOK' /\ FlagsOK'
    BY <1>5 DEF WorkerThrow, HistoryOK, WorkerOK, FlagsOK, flags, Items
  <2>. QED
    BY <1>5, <2>1, Frame DEF WorkerThrow
<1>6. CASE WorkerCheck
  <2>1. WorkerOK'
    BY <1>6 DEF WorkerCheck, WorkerOK
  <2>2. waiting' \subseteq Threads
    BY <1>6 DEF WorkerCheck, Threads
  <2>. QED
    BY <1>6, <2>1, <2>2, Frame DEF WorkerCheck
<1>7. CASE WorkerWait
  <2>1. WorkerOK'
    BY <1>7 DEF WorkerWait, WorkerOK
  <2>2. waiting' \subseteq Threads
    BY <1>7 DEF WorkerWait, Threads
  <2>. QED
    BY <1>7, <2>1, <2>2, Frame DEF WorkerWait
<1>8. CASE WorkerLeave
  <2>1. FlagsOK' /\ WorkerOK' /\ waiting' \subseteq Threads
    BY <1>8 DEF WorkerLeave, flags, FlagsOK, WorkerOK
  <2>. QED
    BY <1>8, <2>1, Frame DEF WorkerLeave
<1>. QED
  BY <1>1, <1>2, <1>3, <1>4, <1>5, <1>6, <1>7, <1>8 DEF WorkerStep

LEMMA MainType ==
    ASSUME TypeOK, MainStep
    PROVE  TypeOK'
<1>. USE DEF TypeOK, Free, Hold
<1>1. CASE StartLoop
  <2>1. FlagsOK' /\ MainOK' /\ WorkerOK'
    BY <1>1 DEF StartLoop, FlagsOK, MainOK, WorkerOK
  <2>. QED
    BY <1>1, <2>1, Frame DEF StartLoop
<1>2. CASE MainTake
  <2>1. CASE running /\ queue_tasks # <<>>
    <3>1. QueuesOK'
      BY <1>2, <2>1, TakeType DEF MainTake, QueuesOK
    <3>2. MainOK'
      BY <1>2, <2>1, TakeType DEF MainTake, MainOK
    <3>. QED
      BY <1>2, <3>1, <3>2, Frame DEF MainTake
  <2>2. CASE ~(running /\ queue_tasks # <<>>)
    <3>1. QueuesOK' /\ MainOK'
      BY <1>2, <2>2 DEF MainTake, QueuesOK, MainOK
    <3>. QED
      BY <1>2, <3>1, Frame DEF MainTake
  <2>. QED
    BY <2>1, <2>2
<1>3. CASE MainAccept
  <2>1. MainOK'
    BY <1>3 DEF MainAccept, MainOK
  <2>2. HistoryOK'
    BY <1>3, ItemTypes, ConcatProperties DEF MainAccept, HistoryOK, MainOK
  <2>. QED
    BY <1>3, <2>1, <2>2, Frame DEF MainAccept
<1>4. CASE MainDefer
  <2>1. main.item \in Items /\ main.item.task \in Tasks
    BY <1>4 DEF MainDefer, MainOK, Items
  <2>2. MainOK' /\ FlagsOK'
    BY <1>4 DEF MainDefer, MainOK, FlagsOK, yield
  <2>3. QueuesOK'
    BY <1>4, <2>1, AppendProperties DEF MainDefer, QueuesOK
  <2>4. HistoryOK'
    BY <1>4, <2>1 DEF MainDefer, HistoryOK
  <2>5. waiting' \subseteq Threads
    BY <1>4, NotifyOneType DEF MainDefer
  <2>. QED
    BY <1>4, <2>2, <2>3, <2>4, <2>5, Frame DEF MainDefer
<1>5. ASSUME NEW s \in Slots, MainRelease(s)
      PROVE  TypeOK'
  <2>. DEFINE i == PopIndex(queue_tasks_deferred, s)
  <2>1. QueuesOK'
    <3>1. CASE queue_tasks_deferred = <<>>
      BY <1>5, <3>1 DEF MainRelease, QueuesOK
    <3>2. CASE queue_tasks_deferred # <<>>
      <4>1. i \in 1 .. Len(queue_tasks_deferred)
        BY <3>2, PopIndexType DEF QueuesOK
      <4>2. /\ queue_tasks_deferred[i] \in Items
            /\ RemoveAt(queue_tasks_deferred, i) \in Seq(Items)
        BY <4>1, RemoveAtType, ElementOfSeq DEF QueuesOK
      <4>3. /\ queue_tasks' = <<queue_tasks_deferred[i]>> \o queue_tasks
            /\ queue_tasks_deferred' = RemoveAt(queue_tasks_deferred, i)
            /\ queue_tasks_unhandled' = queue_tasks_unhandled
        BY <1>5, <3>2 DEF MainRelease
      <4>. HIDE DEF i
      <4>. QED
        BY <4>2, <4>3, ConcatProperties DEF QueuesOK
    <3>. QED
      BY <3>1, <3>2
  <2>2. FlagsOK' /\ waiting' \subseteq Threads
    BY <1>5, NotifyOneType DEF MainRelease, FlagsOK, yield
  <2>. QED
    BY <1>5, <2>1, <2>2, Frame DEF MainRelease
<1>6. CASE YieldBegin
  <2>1. FlagsOK' /\ MainOK'
    BY <1>6 DEF YieldBegin, FlagsOK, MainOK, flags
  <2>. QED
    BY <1>6, <2>1, Frame DEF YieldBegin
<1>7. ASSUME NEW threw \in BOOLEAN, YieldEnd(threw)
      PROVE  TypeOK'
  <2>1. CASE busy
    <3>1. QueuesOK' /\ FlagsOK'
      BY <1>7, <2>1 DEF YieldEnd, QueuesOK, FlagsOK
    <3>2. MainOK'
      BY <1>7, <2>1 DEF YieldEnd, MainOK
    <3>3. waiting' \subseteq Threads
      BY <1>7, <2>1 DEF YieldEnd, Threads
    <3>. QED
      BY <1>7, <3>1, <3>2, <3>3, Frame DEF YieldEnd
  <2>2. CASE ~busy
    <3>1. Rejoin(threw) /\ waiting' \subseteq Threads
      BY <1>7, <2>2 DEF YieldEnd
    <3>2. QueuesOK'
      BY <1>7, <3>1, ConcatProperties DEF YieldEnd, Rejoin, QueuesOK
    <3>3. MainOK'
      BY <3>1 DEF Rejoin, MainOK
    <3>4. FlagsOK'
      BY <1>7, <3>1 DEF YieldEnd, Rejoin, FlagsOK
    <3>. QED
      BY <1>7, <3>1, <3>2, <3>3, <3>4, Frame DEF YieldEnd
  <2>. QED
    BY <2>1, <2>2
<1>8. CASE YieldRejoin
  <2>1. CASE busy
    <3>1. QueuesOK' /\ FlagsOK'
      BY <1>8, <2>1 DEF YieldRejoin, QueuesOK, FlagsOK
    <3>2. MainOK'
      BY <1>8, <2>1 DEF YieldRejoin, MainOK
    <3>3. waiting' \subseteq Threads
      BY <1>8, <2>1 DEF YieldRejoin, Threads
    <3>. QED
      BY <1>8, <3>1, <3>2, <3>3, Frame DEF YieldRejoin
  <2>2. CASE ~busy
    <3>1. Rejoin(main.pc = "rejoin_throw") /\ waiting' \subseteq Threads
      BY <1>8, <2>2 DEF YieldRejoin
    <3>2. QueuesOK'
      BY <1>8, <3>1, ConcatProperties DEF YieldRejoin, Rejoin, QueuesOK
    <3>3. MainOK'
      BY <3>1 DEF Rejoin, MainOK
    <3>4. FlagsOK'
      BY <1>8, <3>1 DEF YieldRejoin, Rejoin, FlagsOK
    <3>. QED
      BY <1>8, <3>1, <3>2, <3>3, <3>4, Frame DEF YieldRejoin
  <2>. QED
    BY <2>1, <2>2
<1>9. CASE UpdateEnd
  <2>1. MainOK'
    BY <1>9 DEF UpdateEnd, MainOK
  <2>. QED
    BY <1>9, <2>1, Frame DEF UpdateEnd
<1>10. CASE MainIdle
  <2>1. MainOK'
    BY <1>10 DEF MainIdle, MainOK
  <2>3. waiting' \subseteq Threads
    BY <1>10 DEF MainIdle, Threads
  <2>2. FlagsOK'
    BY <1>10 DEF MainIdle, FlagsOK, yield
  <2>. QED
    BY <1>10, <2>1, <2>2, <2>3, Frame DEF MainIdle
<1>11. CASE MainNap
  <2>1. MainOK'
    BY <1>11 DEF MainNap, MainOK
  <2>2. waiting' \subseteq Threads
    BY <1>11 DEF MainNap, Threads
  <2>. QED
    BY <1>11, <2>1, <2>2, Frame DEF MainNap
<1>12. CASE MainSleep
  <2>1. MainOK'
    BY <1>12 DEF MainSleep, WakeUp, MainOK
  <2>3. waiting' \subseteq Threads
    BY <1>12 DEF MainSleep, WakeUp, Threads
  <2>2. FlagsOK'
    BY <1>12 DEF MainSleep, WakeUp, FlagsOK, yield
  <2>. QED
    BY <1>12, <2>1, <2>2, <2>3, Frame DEF MainSleep
<1>13. CASE MainStop
  <2>1. MainOK' /\ FlagsOK' /\ waiting' \subseteq Threads
    BY <1>13 DEF MainStop, MainOK, FlagsOK, flags
  <2>. QED
    BY <1>13, <2>1, Frame DEF MainStop
<1>14. CASE MainJoin
  <2>1. MainOK'
    BY <1>14 DEF MainJoin, MainOK
  <2>. QED
    BY <1>14, <2>1, Frame DEF MainJoin
<1>. QED
  BY <1>1, <1>2, <1>3, <1>4, <1>5, <1>6, <1>7, <1>8, <1>9, <1>10, <1>11, <1>12,
     <1>13, <1>14 DEF MainStep, MainCallback

(* Every variable keeps its type, whatever the threads do.                 *)
THEOREM TypeCorrect == Spec => []TypeOK
<1>1. Init => TypeOK
  <2>. SUFFICES ASSUME Init PROVE TypeOK
    OBVIOUS
  <2>1. FlagsOK
    BY DEF Init, FlagsOK
  <2>5. HistoryOK
    <3>1. order \in Seq(Tasks) /\ done \in Seq(Tasks)
      BY EmptySeq DEF Init
    <3>2. posted \subseteq Tasks /\ dropped \subseteq Tasks /\ was_deferred \subseteq Tasks
      BY DEF Init
    <3>3. terminated \in BOOLEAN
      BY DEF Init
    <3>. QED
      BY <3>1, <3>2, <3>3 DEF HistoryOK
  <2>2. QueuesOK
    BY DEF Init, QueuesOK
  <2>3. MainOK /\ WorkerOK
    BY DEF Init, MainOK, WorkerOK
  <2>4. ClientsOK
    BY DEF Init, ClientsOK
  <2>. QED
    BY <2>1, <2>2, <2>3, <2>4, <2>5 DEF Init, TypeOK
<1>2. TypeOK /\ [Next]_vars => TypeOK'
  <2>. SUFFICES ASSUME TypeOK, [Next]_vars
                PROVE  TypeOK'
    OBVIOUS
  <2>1. CASE Terminate
    <3>1. FlagsOK' /\ HistoryOK' /\ waiting' \subseteq Threads
      BY <2>1 DEF Terminate, TypeOK, FlagsOK, HistoryOK, yield
    <3>. QED
      BY <2>1, <3>1, Frame DEF Terminate, TypeOK
  <2>2. CASE Tick
    <3>1. FlagsOK'
      BY <2>2 DEF Tick, TypeOK, FlagsOK, yield
    <3>. QED
      BY <2>2, <3>1, Frame DEF Tick, TypeOK
  <2>3. CASE UNCHANGED vars
    BY <2>3, Frame DEF vars, TypeOK
  <2>. QED
    BY <2>1, <2>2, <2>3, ClientType, WorkerType, MainType DEF Next
<1>. QED
  BY <1>1, <1>2, PTL DEF Spec

-----------------------------------------------------------------------------
(* Who owns the server state.  The three invariants are inductive only     *)
(* together: that nothing is stranded when a yield ends needs a worker     *)
(* that is still busy to be inside a yield, and that nothing runs while    *)
(* the server sleeps needs the worker to be parked outside one.            *)

Owned == Ownership /\ NoneStranded /\ NoWorkAsleep

\* The client's moves touch neither the two threads nor the flags they read.
LEMMA OwnedFrame ==
    ASSUME Owned,
           UNCHANGED <<running, sleeping, busy, main, worker>>,
           queue_tasks_unhandled' # <<>> => queue_tasks_unhandled # <<>>
    PROVE  Owned'
BY DEF Owned, Ownership, NoneStranded, NoWorkAsleep, InYield

LEMMA CleanupEmpty ==
    ASSUME NEW t
    PROVE  Cleanup(<<>>, t) = <<>>
<1>. DEFINE I == {i \in 1 .. Len(<<>>) : <<>>[i].kind = "task" /\ <<>>[i].task = t}
            i == IF I # {} THEN Min(I) ELSE 0
<1>1. Cleanup(<<>>, t) = IF i = 0 THEN <<>> ELSE RemoveAt(<<>>, i)
  BY Zenon DEF Cleanup, SelectInSeq
<1>2. I = {}
  BY EmptySeq
<1>. QED
  BY <1>1, <1>2

LEMMA ClientOwned ==
    ASSUME Owned, NEW c \in Clients, ClientStep(c)
    PROVE  Owned'
<1>1. CASE Gate(c)
  BY <1>1, OwnedFrame DEF Gate, queues, yield
<1>2. CASE GateRecheck(c)
  BY <1>2, OwnedFrame DEF GateRecheck, flags, queues, yield
<1>3. CASE Peek(c)
  BY <1>3, OwnedFrame DEF Peek, flags, queues, yield
<1>4. CASE PostCancel(c)
  <2>1. UNCHANGED <<running, sleeping, busy, main, worker>>
    BY <1>4 DEF PostCancel, yield
  <2>2. queue_tasks_unhandled' = Cleanup(queue_tasks_unhandled, client[c].task)
    BY <1>4 DEF PostCancel
  <2>3. queue_tasks_unhandled' # <<>> => queue_tasks_unhandled # <<>>
    BY <2>2, CleanupEmpty, Zenon
  <2>. QED
    BY <2>1, <2>3, OwnedFrame
<1>5. CASE Return(c)
  BY <1>5, OwnedFrame DEF Return, flags, queues, yield
<1>6. ASSUME NEW t \in Tasks, NEW s \in Slots \cup {NoSlot}, Post(c, t, s)
      PROVE  Owned'
  BY <1>6, OwnedFrame DEF Post, yield
<1>. QED
  BY <1>1, <1>2, <1>3, <1>4, <1>5, <1>6 DEF ClientStep

LEMMA WorkerOwned ==
    ASSUME TypeOK, Owned, WorkerStep
    PROVE  Owned'
<1>. USE DEF TypeOK, Owned, Ownership, NoneStranded, NoWorkAsleep, InYield, Free, Hold
<1>1. CASE WorkerUnpark
  BY <1>1 DEF WorkerUnpark, flags, queues, yield
<1>2. CASE WorkerTake
  BY <1>2 DEF WorkerTake, flags, yield
<1>3. CASE WorkerAccept
  BY <1>3 DEF WorkerAccept, flags, queues, yield
<1>4. CASE WorkerDecline
  BY <1>4 DEF WorkerDecline, flags, yield
<1>5. CASE WorkerThrow
  BY <1>5 DEF WorkerThrow, flags, queues
<1>6. CASE WorkerCheck
  BY <1>6 DEF WorkerCheck, flags, queues, yield
<1>7. CASE WorkerWait
  BY <1>7 DEF WorkerWait, flags, queues, yield
<1>8. CASE WorkerLeave
  BY <1>8 DEF WorkerLeave, flags, queues
<1>. QED
  BY <1>1, <1>2, <1>3, <1>4, <1>5, <1>6, <1>7, <1>8 DEF WorkerStep

LEMMA MainOwned ==
    ASSUME TypeOK, Owned, MainStep
    PROVE  Owned'
<1>. USE DEF Owned, Ownership, NoneStranded, NoWorkAsleep, InYield, Free, Hold
<1>1. CASE StartLoop
  BY <1>1 DEF StartLoop, queues
<1>2. CASE MainTake
  BY <1>2 DEF MainTake, flags, yield
<1>3. CASE MainAccept
  BY <1>3 DEF MainAccept, flags, queues, yield
<1>4. CASE MainDefer
  BY <1>4 DEF MainDefer, yield
<1>5. ASSUME NEW s \in Slots, MainRelease(s)
      PROVE  Owned'
  BY <1>5 DEF MainRelease, yield
<1>6. CASE YieldBegin
  BY <1>6 DEF YieldBegin, flags, queues
<1>7. ASSUME NEW threw \in BOOLEAN, YieldEnd(threw)
      PROVE  Owned'
  BY <1>7 DEF YieldEnd, Rejoin
<1>8. CASE YieldRejoin
  BY <1>8 DEF YieldRejoin, Rejoin
<1>9. CASE UpdateEnd
  BY <1>9 DEF UpdateEnd, flags, queues, yield
<1>10. CASE MainIdle
  BY <1>10 DEF MainIdle, queues, yield
<1>11. CASE MainNap
  BY <1>11 DEF MainNap, flags, queues, yield
<1>12. CASE MainSleep
  BY <1>12 DEF MainSleep, WakeUp, queues, yield
<1>13. CASE MainStop
  BY <1>13 DEF MainStop, flags, queues
<1>14. CASE MainJoin
  BY <1>14 DEF MainJoin, flags, queues, yield
<1>. QED
  BY <1>1, <1>2, <1>3, <1>4, <1>5, <1>6, <1>7, <1>8, <1>9, <1>10, <1>11, <1>12,
     <1>13, <1>14 DEF MainStep, MainCallback

LEMMA OwnedInvariant == Spec => []Owned
<1>1. Init => Owned
  BY DEF Init, Owned, Ownership, NoneStranded, NoWorkAsleep, InYield
<1>2. TypeOK /\ Owned /\ [Next]_vars => Owned'
  <2>. SUFFICES ASSUME TypeOK, Owned, [Next]_vars
                PROVE  Owned'
    OBVIOUS
  <2>1. CASE Terminate
    BY <2>1 DEF Terminate, queues, yield, Owned, Ownership, NoneStranded, NoWorkAsleep, InYield
  <2>2. CASE Tick
    BY <2>2, OwnedFrame DEF Tick, queues, yield
  <2>3. CASE UNCHANGED vars
    BY <2>3, OwnedFrame DEF vars, flags, queues, yield
  <2>. QED
    BY <2>1, <2>2, <2>3, ClientOwned, WorkerOwned, MainOwned DEF Next
<1>. QED
  BY <1>1, <1>2, TypeCorrect, PTL DEF Spec

(* The worker thread is active only inside a yield: its callback never     *)
(* runs beside the main thread's callback or update_slots.                 *)
THEOREM MutualExclusion == Spec => []OneOwner
<1>1. TypeOK /\ Owned => OneOwner
  BY DEF Owned, OneOwner
<1>. QED
  BY <1>1, TypeCorrect, OwnedInvariant, PTL

(* A task declined during a yield is back in the queue when it ends.       *)
THEOREM DeclinedReturn == Spec => []NoneStranded
<1>1. Owned => NoneStranded
  BY DEF Owned
<1>. QED
  BY <1>1, OwnedInvariant, PTL

(* Between unloading the model and its reload no thread works on it.       *)
THEOREM SleepIsQuiet == Spec => []NoWorkAsleep
<1>1. Owned => NoWorkAsleep
  BY DEF Owned
<1>. QED
  BY <1>1, OwnedInvariant, PTL

-----------------------------------------------------------------------------
(* No missed wakeup.  The argument is that notify_one always finds the     *)
(* thread it must find alone in the wait set: a napping main thread is     *)
(* alone because the worker waits only while yielding and clients only     *)
(* while the server sleeps, and the first client to ask a sleeping server  *)
(* to wake up is alone with the main thread, because no client was still   *)
(* blocked when the server fell asleep.                                    *)

Blocked == {c \in Clients : client[c].pc = "blocked"}

Wake ==
    /\ NoMissedWakeup
    /\ yielding => main.pc = "work"
    /\ main.pc \in {"stop", "join", "stopped"} => ~running
    /\ sleeping /\ running /\ Blocked # {} => req_stop_sleeping
    /\ ~sleeping /\ running /\ expired => Blocked = {}

\* NotifyOne on a wait set of at most one thread empties it.
LEMMA NotifyAlone ==
    ASSUME NEW w, NEW W \in SUBSET {w}, NEW X \in NotifyOne(W)
    PROVE  X = {}
BY DEF NotifyOne

\* Who can be in the wait set, by what the main thread is doing.
LEMMA WaitSets ==
    ASSUME TypeOK, Owned, Wake
    PROVE  /\ main.pc = "nap" => waiting \subseteq {"main"}
           /\ main.pc = "work" => waiting \subseteq {"worker"}
           /\ sleeping /\ ~req_stop_sleeping /\ running => waiting \subseteq {"main"}
           /\ ~running => waiting \cap {"worker"} = {}
           /\ sleeping => "worker" \notin waiting
<1>. USE DEF Wake, NoMissedWakeup
<1>1. ASSUME NEW w \in waiting, ~sleeping
      PROVE  w \in {"main", "worker"}
  BY <1>1 DEF TypeOK, Threads
<1>2. sleeping => main.pc \in {"sleep", "take", "stop", "join", "stopped"}
  BY DEF Owned, NoWorkAsleep
<1>3. "worker" \in waiting => main.pc = "work" /\ running
  OBVIOUS
<1>4. ASSUME sleeping, ~req_stop_sleeping, running, NEW w \in waiting
      PROVE  w = "main"
  <2>1. w \notin Clients
    BY <1>4 DEF Blocked
  <2>. QED
    BY <2>1, <1>2, <1>3, <1>4 DEF TypeOK, Threads
<1>. QED
  BY <1>1, <1>2, <1>3, <1>4

LEMMA ClientWake ==
    ASSUME TypeOK, Owned, Wake, NEW c \in Clients, ClientStep(c)
    PROVE  Wake'
<1>. USE ThreadsAssumption
<1>1. CASE Gate(c)
  <2>1. CASE SleepEnabled /\ sleeping
    <3>1. PICK W \in (IF req_stop_sleeping THEN {waiting} ELSE NotifyOne(waiting)) :
            waiting' = W \cup {c}
      BY <1>1, <2>1 DEF Gate
    <3>2. W \subseteq waiting
      BY NotifyOneType DEF TypeOK
    <3>3. main.pc \in {"sleep", "take", "stop", "join", "stopped"}
      BY <2>1 DEF Owned, NoWorkAsleep
    <3>4. "main" \notin W
      <4>1. CASE req_stop_sleeping \/ ~running
        BY <3>2, <3>3, <4>1 DEF Wake, NoMissedWakeup
      <4>2. CASE ~req_stop_sleeping /\ running
        BY <2>1, <3>1, <4>2, WaitSets, NotifyAlone
      <4>. QED
        BY <4>1, <4>2
    <3>5. "worker" \notin W
      BY <2>1, <3>2, WaitSets
    <3>6. client' = [client EXCEPT ![c].pc = "blocked"] /\ sleeping' /\ req_stop_sleeping'
      BY <1>1, <2>1 DEF Gate
    <3>7. \A d \in Clients : d \in waiting' => client'[d].pc = "blocked"
      BY <3>1, <3>2, <3>6 DEF Wake, NoMissedWakeup, TypeOK, ClientsOK
    <3>8. UNCHANGED <<running, sleeping, yielding, main>>
      BY <1>1 DEF Gate, yield
    <3>. QED
      BY <3>1, <3>4, <3>5, <3>6, <3>7, <3>8 DEF Wake, NoMissedWakeup
  <2>2. CASE ~(SleepEnabled /\ sleeping)
    <3>1. client' = [client EXCEPT ![c].pc = "inside"] /\ client[c].pc = "out"
      BY <1>1, <2>2 DEF Gate
    <3>2. Blocked' = Blocked /\ \A d \in Clients : client'[d].pc = "blocked" <=> client[d].pc = "blocked"
      BY <3>1 DEF Blocked, TypeOK, ClientsOK
    <3>. QED
      BY <1>1, <2>2, <3>2 DEF Gate, Wake, NoMissedWakeup, queues, yield
  <2>. QED
    BY <2>1, <2>2
<1>2. CASE GateRecheck(c)
  <2>1. CASE sleeping
    BY <1>2, <2>1 DEF GateRecheck, flags, queues, yield, Wake, NoMissedWakeup, Blocked
  <2>2. CASE ~sleeping
    <3>1. \A d \in Clients : client'[d].pc = "blocked" => client[d].pc = "blocked"
      BY <1>2, <2>2 DEF GateRecheck, TypeOK, ClientsOK
    <3>2. Blocked' \subseteq Blocked
      BY <3>1 DEF Blocked
    <3>. QED
      BY <1>2, <2>2, <3>2 DEF GateRecheck, flags, queues, yield, Wake, NoMissedWakeup
  <2>. QED
    BY <2>1, <2>2
<1>3. ASSUME client[c].pc # "blocked", client'[c].pc # "blocked",
             \A d \in Clients \ {c} : client'[d] = client[d],
             waiting' \subseteq waiting,
             queue_tasks' = queue_tasks \/ waiting' \in NotifyOne(waiting),
             expired' => expired,
             UNCHANGED <<running, sleeping, req_stop_sleeping, stop, busy, yielding, main, worker>>
      PROVE  Wake'
  <2>1. Blocked' = Blocked
    BY <1>3 DEF Blocked
  <2>2. \A d \in Clients : d \in waiting' => client'[d].pc = "blocked" /\ sleeping'
    BY <1>3 DEF Wake, NoMissedWakeup
  <2>3. "main" \in waiting' /\ main.pc = "nap" => queue_tasks' = <<>>
    BY <1>3, WaitSets, NotifyAlone DEF Wake, NoMissedWakeup
  <2>4. "worker" \in waiting' => queue_tasks' = <<>>
    BY <1>3, WaitSets, NotifyAlone DEF Wake, NoMissedWakeup
  <2>. QED
    BY <1>3, <2>1, <2>2, <2>3, <2>4 DEF Wake, NoMissedWakeup
<1>4. CASE Peek(c)
  BY <1>3, <1>4 DEF Peek, flags, queues, yield, TypeOK, ClientsOK
<1>5. CASE PostCancel(c)
  <2>1. waiting' \subseteq waiting
    BY <1>5, NotifyOneType DEF PostCancel, TypeOK
  <2>. QED
    BY <1>3, <1>5, <2>1 DEF PostCancel, yield, TypeOK, ClientsOK
<1>6. CASE Return(c)
  BY <1>3, <1>6 DEF Return, flags, queues, yield, TypeOK, ClientsOK
<1>7. ASSUME NEW t \in Tasks, NEW s \in Slots \cup {NoSlot}, Post(c, t, s)
      PROVE  Wake'
  <2>1. waiting' \subseteq waiting
    BY <1>7, NotifyOneType DEF Post, TypeOK
  <2>2. client[c].pc # "blocked" /\ client'[c].pc # "blocked" /\ (expired' => expired)
    BY <1>7 DEF Post, TypeOK, ClientsOK
  <2>. QED
    BY <1>3, <1>7, <2>1, <2>2 DEF Post, yield, TypeOK, ClientsOK
<1>. QED
  BY <1>1, <1>2, <1>4, <1>5, <1>6, <1>7 DEF ClientStep

\* Steps of the two loop threads leave the clients alone.
LEMMA WorkerWake ==
    ASSUME TypeOK, Owned, Wake, WorkerStep
    PROVE  Wake'
<1>. USE ThreadsAssumption DEF Wake, NoMissedWakeup, Blocked, Free, Hold
<1>1. CASE WorkerUnpark
  BY <1>1 DEF WorkerUnpark, flags, queues, yield
<1>2. CASE WorkerTake
  <2>1. main.pc # "nap" /\ "worker" \notin waiting
    BY <1>2 DEF WorkerTake, Owned, Ownership, InYield
  <2>. QED
    BY <1>2, <2>1 DEF WorkerTake, flags, yield
<1>3. CASE WorkerAccept
  BY <1>3 DEF WorkerAccept, flags, queues, yield
<1>4. CASE WorkerDecline
  BY <1>4 DEF WorkerDecline, flags, yield
<1>5. CASE WorkerThrow
  BY <1>5 DEF WorkerThrow, flags, queues
<1>6. CASE WorkerCheck
  BY <1>6 DEF WorkerCheck, flags, queues, yield
<1>7. CASE WorkerWait
  BY <1>7 DEF WorkerWait, flags, queues, yield
<1>8. CASE WorkerLeave
  BY <1>8 DEF WorkerLeave, flags, queues
<1>. QED
  BY <1>1, <1>2, <1>3, <1>4, <1>5, <1>6, <1>7, <1>8 DEF WorkerStep

LEMMA MainWake ==
    ASSUME TypeOK, Owned, Wake, MainStep
    PROVE  Wake'
<1>. USE ThreadsAssumption DEF Wake, NoMissedWakeup, Blocked, Free, Hold
<1>1. CASE StartLoop
  <2>1. ~sleeping
    BY <1>1 DEF StartLoop, Owned, NoWorkAsleep
  <2>. QED
    BY <1>1, <2>1 DEF StartLoop, queues
<1>2. CASE MainTake
  BY <1>2 DEF MainTake, flags, yield
<1>3. CASE MainAccept
  BY <1>3 DEF MainAccept, flags, queues, yield
<1>4. CASE MainDefer
  <2>1. waiting' \subseteq waiting
    BY <1>4, NotifyOneType DEF MainDefer, TypeOK
  <2>. QED
    BY <1>4, <2>1 DEF MainDefer, yield
<1>5. ASSUME NEW s \in Slots, MainRelease(s)
      PROVE  Wake'
  <2>1. waiting' \subseteq waiting
    BY <1>5, NotifyOneType DEF MainRelease, TypeOK
  <2>2. "main" \notin waiting /\ "worker" \notin waiting
    BY <1>5 DEF MainRelease
  <2>. QED
    BY <1>5, <2>1, <2>2 DEF MainRelease, yield
<1>6. CASE YieldBegin
  BY <1>6 DEF YieldBegin, flags, queues
<1>7. ASSUME NEW threw \in BOOLEAN, YieldEnd(threw)
      PROVE  Wake'
  BY <1>7 DEF YieldEnd, Rejoin
<1>8. CASE YieldRejoin
  BY <1>8 DEF YieldRejoin, Rejoin
<1>9. CASE UpdateEnd
  BY <1>9 DEF UpdateEnd, flags, queues, yield
<1>10. CASE MainIdle
  <2>1. ~sleeping
    BY <1>10 DEF MainIdle, Owned, NoWorkAsleep
  <2>. QED
    BY <1>10, <2>1 DEF MainIdle, queues, yield
<1>11. CASE MainNap
  BY <1>11 DEF MainNap, flags, queues, yield
<1>12. CASE MainSleep
  BY <1>12 DEF MainSleep, WakeUp, queues, yield
<1>13. CASE MainStop
  BY <1>13 DEF MainStop, flags, queues
<1>14. CASE MainJoin
  BY <1>14 DEF MainJoin, flags, queues, yield
<1>. QED
  BY <1>1, <1>2, <1>3, <1>4, <1>5, <1>6, <1>7, <1>8, <1>9, <1>10, <1>11, <1>12,
     <1>13, <1>14 DEF MainStep, MainCallback

(* A thread stays blocked on the condition variable only while what it     *)
(* waits for is false, although post, defer and wait_until_no_sleep wake   *)
(* just one of the threads that share it.                                  *)
THEOREM WakeupsReachTheirThread == Spec => []NoMissedWakeup
<1>1. Init => Wake
  BY DEF Init, Wake, NoMissedWakeup, Blocked
<1>2. TypeOK /\ Owned /\ Wake /\ [Next]_vars => Wake'
  <2>. SUFFICES ASSUME TypeOK, Owned, Wake, [Next]_vars
                PROVE  Wake'
    OBVIOUS
  <2>1. CASE Terminate
    BY <2>1 DEF Terminate, queues, yield, Wake, NoMissedWakeup
  <2>2. CASE Tick
    <3>1. ~sleeping /\ running => Blocked = {}
      BY <2>2 DEF Tick, Wake, NoMissedWakeup, Blocked
    <3>. QED
      BY <2>2, <3>1 DEF Tick, queues, yield, Wake, NoMissedWakeup, Blocked
  <2>3. CASE UNCHANGED vars
    BY <2>3 DEF vars, flags, queues, yield, Wake, NoMissedWakeup, Blocked
  <2>. QED
    BY <2>1, <2>2, <2>3, ClientWake, WorkerWake, MainWake DEF Next
<1>3. Wake => NoMissedWakeup
  BY DEF Wake
<1>. QED
  BY <1>1, <1>2, <1>3, TypeCorrect, OwnedInvariant, PTL DEF Spec

-----------------------------------------------------------------------------
(* No task is lost or duplicated, and tasks are served in the order they    *)
(* were posted.                                                            *)

IsTask(x, t) == x.kind = "task" /\ x.task = t

\* At most one entry of a deque is task t; those of t are before those of u.
Once(q, t)      == \A i, j \in DOMAIN q : IsTask(q[i], t) /\ IsTask(q[j], t) => i = j
Before(q, t, u) == \A i, j \in DOMAIN q : IsTask(q[i], t) /\ IsTask(q[j], u) => i < j

-----------------------------------------------------------------------------
(* What the operations on a deque do to the tasks in it.                   *)

LEMMA HoldsIs ==
    ASSUME NEW q, NEW t
    PROVE  Holds(q, t) <=> \E i \in DOMAIN q : IsTask(q[i], t)
BY DEF Holds, IsTask

LEMMA EmptyDeque ==
    ASSUME NEW t
    PROVE  ~Holds(<<>>, t) /\ Once(<<>>, t) /\ \A u : Before(<<>>, t, u)
BY EmptySeq DEF Holds, Once, Before

LEMMA TailDeque ==
    ASSUME NEW q \in Seq(Items), q # <<>>
    PROVE  /\ Head(q) \in Items /\ Tail(q) \in Seq(Items)
           /\ \A t : /\ Holds(q, t) <=> IsTask(Head(q), t) \/ Holds(Tail(q), t)
                     /\ Once(q, t) => Once(Tail(q), t) /\ ~(IsTask(Head(q), t) /\ Holds(Tail(q), t))
           /\ \A t, u : Before(q, t, u) => Before(Tail(q), t, u) /\ (IsTask(Head(q), u) => ~Holds(q, t))
<1>1. /\ Head(q) \in Items /\ Tail(q) \in Seq(Items)
      /\ Len(q) \in Nat /\ Len(q) # 0 /\ DOMAIN q = 1 .. Len(q)
      /\ Len(Tail(q)) = Len(q) - 1 /\ DOMAIN Tail(q) = 1 .. Len(q) - 1
      /\ Head(q) = q[1] /\ \A i \in 1 .. Len(q) - 1 : Tail(q)[i] = q[i + 1]
  BY HeadTailProperties, LenProperties, EmptySeq
<1>2. \A i \in DOMAIN q : i = 1 \/ (i - 1 \in DOMAIN Tail(q) /\ q[i] = Tail(q)[i - 1])
  BY <1>1
<1>3. 1 \in DOMAIN q /\ \A i \in DOMAIN Tail(q) : i \in Nat \ {0} /\ i + 1 \in DOMAIN q /\ Tail(q)[i] = q[i + 1]
  BY <1>1
<1>4. ASSUME NEW t
      PROVE  /\ Holds(q, t) <=> IsTask(Head(q), t) \/ Holds(Tail(q), t)
             /\ Once(q, t) => Once(Tail(q), t) /\ ~(IsTask(Head(q), t) /\ Holds(Tail(q), t))
  <2>1. Holds(q, t) <=> IsTask(Head(q), t) \/ Holds(Tail(q), t)
    <3>1. ASSUME NEW i \in DOMAIN q, IsTask(q[i], t)
          PROVE  IsTask(Head(q), t) \/ Holds(Tail(q), t)
      BY <1>1, <1>2, <3>1, HoldsIs
    <3>2. ASSUME NEW i \in DOMAIN Tail(q), IsTask(Tail(q)[i], t)
          PROVE  Holds(q, t)
      BY <1>3, <3>2, HoldsIs
    <3>3. IsTask(Head(q), t) => Holds(q, t)
      BY <1>1, <1>3, HoldsIs
    <3>. QED
      BY <3>1, <3>2, <3>3, HoldsIs
  <2>2. Once(q, t) => Once(Tail(q), t)
    BY <1>1, <1>3 DEF Once
  <2>3. ASSUME Once(q, t), IsTask(Head(q), t), Holds(Tail(q), t)
        PROVE  FALSE
    <3>1. PICK i \in DOMAIN Tail(q) : IsTask(Tail(q)[i], t)
      BY <2>3, HoldsIs
    <3>2. IsTask(q[1], t) /\ IsTask(q[i + 1], t) /\ 1 # i + 1
      BY <1>1, <1>3, <2>3, <3>1
    <3>. QED
      BY <1>3, <2>3, <3>2 DEF Once
  <2>. QED
    BY <2>1, <2>2, <2>3
<1>5. ASSUME NEW t, NEW u, Before(q, t, u)
      PROVE  Before(Tail(q), t, u) /\ (IsTask(Head(q), u) => ~Holds(q, t))
  <2>1. Before(Tail(q), t, u)
    BY <1>1, <1>3, <1>5 DEF Before
  <2>2. IsTask(Head(q), u) => ~Holds(q, t)
    BY <1>1, <1>3, <1>5, HoldsIs DEF Before
  <2>. QED
    BY <2>1, <2>2
<1>. QED
  BY <1>1, <1>4, <1>5

LEMMA ConcatDeque ==
    ASSUME NEW p \in Seq(Items), NEW q \in Seq(Items)
    PROVE  /\ p \o q \in Seq(Items)
           /\ \A t : /\ Holds(p \o q, t) <=> Holds(p, t) \/ Holds(q, t)
                     /\ Once(p, t) /\ Once(q, t) /\ ~(Holds(p, t) /\ Holds(q, t)) => Once(p \o q, t)
           /\ \A t, u : Before(p, t, u) /\ Before(q, t, u) /\ ~(Holds(p, u) /\ Holds(q, t)) => Before(p \o q, t, u)
<1>. DEFINE r == p \o q
<1>1. /\ r \in Seq(Items) /\ Len(p) \in Nat /\ Len(q) \in Nat
      /\ DOMAIN p = 1 .. Len(p) /\ DOMAIN q = 1 .. Len(q) /\ DOMAIN r = 1 .. Len(p) + Len(q)
      /\ \A i \in 1 .. Len(p) + Len(q) : r[i] = IF i <= Len(p) THEN p[i] ELSE q[i - Len(p)]
  BY ConcatProperties, LenProperties
<1>. HIDE DEF r
<1>2. \A i \in DOMAIN r : \/ i \in DOMAIN p /\ r[i] = p[i]
                          \/ i > Len(p) /\ i - Len(p) \in DOMAIN q /\ r[i] = q[i - Len(p)]
  BY <1>1
<1>3. /\ \A i \in DOMAIN p : i \in DOMAIN r /\ r[i] = p[i]
      /\ \A i \in DOMAIN q : i + Len(p) \in DOMAIN r /\ r[i + Len(p)] = q[i]
  BY <1>1
<1>4. \A t : Holds(r, t) <=> Holds(p, t) \/ Holds(q, t)
  BY <1>2, <1>3, HoldsIs
<1>5. ASSUME NEW t, Once(p, t), Once(q, t), ~(Holds(p, t) /\ Holds(q, t))
      PROVE  Once(r, t)
  <2>1. SUFFICES ASSUME NEW i \in DOMAIN r, NEW j \in DOMAIN r, IsTask(r[i], t), IsTask(r[j], t)
                 PROVE  i = j
    BY DEF Once
  <2>2. CASE Holds(p, t)
    <3>1. i \in DOMAIN p /\ j \in DOMAIN p /\ r[i] = p[i] /\ r[j] = p[j]
      BY <1>2, <1>5, <2>1, <2>2, HoldsIs
    <3>. QED
      BY <1>5, <2>1, <3>1 DEF Once
  <2>3. CASE ~Holds(p, t)
    <3>1. /\ i - Len(p) \in DOMAIN q /\ j - Len(p) \in DOMAIN q
          /\ r[i] = q[i - Len(p)] /\ r[j] = q[j - Len(p)]
      BY <1>2, <2>1, <2>3, HoldsIs
    <3>2. i - Len(p) = j - Len(p)
      BY <1>5, <2>1, <3>1 DEF Once
    <3>. QED
      BY <1>1, <3>2
  <2>. QED
    BY <2>2, <2>3
<1>6. ASSUME NEW t, NEW u, Before(p, t, u), Before(q, t, u), ~(Holds(p, u) /\ Holds(q, t))
      PROVE  Before(r, t, u)
  <2>1. SUFFICES ASSUME NEW i \in DOMAIN r, NEW j \in DOMAIN r, IsTask(r[i], t), IsTask(r[j], u)
                 PROVE  i < j
    BY DEF Before
  <2>2. CASE i \in DOMAIN p /\ r[i] = p[i] /\ j \in DOMAIN p /\ r[j] = p[j]
    BY <1>6, <2>1, <2>2 DEF Before
  <2>3. CASE i \in DOMAIN p /\ r[i] = p[i] /\ j > Len(p)
    BY <1>1, <2>3
  <2>4. CASE /\ i - Len(p) \in DOMAIN q /\ r[i] = q[i - Len(p)]
             /\ j - Len(p) \in DOMAIN q /\ r[j] = q[j - Len(p)]
    <3>1. i - Len(p) < j - Len(p)
      BY <1>6, <2>1, <2>4 DEF Before
    <3>. QED
      BY <1>1, <3>1
  <2>5. CASE /\ i - Len(p) \in DOMAIN q /\ r[i] = q[i - Len(p)]
             /\ j \in DOMAIN p /\ r[j] = p[j]
    BY <1>6, <2>1, <2>5, HoldsIs
  <2>. QED
    BY <1>2, <2>2, <2>3, <2>4, <2>5
<1>. QED
  BY <1>1, <1>4, <1>5, <1>6 DEF r

LEMMA SingleDeque ==
    ASSUME NEW x \in Items
    PROVE  /\ <<x>> \in Seq(Items)
           /\ \A t : (Holds(<<x>>, t) <=> IsTask(x, t)) /\ Once(<<x>>, t)
           /\ \A t, u : ~(IsTask(x, t) /\ IsTask(x, u)) => Before(<<x>>, t, u)
<1>1. <<x>> \in Seq(Items) /\ DOMAIN <<x>> = {1} /\ <<x>>[1] = x
  OBVIOUS
<1>. QED
  BY <1>1, HoldsIs DEF Once, Before

\* an entry at the front, and at the back
LEMMA FrontDeque ==
    ASSUME NEW q \in Seq(Items), NEW x \in Items
    PROVE  /\ <<x>> \o q \in Seq(Items)
           /\ \A t : /\ Holds(<<x>> \o q, t) <=> IsTask(x, t) \/ Holds(q, t)
                     /\ Once(q, t) /\ ~(IsTask(x, t) /\ Holds(q, t)) => Once(<<x>> \o q, t)
           /\ \A t, u : Before(q, t, u) /\ ~IsTask(x, u) => Before(<<x>> \o q, t, u)
BY SingleDeque, ConcatDeque

LEMMA BackDeque ==
    ASSUME NEW q \in Seq(Items), NEW x \in Items
    PROVE  /\ Append(q, x) \in Seq(Items)
           /\ \A t : /\ Holds(Append(q, x), t) <=> IsTask(x, t) \/ Holds(q, t)
                     /\ Once(q, t) /\ ~(IsTask(x, t) /\ Holds(q, t)) => Once(Append(q, x), t)
           /\ \A t, u : Before(q, t, u) /\ ~(IsTask(x, t) /\ (IsTask(x, u) \/ Holds(q, u))) =>
                           Before(Append(q, x), t, u)
<1>. DEFINE p == <<x>>
<1>1. Append(q, x) = q \o p
  BY AppendIsConcat
<1>2. /\ p \in Seq(Items)
      /\ \A t : (Holds(p, t) <=> IsTask(x, t)) /\ Once(p, t)
      /\ \A t, u : ~(IsTask(x, t) /\ IsTask(x, u)) => Before(p, t, u)
  BY SingleDeque
<1>. HIDE DEF p
<1>. QED
  BY <1>1, <1>2, ConcatDeque

LEMMA RemoveDeque ==
    ASSUME NEW q \in Seq(Items), NEW i \in DOMAIN q
    PROVE  /\ RemoveAt(q, i) \in Seq(Items) /\ q[i] \in Items
           /\ \A t : /\ Holds(q, t) <=> IsTask(q[i], t) \/ Holds(RemoveAt(q, i), t)
                     /\ Once(q, t) => Once(RemoveAt(q, i), t) /\ ~(IsTask(q[i], t) /\ Holds(RemoveAt(q, i), t))
           /\ \A t, u : Before(q, t, u) => Before(RemoveAt(q, i), t, u)
<1>. DEFINE r == RemoveAt(q, i)
            To(k) == IF k < i THEN k ELSE k - 1
            Back(k) == IF k < i THEN k ELSE k + 1
<1>1. Len(q) \in Nat /\ DOMAIN q = 1 .. Len(q) /\ i \in 1 .. Len(q) /\ q[i] \in Items
  BY LenProperties, ElementOfSeq
<1>2. r \in Seq(Items) /\ Len(r) = Len(q) - 1 /\ DOMAIN r = 1 .. Len(q) - 1
      /\ \A k \in 1 .. Len(q) - 1 : r[k] = q[Back(k)]
  <2>. DEFINE a == SubSeq(q, 1, i - 1)
              b == SubSeq(q, i + 1, Len(q))
  <2>1. /\ a \in Seq(Items) /\ Len(a) = i - 1 /\ \A k \in 1 .. i - 1 : a[k] = q[k]
    BY <1>1, SubSeqProperties
  <2>2. /\ b \in Seq(Items) /\ Len(b) = Len(q) - i /\ \A k \in 1 .. Len(q) - i : b[k] = q[i + k]
    BY <1>1, SubSeqProperties
  <2>3. r = a \o b
    BY DEF RemoveAt
  <2>. HIDE DEF a, b, r
  <2>4. /\ r \in Seq(Items) /\ Len(r) = Len(a) + Len(b)
        /\ \A k \in 1 .. Len(a) + Len(b) : r[k] = IF k <= Len(a) THEN a[k] ELSE b[k - Len(a)]
    BY <2>1, <2>2, <2>3, ConcatProperties
  <2>5. Len(r) = Len(q) - 1 /\ DOMAIN r = 1 .. Len(q) - 1
    BY <1>1, <2>1, <2>2, <2>4, LenProperties
  <2>6. ASSUME NEW k \in 1 .. Len(q) - 1
        PROVE  r[k] = q[Back(k)]
    <3>1. CASE k < i
      BY <1>1, <2>1, <2>2, <2>4, <3>1
    <3>2. CASE ~(k < i)
      <4>1. r[k] = b[k - (i - 1)] /\ k - (i - 1) \in 1 .. Len(q) - i
        BY <1>1, <2>1, <2>2, <2>4, <3>2, SMTT(30)
      <4>2. b[k - (i - 1)] = q[i + (k - (i - 1))] /\ i + (k - (i - 1)) = k + 1
        BY <1>1, <2>2, <4>1
      <4>. QED
        BY <3>2, <4>1, <4>2
    <3>. QED
      BY <3>1, <3>2
  <2>. QED
    BY <2>4, <2>5, <2>6
<1>. HIDE DEF r
<1>4. \A k \in DOMAIN q : k # i => To(k) \in DOMAIN r /\ q[k] = r[To(k)]
  BY <1>1, <1>2
<1>5. \A k \in DOMAIN r : Back(k) \in DOMAIN q /\ Back(k) # i /\ r[k] = q[Back(k)]
  BY <1>1, <1>2
<1>6. \A k, l \in DOMAIN r : (Back(k) = Back(l) => k = l) /\ (Back(k) < Back(l) => k < l)
  BY <1>1, <1>2
<1>. HIDE DEF To, Back
<1>7. ASSUME NEW t
      PROVE  /\ Holds(q, t) <=> IsTask(q[i], t) \/ Holds(r, t)
             /\ Once(q, t) => Once(r, t) /\ ~(IsTask(q[i], t) /\ Holds(r, t))
  <2>1. Holds(q, t) <=> IsTask(q[i], t) \/ Holds(r, t)
    BY <1>4, <1>5, HoldsIs
  <2>2. Once(q, t) => Once(r, t)
    BY <1>5, <1>6 DEF Once
  <2>3. Once(q, t) => ~(IsTask(q[i], t) /\ Holds(r, t))
    BY <1>5, HoldsIs DEF Once
  <2>. QED
    BY <2>1, <2>2, <2>3
<1>8. \A t, u : Before(q, t, u) => Before(r, t, u)
  BY <1>5, <1>6 DEF Before
<1>. QED
  BY <1>1, <1>2, <1>7, <1>8 DEF r

LEMMA CleanupDeque ==
    ASSUME NEW q \in Seq(Items), NEW t
    PROVE  /\ Once(q, t) => ~Holds(Cleanup(q, t), t)
           /\ \A u : /\ u # t => (Holds(Cleanup(q, t), u) <=> Holds(q, u))
                     /\ Holds(Cleanup(q, t), u) => Holds(q, u)
                     /\ Once(q, u) => Once(Cleanup(q, t), u)
           /\ \A u, v : Before(q, u, v) => Before(Cleanup(q, t), u, v)
<1>. DEFINE I == {i \in 1 .. Len(q) : q[i].kind = "task" /\ q[i].task = t}
            i == IF I # {} THEN Min(I) ELSE 0
<1>1. Cleanup(q, t) = IF i = 0 THEN q ELSE RemoveAt(q, i)
  BY Zenon DEF Cleanup, SelectInSeq
<1>2. DOMAIN q = 1 .. Len(q) /\ Len(q) \in Nat
  BY LenProperties
<1>3. CASE I = {}
  <2>1. Cleanup(q, t) = q
    BY <1>1, <1>3
  <2>2. ~Holds(q, t)
    BY <1>2, <1>3 DEF Holds
  <2>. QED
    BY <2>1, <2>2
<1>4. CASE I # {}
  <2>0. I \in SUBSET Nat
    OBVIOUS
  <2>1. Min(I) \in I
    BY <1>4, <2>0, MinInSet
  <2>2. i \in DOMAIN q /\ i # 0 /\ IsTask(q[i], t)
    BY <1>2, <1>4, <2>1 DEF IsTask
  <2>. HIDE DEF i
  <2>3. Cleanup(q, t) = RemoveAt(q, i)
    BY <1>1, <2>2
  <2>4. \A u : u # t => ~IsTask(q[i], u)
    BY <2>2 DEF IsTask
  <2>. QED
    BY <2>2, <2>3, <2>4, RemoveDeque
<1>. QED
  BY <1>3, <1>4

-----------------------------------------------------------------------------
(* The invariant.                                                          *)

\* a thread holds an item only while it is in the callback
Hands == /\ main.pc # "callback" => main.item = NoItem
         /\ worker.pc # "callback" => worker.item = NoItem

Past == dropped \subseteq posted /\ Range(done) \subseteq posted

Live(t) == t \in posted /\ t \notin dropped /\ t \notin Range(done)

\* A task is in one of the five places, once, while it is live, and in none otherwise.
Placed(t) ==
    LET q == Holds(queue_tasks, t)
        d == Holds(queue_tasks_deferred, t)
        n == Holds(queue_tasks_unhandled, t)
        m == InHand(main, t)
        w == InHand(worker, t)
    IN  /\ Once(queue_tasks, t) /\ Once(queue_tasks_deferred, t) /\ Once(queue_tasks_unhandled, t)
        /\ q => ~(d \/ n \/ m \/ w)
        /\ d => ~(n \/ m \/ w)
        /\ n => ~(m \/ w)
        /\ m => ~w
        /\ Live(t) <=> q \/ d \/ n \/ m \/ w

\* Task t is ahead of u on the way through the queue, the worker's hand, the list of declined
\* tasks and the main thread's hand to the done ones.
Ahead(t, u) ==
    /\ \A a, b \in DOMAIN done : done[a] = t /\ done[b] = u => a < b
    /\ u \in Range(done) => /\ ~InHand(main, t) /\ ~InHand(worker, t)
                            /\ ~Holds(queue_tasks_unhandled, t) /\ ~Holds(queue_tasks, t)
    /\ InHand(main, u) => /\ ~InHand(worker, t)
                          /\ ~Holds(queue_tasks_unhandled, t) /\ ~Holds(queue_tasks, t)
    /\ Holds(queue_tasks_unhandled, u) => ~InHand(worker, t) /\ ~Holds(queue_tasks, t)
    /\ InHand(worker, u) => ~Holds(queue_tasks, t)
    /\ Before(queue_tasks_unhandled, t, u)
    /\ Before(queue_tasks, t, u)

Orderly  == /\ \A i, j \in DOMAIN order : order[i] = order[j] => i = j
            /\ \A i \in DOMAIN order : order[i] \in posted \ Light
Deferred == \A t \in Tasks : Holds(queue_tasks_deferred, t) => t \in was_deferred
InOrder  == \A i, j \in DOMAIN order :
                i < j /\ {order[i], order[j]} \cap was_deferred = {} => Ahead(order[i], order[j])

Conserved == Hands /\ Past /\ Orderly /\ Deferred /\ InOrder /\ \A t \in Tasks : Placed(t)

-----------------------------------------------------------------------------
(* Lemmas about steps.                                                     *)

LEMMA InHandIs ==
    ASSUME NEW th, NEW t
    PROVE  InHand(th, t) <=> IsTask(th.item, t)
BY DEF InHand, IsTask, NoItem

LEMMA NoneInHand ==
    ASSUME NEW th, th.item = NoItem, NEW t
    PROVE  ~InHand(th, t)
BY DEF InHand

\* the ids of a task that is handed out, at the end of the done ones
LEMMA DoneGrows ==
    ASSUME NEW d \in Seq(Tasks), NEW item \in Items
    PROVE  LET e == d \o IdsOf(item)
           IN  /\ \A t : t \in Range(e) <=> t \in Range(d) \/ IsTask(item, t)
               /\ \A t, u : (\A a, b \in DOMAIN d : d[a] = t /\ d[b] = u => a < b)
                            /\ ~(IsTask(item, t) /\ (IsTask(item, u) \/ u \in Range(d)))
                            => \A a, b \in DOMAIN e : e[a] = t /\ e[b] = u => a < b
<1>. DEFINE e == d \o IdsOf(item)
<1>1. Len(d) \in Nat /\ DOMAIN d = 1 .. Len(d)
  BY LenProperties
<1>2. CASE item.kind = "task"
  <2>1. item.task \in Tasks /\ IdsOf(item) = <<item.task>> /\ e = Append(d, item.task)
    BY <1>2, AppendIsConcat DEF Items, IdsOf
  <2>2. DOMAIN e = 1 .. Len(d) + 1 /\ \A i \in 1 .. Len(d) + 1 : e[i] = IF i <= Len(d) THEN d[i] ELSE item.task
    BY <1>1, <2>1, AppendProperties, LenProperties
  <2>. HIDE DEF e
  <2>3. ASSUME NEW t
        PROVE  t \in Range(e) <=> t \in Range(d) \/ IsTask(item, t)
    <3>1. \A i \in DOMAIN e : (i \in DOMAIN d /\ e[i] = d[i]) \/ e[i] = item.task
      BY <1>1, <2>2
    <3>2. (\A i \in DOMAIN d : i \in DOMAIN e /\ e[i] = d[i]) /\ Len(d) + 1 \in DOMAIN e /\ e[Len(d) + 1] = item.task
      BY <1>1, <2>2
    <3>3. IsTask(item, t) <=> t = item.task
      BY <1>2 DEF IsTask
    <3>. QED
      BY <3>1, <3>2, <3>3 DEF Range
  <2>4. ASSUME NEW t, NEW u, \A a, b \in DOMAIN d : d[a] = t /\ d[b] = u => a < b,
               ~(IsTask(item, t) /\ (IsTask(item, u) \/ u \in Range(d))),
               NEW a \in DOMAIN e, NEW b \in DOMAIN e, e[a] = t, e[b] = u
        PROVE  a < b
    <3>1. CASE a \in DOMAIN d /\ b \in DOMAIN d
      BY <1>1, <2>2, <2>4, <3>1
    <3>2. CASE a \in DOMAIN d /\ b \notin DOMAIN d
      BY <1>1, <2>2, <3>2
    <3>3. CASE a \notin DOMAIN d
      <4>1. t = item.task
        BY <1>1, <2>2, <2>4, <3>3
      <4>2. u = item.task \/ (b \in DOMAIN d /\ u = d[b])
        BY <1>1, <2>2, <2>4
      <4>. QED
        BY <1>2, <2>4, <4>1, <4>2 DEF IsTask, Range
    <3>. QED
      BY <3>1, <3>2, <3>3
  <2>. QED
    BY <2>3, <2>4 DEF e
<1>3. CASE item.kind # "task"
  <2>1. e = d
    BY <1>3, ConcatEmptySeq DEF IdsOf
  <2>. QED
    BY <1>3, <2>1 DEF IsTask
<1>. QED
  BY <1>2, <1>3

DoneAfter(item) ==
    /\ \A t : t \in Range(done') <=> t \in Range(done) \/ IsTask(item, t)
    /\ \A t, u : (\A a, b \in DOMAIN done : done[a] = t /\ done[b] = u => a < b)
                 /\ ~(IsTask(item, t) /\ (IsTask(item, u) \/ u \in Range(done)))
                 => \A a, b \in DOMAIN done' : done'[a] = t /\ done'[b] = u => a < b

LEMMA DoneStep ==
    ASSUME done \in Seq(Tasks), NEW item \in Items, done' = done \o IdsOf(item)
    PROVE  DoneAfter(item)
<1>. DEFINE e == done \o IdsOf(item)
<1>1. /\ \A t : t \in Range(e) <=> t \in Range(done) \/ IsTask(item, t)
      /\ \A t, u : (\A a, b \in DOMAIN done : done[a] = t /\ done[b] = u => a < b)
                   /\ ~(IsTask(item, t) /\ (IsTask(item, u) \/ u \in Range(done)))
                   => \A a, b \in DOMAIN e : e[a] = t /\ e[b] = u => a < b
  BY DoneGrows, Zenon
<1>2. done' = e
  OBVIOUS
<1>. HIDE DEF e
<1>. QED
  BY <1>1, <1>2, Zenon DEF DoneAfter

\* A step that posts nothing keeps the order when it keeps every pair.
LEMMA InOrderStep ==
    ASSUME TypeOK, Conserved, UNCHANGED <<order, posted>>, was_deferred \subseteq was_deferred',
           \A t, u \in Tasks \ (Light \cup was_deferred') : t # u /\ Ahead(t, u) => Ahead(t, u)'
    PROVE  Orderly' /\ InOrder'
<1>1. \A i \in DOMAIN order : order[i] \in Tasks
  BY ElementOfSeq DEF TypeOK, HistoryOK
<1>2. Orderly'
  BY DEF Conserved, Orderly
<1>3. ASSUME NEW i \in DOMAIN order, NEW j \in DOMAIN order, i < j, {order[i], order[j]} \cap was_deferred' = {}
      PROVE  Ahead(order[i], order[j])'
  <2>1. Ahead(order[i], order[j])
    BY <1>3 DEF Conserved, InOrder
  <2>2. order[i] \notin Light /\ order[j] \notin Light /\ order[i] # order[j]
    <3>1. i # j
      BY <1>3, LenProperties DEF TypeOK, HistoryOK
    <3>. QED
      BY <3>1 DEF Conserved, Orderly
  <2>3. \A t, u \in Tasks \ (Light \cup was_deferred') : t # u /\ Ahead(t, u) => Ahead(t, u)'
    OBVIOUS
  <2>4. order[i] \in Tasks \ (Light \cup was_deferred') /\ order[j] \in Tasks \ (Light \cup was_deferred')
    BY <1>1, <1>3, <2>2
  <2>5. order' = order
    OBVIOUS
  <2>. QED
    BY <2>1, <2>2, <2>3, <2>4, <2>5
<1>. QED
  BY <1>2, <1>3 DEF InOrder

\* A step that moves nothing.
LEMMA Unmoved ==
    ASSUME TypeOK, Conserved, UNCHANGED <<queues, posted, order, done, dropped, was_deferred>>,
           main'.item = main.item, worker'.item = worker.item, Hands'
    PROVE  Conserved'
<1>. USE DEF queues
<1>1. /\ queue_tasks' = queue_tasks /\ queue_tasks_deferred' = queue_tasks_deferred
      /\ queue_tasks_unhandled' = queue_tasks_unhandled
      /\ posted' = posted /\ done' = done /\ dropped' = dropped /\ was_deferred' = was_deferred
  OBVIOUS
<1>2. \A t : (InHand(main, t)' <=> InHand(main, t)) /\ (InHand(worker, t)' <=> InHand(worker, t))
  BY InHandIs DEF InHand
<1>3. \A t \in Tasks : Placed(t)'
  BY <1>1, <1>2 DEF Conserved, Placed, Live
<1>4. Orderly' /\ InOrder'
  <2>1. \A t, u : Ahead(t, u) => Ahead(t, u)'
    BY <1>1, <1>2 DEF Ahead
  <2>. QED
    BY <2>1, InOrderStep
<1>5. Deferred'
  BY <1>1 DEF Conserved, Deferred
<1>6. Past'
  BY <1>1 DEF Conserved, Past
<1>. QED
  BY <1>3, <1>4, <1>5, <1>6 DEF Conserved

-----------------------------------------------------------------------------
(* The steps of the clients.                                               *)

\* The front for METRICS and SLOT_GET, which have no order; the back for the rest.
LEMMA PostConserves ==
    ASSUME TypeOK, Conserved, NEW c \in Clients, NEW t \in Tasks, NEW s \in Slots \cup {NoSlot}, Post(c, t, s)
    PROVE  Conserved'
<1>. DEFINE x == Item(t, s)
<1>1. x \in Items /\ (\A u : IsTask(x, u) <=> u = t)
  BY ItemTypes DEF Item, IsTask
<1>2. /\ queue_tasks \in Seq(Items) /\ order \in Seq(Tasks)
      /\ queue_tasks' = (IF t \in Light THEN <<x>> \o queue_tasks ELSE Append(queue_tasks, x))
      /\ queue_tasks_deferred' = queue_tasks_deferred /\ queue_tasks_unhandled' = queue_tasks_unhandled
      /\ posted' = posted \cup {t} /\ t \notin posted
      /\ done' = done /\ dropped' = dropped /\ was_deferred' = was_deferred
      /\ main' = main /\ worker' = worker
      /\ order' = (IF t \in Light THEN order ELSE Append(order, t))
  BY DEF Post, TypeOK, QueuesOK, HistoryOK
<1>. HIDE DEF x
<1>3. /\ ~Holds(queue_tasks, t) /\ ~Holds(queue_tasks_deferred, t) /\ ~Holds(queue_tasks_unhandled, t)
      /\ ~InHand(main, t) /\ ~InHand(worker, t) /\ t \notin dropped /\ t \notin Range(done)
  BY <1>2 DEF Conserved, Placed, Live, Past
<1>4. /\ \A u : Holds(queue_tasks', u) <=> u = t \/ Holds(queue_tasks, u)
      /\ \A u : Once(queue_tasks, u) => Once(queue_tasks', u)
  BY <1>1, <1>2, <1>3, FrontDeque, BackDeque
<1>5. /\ \A u, v : Before(queue_tasks, u, v) /\ u # t /\ v # t => Before(queue_tasks', u, v)
      /\ t \notin Light => \A u : u # t => Before(queue_tasks', u, t)
  <2>1. \A u, v : Before(queue_tasks, u, v) /\ u # t /\ v # t => Before(queue_tasks', u, v)
    BY <1>1, <1>2, FrontDeque, BackDeque
  <2>2. \A u : Before(queue_tasks, u, t)
    BY <1>3, HoldsIs DEF Before
  <2>3. t \notin Light => \A u : u # t => Before(queue_tasks', u, t)
    BY <1>1, <1>2, <2>2, BackDeque
  <2>. QED
    BY <2>1, <2>3
<1>6. \A u : (InHand(main, u)' <=> InHand(main, u)) /\ (InHand(worker, u)' <=> InHand(worker, u))
  BY <1>2
<1>7. ASSUME NEW u \in Tasks
      PROVE  Placed(u)'
  <2>1. CASE u = t
    BY <1>2, <1>3, <1>4, <1>6, <2>1 DEF Conserved, Placed, Live
  <2>2. CASE u # t
    BY <1>2, <1>4, <1>6, <2>2 DEF Conserved, Placed, Live
  <2>. QED
    BY <2>1, <2>2
<1>8. ASSUME NEW u, NEW v, Ahead(u, v), u # t, v # t
      PROVE  Ahead(u, v)'
  BY <1>2, <1>4, <1>5, <1>6, <1>8 DEF Ahead
<1>9. ASSUME NEW u, u # t, t \notin Light
      PROVE  Ahead(u, t)'
  <2>1. \A b \in DOMAIN done : done[b] # t
    BY <1>3 DEF Range
  <2>2. \A i \in DOMAIN queue_tasks_unhandled : ~IsTask(queue_tasks_unhandled[i], t)
    BY <1>3, HoldsIs
  <2>. QED
    BY <1>2, <1>3, <1>5, <1>6, <1>9, <2>1, <2>2 DEF Ahead, Before
<1>10. \A i \in DOMAIN order : order[i] # t /\ order[i] \in posted \ Light
  BY <1>2 DEF Conserved, Orderly
<1>11. Orderly' /\ InOrder'
  <2>1. CASE t \in Light
    <3>1. order' = order
      BY <1>2, <2>1
    <3>2. Orderly'
      BY <1>2, <1>10, <3>1 DEF Conserved, Orderly
    <3>3. InOrder'
      BY <1>2, <1>8, <1>10, <3>1 DEF Conserved, InOrder
    <3>. QED
      BY <3>2, <3>3
  <2>2. CASE t \notin Light
    <3>1. /\ Len(order) \in Nat /\ DOMAIN order = 1 .. Len(order) /\ DOMAIN order' = 1 .. Len(order) + 1
          /\ \A i \in 1 .. Len(order) : order'[i] = order[i]
          /\ order'[Len(order) + 1] = t
      BY <1>2, <2>2, AppendProperties, LenProperties
    <3>2. \A i \in DOMAIN order' : (i \in DOMAIN order /\ order'[i] = order[i]) \/ (i = Len(order) + 1 /\ order'[i] = t)
      BY <3>1
    <3>3. Orderly'
      BY <1>2, <1>10, <2>2, <3>2 DEF Conserved, Orderly
    <3>4. ASSUME NEW i \in DOMAIN order', NEW j \in DOMAIN order', i < j,
                 {order'[i], order'[j]} \cap was_deferred' = {}
          PROVE  Ahead(order[i], order[j])'
      <4>1. i \in DOMAIN order /\ order'[i] = order[i] /\ order[i] # t
        BY <1>10, <3>1, <3>2, <3>4
      <4>2. CASE j \in DOMAIN order /\ order'[j] = order[j]
        <5>1. Ahead(order[i], order[j]) /\ order[j] # t
          BY <1>2, <1>10, <3>4, <4>1, <4>2 DEF Conserved, InOrder
        <5>2. \A u, v : Ahead(u, v) /\ u # t /\ v # t => Ahead(u, v)'
          BY <1>8
        <5>. QED
          BY <4>1, <4>2, <5>1, <5>2
      <4>3. CASE order'[j] = t
        <5>1. \A u : u # t => Ahead(u, t)'
          BY <1>9, <2>2
        <5>. QED
          BY <4>1, <4>3, <5>1
      <4>. QED
        BY <3>2, <4>2, <4>3
    <3>. QED
      BY <3>3, <3>4 DEF InOrder
  <2>. QED
    BY <2>1, <2>2
<1>12. Hands' /\ Past' /\ Deferred'
  BY <1>2 DEF Conserved, Hands, Past, Deferred
<1>. QED
  BY <1>7, <1>11, <1>12 DEF Conserved

\* A cancel takes its target out of whichever deque it is in.
LEMMA CancelConserves ==
    ASSUME TypeOK, Conserved, NEW c \in Clients, PostCancel(c)
    PROVE  Conserved'
<1>. DEFINE t == client[c].task
            x == Cancel(t)
            q == Cleanup(queue_tasks, t)
<1>1. t \in Tasks /\ x \in Items /\ \A u : ~IsTask(x, u)
  BY ItemTypes DEF PostCancel, TypeOK, ClientsOK, Cancel, IsTask
<1>2. /\ queue_tasks \in Seq(Items) /\ queue_tasks_deferred \in Seq(Items) /\ queue_tasks_unhandled \in Seq(Items)
      /\ q \in Seq(Items)
      /\ queue_tasks' = <<x>> \o q
      /\ queue_tasks_deferred' = Cleanup(queue_tasks_deferred, t)
      /\ queue_tasks_unhandled' = Cleanup(queue_tasks_unhandled, t)
      /\ posted' = posted /\ done' = done /\ was_deferred' = was_deferred /\ order' = order
      /\ dropped' = (IF Pending(t) THEN dropped \cup {t} ELSE dropped)
      /\ main' = main /\ worker' = worker
  BY CleanupType DEF PostCancel, TypeOK, QueuesOK
<1>. HIDE DEF t, x, q
<1>3. Pending(t) <=> Holds(queue_tasks, t) \/ Holds(queue_tasks_deferred, t) \/ Holds(queue_tasks_unhandled, t)
  <2>. DEFINE p == queue_tasks \o queue_tasks_deferred
  <2>1. p \in Seq(Items) /\ (Holds(p, t) <=> Holds(queue_tasks, t) \/ Holds(queue_tasks_deferred, t))
    BY <1>2, ConcatDeque
  <2>2. Pending(t) <=> Holds(p \o queue_tasks_unhandled, t)
    BY DEF Pending
  <2>. HIDE DEF p
  <2>. QED
    BY <1>2, <2>1, <2>2, ConcatDeque
<1>4. /\ \A u : (Holds(queue_tasks', u) <=> Holds(q, u)) /\ (Once(q, u) => Once(queue_tasks', u))
      /\ \A u, v : Before(q, u, v) => Before(queue_tasks', u, v)
  BY <1>1, <1>2, FrontDeque
<1>5. /\ Once(queue_tasks, t) => ~Holds(queue_tasks', t)
      /\ \A u : /\ u # t => (Holds(queue_tasks', u) <=> Holds(queue_tasks, u))
                /\ Holds(queue_tasks', u) => Holds(queue_tasks, u)
                /\ Once(queue_tasks, u) => Once(queue_tasks', u)
      /\ \A u, v : Before(queue_tasks, u, v) => Before(queue_tasks', u, v)
  BY <1>2, <1>4, CleanupDeque DEF q
<1>6. /\ Once(queue_tasks_deferred, t) => ~Holds(queue_tasks_deferred', t)
      /\ \A u : /\ u # t => (Holds(queue_tasks_deferred', u) <=> Holds(queue_tasks_deferred, u))
                /\ Holds(queue_tasks_deferred', u) => Holds(queue_tasks_deferred, u)
                /\ Once(queue_tasks_deferred, u) => Once(queue_tasks_deferred', u)
  BY <1>2, CleanupDeque
<1>7. /\ Once(queue_tasks_unhandled, t) => ~Holds(queue_tasks_unhandled', t)
      /\ \A u : /\ u # t => (Holds(queue_tasks_unhandled', u) <=> Holds(queue_tasks_unhandled, u))
                /\ Holds(queue_tasks_unhandled', u) => Holds(queue_tasks_unhandled, u)
                /\ Once(queue_tasks_unhandled, u) => Once(queue_tasks_unhandled', u)
      /\ \A u, v : Before(queue_tasks_unhandled, u, v) => Before(queue_tasks_unhandled', u, v)
  BY <1>2, CleanupDeque
<1>8. \A u : (InHand(main, u)' <=> InHand(main, u)) /\ (InHand(worker, u)' <=> InHand(worker, u))
  BY <1>2
<1>9. Placed(t)
  BY <1>1 DEF Conserved
<1>10. ASSUME NEW u \in Tasks
       PROVE  Placed(u)'
  <2>1. CASE u = t
    BY <1>2, <1>3, <1>5, <1>6, <1>7, <1>8, <1>9, <2>1 DEF Placed, Live
  <2>2. CASE u # t
    BY <1>2, <1>5, <1>6, <1>7, <1>8, <2>2 DEF Conserved, Placed, Live
  <2>. QED
    BY <2>1, <2>2
<1>11. Orderly' /\ InOrder'
  <2>1. \A u, v : Ahead(u, v) => Ahead(u, v)'
    BY <1>2, <1>5, <1>7, <1>8 DEF Ahead
  <2>. QED
    BY <1>2, <2>1, InOrderStep
<1>12. Past'
  BY <1>2, <1>3, <1>9 DEF Conserved, Past, Placed, Live
<1>13. Hands' /\ Deferred'
  BY <1>2, <1>6 DEF Conserved, Hands, Deferred
<1>. QED
  BY <1>10, <1>11, <1>12, <1>13 DEF Conserved

LEMMA ClientConserves ==
    ASSUME TypeOK, Conserved, NEW c \in Clients, ClientStep(c)
    PROVE  Conserved'
<1>1. CASE Gate(c) \/ GateRecheck(c) \/ Peek(c) \/ Return(c)
  <2>1. UNCHANGED <<queues, posted, order, done, dropped, was_deferred, main, worker>>
    BY <1>1 DEF Gate, GateRecheck, Peek, Return, history
  <2>2. Hands'
    BY <2>1 DEF Conserved, Hands
  <2>. QED
    BY <2>1, <2>2, Unmoved
<1>. QED
  BY <1>1, PostConserves, CancelConserves DEF ClientStep

-----------------------------------------------------------------------------
(* The steps of the worker.                                                *)

\* What an item in a hand is.
LEMMA HandTypes ==
    ASSUME TypeOK
    PROVE  /\ main.pc = "callback" => main.item \in Items
           /\ worker.pc = "callback" => worker.item \in Items
           /\ queue_tasks \in Seq(Items) /\ queue_tasks_deferred \in Seq(Items)
           /\ queue_tasks_unhandled \in Seq(Items) /\ done \in Seq(Tasks)
           /\ \A item \in Items : item.kind = "task" => item.task \in Tasks
BY DEF TypeOK, MainOK, WorkerOK, QueuesOK, HistoryOK, Items

LEMMA WorkerTakeConserves ==
    ASSUME TypeOK, Conserved, WorkerTake
    PROVE  Conserved'
<1>1. UNCHANGED <<queue_tasks_deferred, queue_tasks_unhandled, posted, order, done, dropped, was_deferred, main>>
  BY DEF WorkerTake, history
<1>2. worker.item = NoItem /\ \A u : ~InHand(worker, u)
  BY NoneInHand DEF WorkerTake, Conserved, Hands
<1>3. CASE running /\ queue_tasks # <<>>
  <2>. DEFINE x == Head(queue_tasks)
  <2>1. worker' = Hold("callback", x) /\ queue_tasks' = Tail(queue_tasks) /\ x \in Items
    BY <1>3, HandTypes, TailDeque DEF WorkerTake
  <2>2. \A u : InHand(worker, u)' <=> IsTask(x, u)
    BY <2>1, InHandIs DEF Hold, InHand, IsTask, Items, NoItem
  <2>3. /\ \A u : /\ Holds(queue_tasks, u) <=> IsTask(x, u) \/ Holds(queue_tasks', u)
                  /\ Once(queue_tasks, u) => Once(queue_tasks', u) /\ ~(IsTask(x, u) /\ Holds(queue_tasks', u))
        /\ \A u, v : Before(queue_tasks, u, v) => Before(queue_tasks', u, v) /\ (IsTask(x, v) => ~Holds(queue_tasks, u))
    BY <1>3, <2>1, HandTypes, TailDeque
  <2>. HIDE DEF x
  <2>4. \A u : InHand(main, u)' <=> InHand(main, u)
    BY <1>1
  <2>5. ASSUME NEW u \in Tasks
        PROVE  Placed(u)'
    BY <1>1, <1>2, <2>2, <2>3, <2>4 DEF Conserved, Placed, Live
  <2>6. Orderly' /\ InOrder'
    <3>1. ASSUME NEW u, NEW v, Ahead(u, v)
          PROVE  Ahead(u, v)'
      <4>1. Before(queue_tasks', u, v) /\ (IsTask(x, v) => ~Holds(queue_tasks, u))
        BY <2>3, <3>1 DEF Ahead
      <4>2. /\ Holds(queue_tasks', u) => Holds(queue_tasks, u)
            /\ InHand(worker, u)' => Holds(queue_tasks, u)
        BY <2>2, <2>3
      <4>. QED
        BY <1>1, <2>2, <2>4, <3>1, <4>1, <4>2 DEF Ahead
    <3>. QED
      BY <1>1, <3>1, InOrderStep
  <2>7. Hands' /\ Past' /\ Deferred'
    BY <1>1, <2>1 DEF Conserved, Hands, Past, Deferred, Hold
  <2>. QED
    BY <2>5, <2>6, <2>7 DEF Conserved
<1>4. CASE ~(running /\ queue_tasks # <<>>)
  <2>1. UNCHANGED queues /\ worker'.item = NoItem
    BY <1>1, <1>4 DEF WorkerTake, queues, Free
  <2>2. Hands'
    BY <1>1, <2>1 DEF Conserved, Hands
  <2>. QED
    BY <1>1, <1>2, <2>1, <2>2, Unmoved
<1>. QED
  BY <1>3, <1>4

LEMMA WorkerAcceptConserves ==
    ASSUME TypeOK, Conserved, WorkerAccept
    PROVE  Conserved'
<1>. DEFINE x == worker.item
<1>1. /\ x \in Items /\ x.kind = "task" /\ x.task \in Light
      /\ done \in Seq(Tasks) /\ done' = done \o IdsOf(x) /\ worker' = Free("take")
      /\ UNCHANGED <<queues, posted, order, dropped, was_deferred, main>>
  BY HandTypes DEF WorkerAccept, Acceptable
<1>2. /\ UNCHANGED <<queue_tasks, queue_tasks_deferred, queue_tasks_unhandled>>
      /\ \A u : IsTask(x, u) <=> u = x.task
  BY <1>1 DEF queues, IsTask
<1>3. \A u : InHand(worker, u) <=> u = x.task
  BY <1>2, InHandIs
<1>4. \A u : ~InHand(worker, u)'
  BY <1>1, NoneInHand DEF Free, InHand
<1>5. x.task \in Tasks
  BY <1>1, HandTypes
<1>. HIDE DEF x
<1>6. /\ \A u : u \in Range(done') <=> u \in Range(done) \/ u = x.task
      /\ \A u, v : (\A a, b \in DOMAIN done : done[a] = u /\ done[b] = v => a < b) /\ u # x.task
                   => \A a, b \in DOMAIN done' : done'[a] = u /\ done'[b] = v => a < b
  <2>1. DoneAfter(x)
    BY <1>1, DoneStep
  <2>. QED
    BY <1>2, <2>1, Zenon DEF DoneAfter
<1>7. \A u : InHand(main, u)' <=> InHand(main, u)
  BY <1>1
<1>8. ASSUME NEW u \in Tasks
      PROVE  Placed(u)'
  BY <1>1, <1>2, <1>3, <1>4, <1>6, <1>7 DEF Conserved, Placed, Live
<1>9. Orderly' /\ InOrder'
  <2>1. ASSUME NEW u \in Tasks \ Light, NEW v \in Tasks \ Light, Ahead(u, v)
        PROVE  Ahead(u, v)'
    <3>1. u # x.task /\ v # x.task
      BY <1>1
    <3>2. \A a, b \in DOMAIN done' : done'[a] = u /\ done'[b] = v => a < b
      BY <1>6, <2>1, <3>1 DEF Ahead
    <3>. QED
      BY <1>1, <1>2, <1>3, <1>4, <1>6, <1>7, <2>1, <3>1, <3>2 DEF Ahead
  <2>. QED
    BY <1>1, <2>1, InOrderStep
<1>10. Past'
  BY <1>1, <1>3, <1>5, <1>6 DEF Conserved, Past, Placed, Live
<1>11. Hands' /\ Deferred'
  BY <1>1, <1>2 DEF Conserved, Hands, Deferred, Free
<1>. QED
  BY <1>8, <1>9, <1>10, <1>11 DEF Conserved

LEMMA WorkerDeclineConserves ==
    ASSUME TypeOK, Conserved, WorkerDecline
    PROVE  Conserved'
<1>. DEFINE x == worker.item
<1>1. /\ x \in Items /\ queue_tasks_unhandled \in Seq(Items)
      /\ queue_tasks_unhandled' = Append(queue_tasks_unhandled, x) /\ worker' = Free("take")
      /\ UNCHANGED <<queue_tasks, queue_tasks_deferred, posted, order, done, dropped, was_deferred, main>>
  BY HandTypes DEF WorkerDecline, history
<1>2. \A u : InHand(worker, u) <=> IsTask(x, u)
  BY InHandIs
<1>3. \A u : ~InHand(worker, u)'
  BY <1>1, NoneInHand DEF Free, InHand
<1>. HIDE DEF x
<1>4. /\ \A u : /\ Holds(queue_tasks_unhandled', u) <=> IsTask(x, u) \/ Holds(queue_tasks_unhandled, u)
                /\ Once(queue_tasks_unhandled, u) /\ ~(IsTask(x, u) /\ Holds(queue_tasks_unhandled, u))
                     => Once(queue_tasks_unhandled', u)
      /\ \A u, v : Before(queue_tasks_unhandled, u, v) /\ ~(IsTask(x, u) /\ (IsTask(x, v) \/ Holds(queue_tasks_unhandled, v)))
                     => Before(queue_tasks_unhandled', u, v)
  BY <1>1, BackDeque
<1>5. \A u : InHand(main, u)' <=> InHand(main, u)
  BY <1>1
<1>6. ASSUME NEW u \in Tasks
      PROVE  Placed(u)'
  BY <1>1, <1>2, <1>3, <1>4, <1>5 DEF Conserved, Placed, Live
<1>7. Orderly' /\ InOrder'
  <2>1. ASSUME NEW u, NEW v, u # v, Ahead(u, v)
        PROVE  Ahead(u, v)'
    <3>1. ~(IsTask(x, u) /\ IsTask(x, v))
      BY <2>1 DEF IsTask
    <3>2. Before(queue_tasks_unhandled', u, v)
      BY <1>2, <1>4, <2>1, <3>1 DEF Ahead
    <3>. QED
      BY <1>1, <1>2, <1>3, <1>4, <1>5, <2>1, <3>2 DEF Ahead
  <2>. QED
    BY <1>1, <2>1, InOrderStep
<1>8. Hands' /\ Past' /\ Deferred'
  BY <1>1 DEF Conserved, Hands, Past, Deferred, Free
<1>. QED
  BY <1>6, <1>7, <1>8 DEF Conserved

LEMMA WorkerThrowConserves ==
    ASSUME TypeOK, Conserved, WorkerThrow
    PROVE  Conserved'
<1>. DEFINE x == worker.item
<1>1. /\ x \in Items /\ x.kind = "task" /\ dropped' = dropped \cup {x.task} /\ worker' = Free("leave")
      /\ UNCHANGED <<queue_tasks, queue_tasks_deferred, queue_tasks_unhandled, posted, order, done, was_deferred, main>>
  BY HandTypes DEF WorkerThrow, Acceptable, queues
<1>2. (\A u : InHand(worker, u) <=> u = x.task) /\ x.task \in Tasks
  BY <1>1, InHandIs, HandTypes DEF IsTask
<1>3. \A u : ~InHand(worker, u)'
  BY <1>1, NoneInHand DEF Free, InHand
<1>. HIDE DEF x
<1>4. \A u : InHand(main, u)' <=> InHand(main, u)
  BY <1>1
<1>5. ASSUME NEW u \in Tasks
      PROVE  Placed(u)'
  BY <1>1, <1>2, <1>3, <1>4 DEF Conserved, Placed, Live
<1>6. Orderly' /\ InOrder'
  <2>1. \A u, v : Ahead(u, v) => Ahead(u, v)'
    BY <1>1, <1>3, <1>4 DEF Ahead
  <2>. QED
    BY <1>1, <2>1, InOrderStep
<1>7. Past'
  BY <1>1, <1>2 DEF Conserved, Past, Placed, Live
<1>8. Hands' /\ Deferred'
  BY <1>1 DEF Conserved, Hands, Deferred, Free
<1>. QED
  BY <1>5, <1>6, <1>7, <1>8 DEF Conserved

LEMMA WorkerConserves ==
    ASSUME TypeOK, Conserved, WorkerStep
    PROVE  Conserved'
<1>1. CASE WorkerUnpark \/ WorkerCheck \/ WorkerWait \/ WorkerLeave
  <2>1. UNCHANGED <<queues, posted, order, done, dropped, was_deferred, main>>
    BY <1>1 DEF WorkerUnpark, WorkerCheck, WorkerWait, WorkerLeave, history
  <2>2. worker.item = NoItem
    BY <1>1 DEF WorkerUnpark, WorkerCheck, WorkerWait, WorkerLeave, Conserved, Hands
  <2>3. worker'.item = NoItem
    BY <1>1, <2>2 DEF WorkerUnpark, WorkerCheck, WorkerWait, WorkerLeave, Free
  <2>4. Hands'
    BY <2>1, <2>3 DEF Conserved, Hands
  <2>. QED
    BY <2>1, <2>2, <2>3, <2>4, Unmoved
<1>. QED
  BY <1>1, WorkerTakeConserves, WorkerAcceptConserves, WorkerDeclineConserves, WorkerThrowConserves DEF WorkerStep

-----------------------------------------------------------------------------
(* The steps of the main thread.                                           *)

\* Outside a yield no task is declined and the worker has none in its hand.
LEMMA MainAlone ==
    ASSUME TypeOK, Owned, Conserved, ~busy
    PROVE  /\ worker.item = NoItem /\ \A u : ~InHand(worker, u)
           /\ ~InYield => queue_tasks_unhandled = <<>> /\ \A u : ~Holds(queue_tasks_unhandled, u)
<1>1. worker.item = NoItem
  BY DEF Owned, Ownership, Conserved, Hands
<1>2. ~InYield => queue_tasks_unhandled = <<>>
  BY DEF Owned, NoneStranded
<1>. QED
  BY <1>1, <1>2, NoneInHand, EmptyDeque

LEMMA MainTakeConserves ==
    ASSUME TypeOK, Owned, Conserved, MainTake
    PROVE  Conserved'
<1>1. UNCHANGED <<queue_tasks_deferred, queue_tasks_unhandled, posted, order, done, dropped, was_deferred, worker>>
  BY DEF MainTake, history
<1>2. main.item = NoItem /\ \A u : ~InHand(main, u)
  BY NoneInHand DEF MainTake, Conserved, Hands
<1>3. CASE running /\ queue_tasks # <<>>
  <2>. DEFINE x == Head(queue_tasks)
  <2>0. ~InYield /\ ~busy
    BY DEF MainTake, InYield, Owned, Ownership
  <2>00. \A u : ~InHand(worker, u) /\ ~Holds(queue_tasks_unhandled, u)
    BY <2>0, MainAlone
  <2>1. main' = Hold("callback", x) /\ queue_tasks' = Tail(queue_tasks) /\ x \in Items
    BY <1>3, HandTypes, TailDeque DEF MainTake
  <2>2. \A u : InHand(main, u)' <=> IsTask(x, u)
    BY <2>1, InHandIs DEF Hold, InHand, IsTask, Items, NoItem
  <2>3. /\ \A u : /\ Holds(queue_tasks, u) <=> IsTask(x, u) \/ Holds(queue_tasks', u)
                  /\ Once(queue_tasks, u) => Once(queue_tasks', u) /\ ~(IsTask(x, u) /\ Holds(queue_tasks', u))
        /\ \A u, v : Before(queue_tasks, u, v) => Before(queue_tasks', u, v) /\ (IsTask(x, v) => ~Holds(queue_tasks, u))
    BY <1>3, <2>1, HandTypes, TailDeque
  <2>. HIDE DEF x
  <2>4. \A u : InHand(worker, u)' <=> InHand(worker, u)
    BY <1>1
  <2>5. ASSUME NEW u \in Tasks
        PROVE  Placed(u)'
    BY <1>1, <1>2, <2>2, <2>3, <2>4 DEF Conserved, Placed, Live
  <2>6. Orderly' /\ InOrder'
    <3>1. ASSUME NEW u, NEW v, Ahead(u, v)
          PROVE  Ahead(u, v)'
      <4>1. Before(queue_tasks', u, v) /\ (IsTask(x, v) => ~Holds(queue_tasks, u))
        BY <2>3, <3>1 DEF Ahead
      <4>2. /\ Holds(queue_tasks', u) => Holds(queue_tasks, u)
            /\ InHand(main, u)' => Holds(queue_tasks, u)
        BY <2>2, <2>3
      <4>. QED
        BY <1>1, <2>00, <2>2, <2>4, <3>1, <4>1, <4>2 DEF Ahead
    <3>. QED
      BY <1>1, <3>1, InOrderStep
  <2>7. Hands' /\ Past' /\ Deferred'
    BY <1>1, <2>1 DEF Conserved, Hands, Past, Deferred, Hold
  <2>. QED
    BY <2>5, <2>6, <2>7 DEF Conserved
<1>4. CASE ~(running /\ queue_tasks # <<>>)
  <2>1. UNCHANGED queues /\ main'.item = NoItem
    BY <1>1, <1>4 DEF MainTake, queues, Free
  <2>2. Hands'
    BY <1>1, <2>1 DEF Conserved, Hands
  <2>. QED
    BY <1>1, <1>2, <2>1, <2>2, Unmoved
<1>. QED
  BY <1>3, <1>4

LEMMA MainAcceptConserves ==
    ASSUME TypeOK, Conserved, MainAccept
    PROVE  Conserved'
<1>. DEFINE x == main.item
<1>1. /\ x \in Items
      /\ done \in Seq(Tasks) /\ done' = done \o IdsOf(x) /\ main' = Free("take")
      /\ UNCHANGED <<queue_tasks, queue_tasks_deferred, queue_tasks_unhandled, posted, order, dropped, was_deferred, worker>>
  BY HandTypes DEF MainAccept, queues
<1>2. \A u : InHand(main, u) <=> IsTask(x, u)
  BY InHandIs
<1>3. \A u : ~InHand(main, u)'
  BY <1>1, NoneInHand DEF Free, InHand
<1>4. \A u : IsTask(x, u) => u \in Tasks
  BY <1>1 DEF Items, IsTask
<1>. HIDE DEF x
<1>5. DoneAfter(x)
  BY <1>1, DoneStep
<1>6. \A u : u \in Range(done') <=> u \in Range(done) \/ IsTask(x, u)
  BY <1>5, Zenon DEF DoneAfter
<1>7. \A u : InHand(worker, u)' <=> InHand(worker, u)
  BY <1>1
<1>8. ASSUME NEW u \in Tasks
      PROVE  Placed(u)'
  BY <1>1, <1>2, <1>3, <1>6, <1>7 DEF Conserved, Placed, Live
<1>9. Orderly' /\ InOrder'
  <2>1. ASSUME NEW u, NEW v, u # v, Ahead(u, v)
        PROVE  Ahead(u, v)'
    <3>1. ~(IsTask(x, u) /\ (IsTask(x, v) \/ v \in Range(done)))
      BY <1>2, <2>1 DEF Ahead, IsTask
    <3>2. \A a, b \in DOMAIN done' : done'[a] = u /\ done'[b] = v => a < b
      <4>1. \A a, b \in DOMAIN done : done[a] = u /\ done[b] = v => a < b
        BY <2>1 DEF Ahead
      <4>. QED
        BY <1>5, <3>1, <4>1, Zenon DEF DoneAfter
    <3>3. IsTask(x, v) => ~IsTask(x, u)
      BY <2>1 DEF IsTask
    <3>. QED
      BY <1>1, <1>2, <1>3, <1>6, <1>7, <2>1, <3>2, <3>3 DEF Ahead
  <2>. QED
    BY <1>1, <2>1, InOrderStep
<1>10. Past'
  <2>1. \A u : IsTask(x, u) => u \in posted
    BY <1>2, <1>4 DEF Conserved, Placed, Live
  <2>. QED
    BY <1>1, <1>6, <2>1 DEF Conserved, Past
<1>11. Hands' /\ Deferred'
  BY <1>1 DEF Conserved, Hands, Deferred, Free
<1>. QED
  BY <1>8, <1>9, <1>10, <1>11 DEF Conserved

LEMMA MainDeferConserves ==
    ASSUME TypeOK, Conserved, MainDefer
    PROVE  Conserved'
<1>. DEFINE x == main.item
<1>1. /\ x \in Items /\ x.kind = "task" /\ queue_tasks_deferred \in Seq(Items)
      /\ queue_tasks_deferred' = Append(queue_tasks_deferred, x) /\ main' = Free("take")
      /\ was_deferred' = was_deferred \cup {x.task}
      /\ UNCHANGED <<queue_tasks, queue_tasks_unhandled, posted, order, done, dropped, worker>>
  BY HandTypes DEF MainDefer
<1>2. \A u : (InHand(main, u) <=> u = x.task) /\ (IsTask(x, u) <=> u = x.task)
  BY <1>1, InHandIs DEF IsTask
<1>3. \A u : ~InHand(main, u)'
  BY <1>1, NoneInHand DEF Free, InHand
<1>. HIDE DEF x
<1>4. \A u : /\ Holds(queue_tasks_deferred', u) <=> u = x.task \/ Holds(queue_tasks_deferred, u)
             /\ Once(queue_tasks_deferred, u) /\ ~(u = x.task /\ Holds(queue_tasks_deferred, u))
                  => Once(queue_tasks_deferred', u)
  BY <1>1, <1>2, BackDeque
<1>5. \A u : InHand(worker, u)' <=> InHand(worker, u)
  BY <1>1
<1>6. ASSUME NEW u \in Tasks
      PROVE  Placed(u)'
  BY <1>1, <1>2, <1>3, <1>4, <1>5 DEF Conserved, Placed, Live
<1>7. Orderly' /\ InOrder'
  <2>1. ASSUME NEW u, NEW v, Ahead(u, v)
        PROVE  Ahead(u, v)'
    BY <1>1, <1>3, <1>5, <2>1 DEF Ahead
  <2>. QED
    BY <1>1, <2>1, InOrderStep
<1>8. Deferred'
  BY <1>1, <1>4 DEF Conserved, Deferred
<1>9. Hands' /\ Past'
  BY <1>1 DEF Conserved, Hands, Past, Free
<1>. QED
  BY <1>6, <1>7, <1>8, <1>9 DEF Conserved

\* The released task goes to the front, before those posted ahead of it: it was deferred.
LEMMA MainReleaseConserves ==
    ASSUME TypeOK, Conserved, NEW s \in Slots, MainRelease(s)
    PROVE  Conserved'
<1>1. UNCHANGED <<queue_tasks_unhandled, posted, order, done, dropped, was_deferred, main, worker>>
  BY DEF MainRelease, history
<1>2. CASE queue_tasks_deferred = <<>>
  <2>1. UNCHANGED queues
    BY <1>1, <1>2 DEF MainRelease, queues
  <2>2. Hands'
    BY <1>1 DEF Conserved, Hands
  <2>. QED
    BY <1>1, <2>1, <2>2, Unmoved
<1>3. CASE queue_tasks_deferred # <<>>
  <2>. DEFINE i == PopIndex(queue_tasks_deferred, s)
              x == queue_tasks_deferred[i]
  <2>1. i \in DOMAIN queue_tasks_deferred
    BY <1>3, HandTypes, PopIndexType, LenProperties
  <2>2. queue_tasks' = <<x>> \o queue_tasks /\ queue_tasks_deferred' = RemoveAt(queue_tasks_deferred, i)
    BY <1>3 DEF MainRelease
  <2>. HIDE DEF i
  <2>3. /\ x \in Items
        /\ \A t : /\ Holds(queue_tasks_deferred, t) <=> IsTask(x, t) \/ Holds(queue_tasks_deferred', t)
                  /\ Once(queue_tasks_deferred, t) =>
                        Once(queue_tasks_deferred', t) /\ ~(IsTask(x, t) /\ Holds(queue_tasks_deferred', t))
    BY <2>1, <2>2, HandTypes, RemoveDeque
  <2>. HIDE DEF x
  <2>4. /\ \A t : /\ Holds(queue_tasks', t) <=> IsTask(x, t) \/ Holds(queue_tasks, t)
                  /\ Once(queue_tasks, t) /\ ~(IsTask(x, t) /\ Holds(queue_tasks, t)) => Once(queue_tasks', t)
        /\ \A t, u : Before(queue_tasks, t, u) /\ ~IsTask(x, u) => Before(queue_tasks', t, u)
    BY <2>2, <2>3, HandTypes, FrontDeque
  <2>5. \A u : (InHand(main, u)' <=> InHand(main, u)) /\ (InHand(worker, u)' <=> InHand(worker, u))
    BY <1>1
  <2>6. ASSUME NEW u \in Tasks
        PROVE  Placed(u)'
    BY <1>1, <2>3, <2>4, <2>5 DEF Conserved, Placed, Live
  <2>7. Orderly' /\ InOrder'
    <3>1. ASSUME NEW u \in Tasks \ (Light \cup was_deferred'), NEW v \in Tasks \ (Light \cup was_deferred'), Ahead(u, v)
          PROVE  Ahead(u, v)'
      <4>1. ~IsTask(x, u) /\ ~IsTask(x, v)
        BY <1>1, <2>3, <3>1 DEF Conserved, Deferred
      <4>2. Before(queue_tasks', u, v) /\ (Holds(queue_tasks', u) <=> Holds(queue_tasks, u))
        BY <2>4, <3>1, <4>1 DEF Ahead
      <4>. QED
        BY <1>1, <2>5, <3>1, <4>2 DEF Ahead
    <3>. QED
      BY <1>1, <3>1, InOrderStep
  <2>8. Deferred'
    BY <1>1, <2>3 DEF Conserved, Deferred
  <2>9. Hands' /\ Past'
    BY <1>1 DEF Conserved, Hands, Past
  <2>. QED
    BY <2>6, <2>7, <2>8, <2>9 DEF Conserved
<1>. QED
  BY <1>2, <1>3

\* The declined tasks go back to the front, in their order: they are ahead of the queue's.
LEMMA RejoinConserves ==
    ASSUME TypeOK, Owned, Conserved, ~busy, main.item = NoItem, NEW threw, Rejoin(threw),
           UNCHANGED <<queue_tasks_deferred, worker, history>>
    PROVE  Conserved'
<1>1. /\ UNCHANGED <<queue_tasks_deferred, posted, order, done, dropped, was_deferred, worker>>
      /\ main'.item = NoItem
      /\ queue_tasks' = queue_tasks_unhandled \o queue_tasks /\ queue_tasks_unhandled' = <<>>
  BY DEF Rejoin, history, Free
<1>2. \A u : ~InHand(main, u) /\ ~InHand(worker, u) /\ ~InHand(main, u)' /\ ~InHand(worker, u)'
  BY <1>1, MainAlone, NoneInHand DEF InHand
<1>3. \A t : ~Holds(queue_tasks_unhandled', t) /\ Once(queue_tasks_unhandled', t) /\ \A u : Before(queue_tasks_unhandled', t, u)
  BY <1>1, EmptyDeque
<1>4. /\ \A t : /\ Holds(queue_tasks', t) <=> Holds(queue_tasks_unhandled, t) \/ Holds(queue_tasks, t)
                /\ /\ Once(queue_tasks_unhandled, t) /\ Once(queue_tasks, t)
                   /\ ~(Holds(queue_tasks_unhandled, t) /\ Holds(queue_tasks, t))
                   => Once(queue_tasks', t)
      /\ \A t, u : /\ Before(queue_tasks_unhandled, t, u) /\ Before(queue_tasks, t, u)
                   /\ ~(Holds(queue_tasks_unhandled, u) /\ Holds(queue_tasks, t))
                   => Before(queue_tasks', t, u)
  BY <1>1, HandTypes, ConcatDeque
<1>5. ASSUME NEW u \in Tasks
      PROVE  Placed(u)'
  BY <1>1, <1>2, <1>3, <1>4 DEF Conserved, Placed, Live
<1>6. Orderly' /\ InOrder'
  <2>1. ASSUME NEW u, NEW v, Ahead(u, v)
        PROVE  Ahead(u, v)'
    <3>1. Before(queue_tasks', u, v)
      BY <1>4, <2>1 DEF Ahead
    <3>2. Before(queue_tasks_unhandled', u, v)
      BY <1>3
    <3>. QED
      BY <1>1, <1>2, <1>3, <1>4, <2>1, <3>1, <3>2 DEF Ahead
  <2>. QED
    BY <1>1, <2>1, InOrderStep
<1>7. Hands' /\ Past' /\ Deferred'
  BY <1>1 DEF Conserved, Hands, Past, Deferred
<1>. QED
  BY <1>5, <1>6, <1>7 DEF Conserved

LEMMA MainConserves ==
    ASSUME TypeOK, Owned, Conserved, MainStep
    PROVE  Conserved'
<1>1. CASE StartLoop
  <2>1. UNCHANGED <<queues, posted, order, done, dropped, was_deferred>>
    BY <1>1 DEF StartLoop, history
  <2>2. main.item = NoItem /\ worker.item = NoItem
    BY <1>1, MainAlone DEF StartLoop, Owned, Ownership, InYield, Conserved, Hands
  <2>3. main'.item = NoItem /\ worker'.item = NoItem
    BY <1>1 DEF StartLoop, Free
  <2>4. Hands'
    BY <2>3 DEF Hands
  <2>. QED
    BY <2>1, <2>2, <2>3, <2>4, Unmoved
<1>2. CASE YieldBegin \/ UpdateEnd \/ MainIdle \/ MainNap \/ MainSleep \/ MainStop \/ MainJoin
  <2>1. UNCHANGED <<queues, posted, order, done, dropped, was_deferred, worker>>
    BY <1>2 DEF YieldBegin, UpdateEnd, MainIdle, MainNap, MainSleep, MainStop, MainJoin, history
  <2>2. main.item = NoItem
    BY <1>2 DEF YieldBegin, UpdateEnd, MainIdle, MainNap, MainSleep, MainStop, MainJoin, Conserved, Hands
  <2>3. main'.item = NoItem
    BY <1>2, <2>2 DEF YieldBegin, UpdateEnd, MainIdle, MainNap, MainSleep, MainStop, MainJoin, WakeUp, Free
  <2>4. Hands'
    BY <2>1, <2>3 DEF Conserved, Hands
  <2>. QED
    BY <2>1, <2>2, <2>3, <2>4, Unmoved
<1>3. CASE (\E threw \in BOOLEAN : YieldEnd(threw)) \/ YieldRejoin
  <2>1. main.item = NoItem /\ UNCHANGED <<queue_tasks_deferred, worker, history>>
    BY <1>3 DEF YieldEnd, YieldRejoin, Conserved, Hands
  <2>2. CASE busy
    <3>1. UNCHANGED queues /\ main'.item = NoItem
      <4>1. CASE YieldRejoin
        BY <2>1, <2>2, <4>1 DEF YieldRejoin, queues
      <4>2. ASSUME NEW threw \in BOOLEAN, YieldEnd(threw)
            PROVE  UNCHANGED queues /\ main'.item = NoItem
        <5>1. UNCHANGED queues
          BY <2>1, <2>2, <4>2 DEF YieldEnd, queues
        <5>2. \E pc : main' = Free(pc)
          BY <2>2, <4>2, Zenon DEF YieldEnd
        <5>. QED
          BY <5>1, <5>2 DEF Free
      <4>. QED
        BY <1>3, <4>1, <4>2
    <3>2. Hands'
      BY <2>1, <3>1 DEF Conserved, Hands
    <3>. QED
      BY <2>1, <3>1, <3>2, Unmoved DEF history
  <2>3. CASE ~busy
    <3>1. \E threw : Rejoin(threw)
      BY <1>3, <2>3 DEF YieldEnd, YieldRejoin
    <3>. QED
      BY <2>1, <2>3, <3>1, RejoinConserves
  <2>. QED
    BY <2>2, <2>3
<1>. QED
  BY <1>1, <1>2, <1>3, MainTakeConserves, MainAcceptConserves, MainDeferConserves, MainReleaseConserves
     DEF MainStep, MainCallback

-----------------------------------------------------------------------------
(* The theorems.                                                           *)

LEMMA ConservedInvariant == Spec => []Conserved
<1>1. Init => Conserved
  <2>. SUFFICES ASSUME Init PROVE Conserved
    OBVIOUS
  <2>1. /\ \A t : ~InHand(main, t) /\ ~InHand(worker, t)
        /\ posted = {} /\ dropped = {} /\ Range(done) = {} /\ DOMAIN order = {}
        /\ queue_tasks = <<>> /\ queue_tasks_deferred = <<>> /\ queue_tasks_unhandled = <<>>
    BY NoneInHand DEF Init, Range
  <2>2. Hands /\ Past /\ Orderly /\ InOrder
    BY <2>1 DEF Init, Hands, Past, Orderly, InOrder
  <2>3. Deferred /\ \A t \in Tasks : Placed(t)
    BY <2>1, EmptyDeque DEF Deferred, Placed, Live
  <2>. QED
    BY <2>2, <2>3 DEF Conserved
<1>2. TypeOK /\ Owned /\ Conserved /\ [Next]_vars => Conserved'
  <2>. SUFFICES ASSUME TypeOK, Owned, Conserved, [Next]_vars
                PROVE  Conserved'
    OBVIOUS
  <2>1. CASE Terminate \/ Tick \/ UNCHANGED vars
    <3>1. UNCHANGED <<queues, posted, order, done, dropped, was_deferred, main, worker>>
      BY <2>1 DEF Terminate, Tick, vars, history
    <3>2. Hands'
      BY <3>1 DEF Conserved, Hands
    <3>. QED
      BY <3>1, <3>2, Unmoved
  <2>. QED
    BY <2>1, ClientConserves, WorkerConserves, MainConserves DEF Next
<1>. QED
  BY <1>1, <1>2, TypeCorrect, OwnedInvariant, PTL DEF Spec

\* A deque that holds a task at most once holds it as often as it holds it at all.
LEMMA CountIs ==
    ASSUME NEW q, NEW t, Once(q, t)
    PROVE  Cardinality({i \in DOMAIN q : q[i].kind = "task" /\ q[i].task = t}) = IF Holds(q, t) THEN 1 ELSE 0
<1>. DEFINE I == {i \in DOMAIN q : q[i].kind = "task" /\ q[i].task = t}
<1>1. CASE Holds(q, t)
  <2>1. PICK i \in DOMAIN q : q[i].kind = "task" /\ q[i].task = t
    BY <1>1 DEF Holds
  <2>2. \A j \in I : j = i
    BY <2>1 DEF Once, IsTask
  <2>3. I = {i}
    BY <2>1, <2>2
  <2>. QED
    BY <1>1, <2>3, FS_Singleton
<1>2. CASE ~Holds(q, t)
  <2>1. I = {}
    BY <1>2 DEF Holds
  <2>. QED
    BY <1>2, <2>1, FS_EmptySet
<1>. QED
  BY <1>1, <1>2

(* No move of a task between the three deques and the hands of the two     *)
(* threads, no cancel and no exception loses or duplicates it: a posted    *)
(* task is in exactly one place until it is done or dropped.               *)
THEOREM TasksAreConserved == Spec => []NoTaskLost
<1>1. Conserved => NoTaskLost
  <2>. SUFFICES ASSUME Conserved, NEW t \in Tasks
                PROVE  Places(t) = IF Live(t) THEN 1 ELSE 0
    BY Zenon DEF NoTaskLost, Live
  <2>. DEFINE n(q) == Cardinality({i \in DOMAIN q : q[i].kind = "task" /\ q[i].task = t})
              h(th) == IF InHand(th, t) THEN 1 ELSE 0
  <2>1. Placed(t)
    BY DEF Conserved
  <2>2. /\ n(queue_tasks) = IF Holds(queue_tasks, t) THEN 1 ELSE 0
        /\ n(queue_tasks_deferred) = IF Holds(queue_tasks_deferred, t) THEN 1 ELSE 0
        /\ n(queue_tasks_unhandled) = IF Holds(queue_tasks_unhandled, t) THEN 1 ELSE 0
    <3>1. Once(queue_tasks, t) /\ Once(queue_tasks_deferred, t) /\ Once(queue_tasks_unhandled, t)
      BY <2>1 DEF Placed
    <3>. QED
      BY <3>1, CountIs
  <2>3. Places(t) = n(queue_tasks) + n(queue_tasks_deferred) + n(queue_tasks_unhandled) + h(main) + h(worker)
    BY Zenon DEF Places
  <2>. HIDE DEF n
  <2>. QED
    BY <2>1, <2>2, <2>3 DEF Placed
<1>. QED
  BY <1>1, ConservedInvariant, PTL

(* Tasks posted to the back of the queue are done in that order, whatever  *)
(* the worker declined and put back meanwhile, unless a task was dropped   *)
(* or had to be deferred.                                                  *)
THEOREM TasksKeepTheirOrder == Spec => []ServedInOrder
<1>1. TypeOK /\ Conserved => ServedInOrder
  <2>. SUFFICES ASSUME TypeOK, Conserved, NEW i \in DOMAIN order, NEW j \in DOMAIN order, i < j,
                       order[j] \in Range(done), {order[i], order[j]} \cap was_deferred = {},
                       order[i] \notin dropped
                PROVE  \E a, b \in DOMAIN done : a < b /\ done[a] = order[i] /\ done[b] = order[j]
    BY DEF ServedInOrder
  <2>. DEFINE t == order[i]
              u == order[j]
  <2>1. Ahead(t, u)
    BY DEF Conserved, InOrder
  <2>2. t \in Tasks /\ t \in posted /\ t \notin was_deferred /\ t \notin dropped /\ u \in Range(done)
    BY ElementOfSeq DEF TypeOK, HistoryOK, Conserved, Orderly
  <2>. HIDE DEF t, u
  <2>3. t \in Range(done)
    <3>1. /\ ~InHand(main, t) /\ ~InHand(worker, t) /\ ~Holds(queue_tasks_unhandled, t)
          /\ ~Holds(queue_tasks, t) /\ ~Holds(queue_tasks_deferred, t)
      BY <2>1, <2>2 DEF Ahead, Conserved, Deferred
    <3>. QED
      BY <2>2, <3>1 DEF Conserved, Placed, Live
  <2>4. PICK a \in DOMAIN done : done[a] = t
    BY <2>3 DEF Range
  <2>5. PICK b \in DOMAIN done : done[b] = u
    BY <2>2 DEF Range
  <2>6. a < b
    BY <2>1, <2>4, <2>5 DEF Ahead
  <2>. QED
    BY <2>4, <2>5, <2>6 DEF t, u
<1>. QED
  BY <1>1, TypeCorrect, ConservedInvariant, PTL
=============================================================================
