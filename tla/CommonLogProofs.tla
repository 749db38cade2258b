-------------------------- MODULE CommonLogProofs --------------------------
(***************************************************************************)
(* Theorems of CommonLog, for any set of producers, any capacity and any   *)
(* number of calls and pauses.                                             *)
(***************************************************************************)
EXTENDS CommonLog, Integers, SequenceTheorems, TLAPS

\* The d-th slot after slot i, and how many slots b is after a.
Plus(i, d) == IF i + d < Capacity THEN i + d ELSE i + d - Capacity
Dist(a, b) == IF a <= b THEN b - a ELSE b - a + Capacity

\* The next slot to print, how many messages are in the ring, and whether the end entry is.
At      == IF worker.pc = "flushing" THEN worker.h ELSE head
Pending == Len(accepted) - Len(printed)
Ending  == control = "joining" /\ ~worker.stop
Ends    == IF Ending THEN 1 ELSE 0

\* What was accepted and not printed is in the ring, in order, from At on; then the end entry.
Ring ==
    /\ tail = Plus(At, Pending + Ends)
    /\ Dist(head, At) + Pending < Capacity
    /\ \A j \in 0 .. Pending - 1 :
          /\ queue[Plus(At, j)] = [msg |-> accepted[Len(printed) + 1 + j][1], is_end |-> FALSE]
          /\ accepted[Len(printed) + 1 + j][2] = file
    /\ Ending => queue[Plus(At, Pending)].is_end

\* What the worker is printing is a part of that.
Flushing ==
    worker.pc = "flushing" =>
        /\ Dist(head, worker.h) + Dist(worker.h, worker.end) < Capacity
        /\ Dist(worker.h, worker.end) <= Pending + Ends

\* The pauses and the worker thread.
Phases ==
    /\ running <=> control = "up"
    /\ worker.pc = "none" <=> control = "down"
    /\ control = "down" => Pending = 0
    /\ worker.stop => worker.pc \in {"flushing", "exited"} /\ control = "joining" /\ Pending = 0
    /\ worker.pc = "exited" => worker.stop
    /\ \A p \in Producers : producer[p] # "idle" => calls[p] >= 1

Prefix ==
    /\ Len(printed) <= Len(accepted)
    /\ \A i \in 1 .. Len(printed) : printed[i] = accepted[i]

Inv == TypeOK /\ Prefix /\ Ring /\ Flushing /\ Phases

-----------------------------------------------------------------------------
(* Arithmetic of the ring.                                                 *)

LEMMA SuccIs ==
    ASSUME NEW i \in Slots
    PROVE  Succ(i) = Plus(i, 1)
<1>1. CASE i + 1 < Capacity
  BY <1>1, CapacityAssumption DEF Succ, Plus, Slots
<1>2. CASE i + 1 = Capacity
  BY <1>2, CapacityAssumption DEF Succ, Plus, Slots
<1> QED BY <1>1, <1>2, CapacityAssumption DEF Slots

LEMMA PlusSlot ==
    ASSUME NEW i \in Slots, NEW d \in 0 .. Capacity
    PROVE  Plus(i, d) \in Slots
BY CapacityAssumption DEF Plus, Slots

LEMMA PlusSucc ==
    ASSUME NEW i \in Slots, NEW d \in 0 .. Capacity - 1
    PROVE  /\ Succ(Plus(i, d)) = Plus(i, d + 1)
           /\ Plus(Succ(i), d) = Plus(i, d + 1)
<1>1. Plus(i, d) \in Slots
  BY PlusSlot, CapacityAssumption
<1>2. Succ(Plus(i, d)) = Plus(Plus(i, d), 1) /\ Succ(i) = Plus(i, 1)
  BY <1>1, SuccIs
<1> QED BY <1>2, CapacityAssumption DEF Plus, Slots

LEMMA PlusPlus ==
    ASSUME NEW i \in Slots, NEW c \in Nat, NEW d \in Nat, c + d <= Capacity, c < Capacity
    PROVE  Plus(Plus(i, c), d) = Plus(i, c + d)
BY CapacityAssumption DEF Plus, Slots

LEMMA PlusInjective ==
    ASSUME NEW i \in Slots, NEW c \in 0 .. Capacity - 1, NEW d \in 0 .. Capacity - 1, c # d
    PROVE  Plus(i, c) # Plus(i, d)
BY CapacityAssumption DEF Plus, Slots

LEMMA DistIs ==
    ASSUME NEW i \in Slots, NEW j \in Slots
    PROVE  /\ Dist(i, j) \in 0 .. Capacity - 1
           /\ Plus(i, Dist(i, j)) = j
           /\ Dist(i, j) = 0 <=> i = j
           /\ i # j => Dist(Succ(i), j) = Dist(i, j) - 1
           /\ Dist(i, j) + 1 < Capacity => Dist(i, Succ(j)) = Dist(i, j) + 1
           /\ \A d \in 0 .. Capacity - 1 : j = Plus(i, d) => Dist(i, j) = d
           /\ \A d \in 0 .. Capacity : j = Plus(i, d) /\ i # j => Dist(i, j) = d
<1>1. Succ(i) = Plus(i, 1) /\ Succ(j) = Plus(j, 1)
  BY SuccIs
<1> QED BY <1>1, CapacityAssumption DEF Plus, Slots, Dist

-----------------------------------------------------------------------------
(* The invariant holds at the start and is kept by every step.             *)

LEMMA Counts ==
    ASSUME TypeOK, Prefix
    PROVE  /\ Len(accepted) \in Nat /\ Len(printed) \in Nat /\ Pending \in Nat
           /\ Ends \in {0, 1} /\ (Ends = 1 <=> Ending) /\ At \in Slots
           /\ Pending = 0 => printed = accepted
<1>1. Len(accepted) \in Nat /\ Len(printed) \in Nat
  BY DEF TypeOK
<1>2. Pending = 0 => printed = accepted
  BY SeqEqual, <1>1 DEF TypeOK, Prefix, Pending
<1> QED BY <1>1, <1>2 DEF TypeOK, Prefix, Pending, Ends, At

LEMMA InvInit == Init => Inv
<1> SUFFICES ASSUME Init PROVE Inv
  OBVIOUS
<1>1. TypeOK
  <2>1. queue \in [Slots -> Entries] /\ calls \in [Producers -> 0 .. MaxAdds]
    BY BoundsAssumption DEF Init, Entries
  <2>2. 0 \in Slots /\ file \in Files /\ pauses \in 0 .. MaxPauses
    BY CapacityAssumption, BoundsAssumption DEF Init, Slots, Files
  <2>3. accepted \in Seq(Messages \X Files) /\ printed \in Seq(Messages \X Files)
    BY DEF Init
  <2> QED BY <2>1, <2>2, <2>3 DEF Init, TypeOK, Started, NoWorker
<1>2. Prefix
  BY DEF Init, Prefix
<1>3. Pending = 0 /\ Ends = 0 /\ At = 0 /\ ~Ending
  BY DEF Init, Pending, Ends, Ending, At, Started, NoWorker
<1>4. Ring
  BY <1>3, CapacityAssumption DEF Init, Ring, Plus, Dist
<1>5. Flushing /\ Phases
  BY DEF Init, Flushing, Phases, Started, NoWorker
<1> QED BY <1>1, <1>2, <1>4, <1>5 DEF Inv

\* Ring and Prefix do not see what a step does elsewhere.
LEMMA Unseen ==
    ASSUME Inv, UNCHANGED <<queue, head, tail, file, accepted, printed>>, At' = At, Ending' = Ending
    PROVE  Ring' /\ Prefix' /\ Pending' = Pending /\ Ends' = Ends
<1>1. Pending' = Pending /\ Ends' = Ends
  BY DEF Pending, Ends
<1> QED BY <1>1 DEF Inv, Ring, Prefix

LEMMA AddKeeps ==
    ASSUME Inv, NEW p \in Producers, AddCall(p) \/ AddBlock(p) \/ AddDiscard(p)
    PROVE  Inv'
<1> USE DEF AddCall, AddBlock, AddDiscard
<1>1. TypeOK'
  <2>1. CASE AddCall(p)
    <3>1. calls' \in [Producers -> 0 .. MaxAdds]
      BY <2>1, BoundsAssumption DEF Inv, TypeOK
    <3> QED BY <2>1, <3>1 DEF Inv, TypeOK
  <2>2. CASE AddBlock(p)
    BY <2>2 DEF Inv, TypeOK
  <2>3. CASE AddDiscard(p)
    BY <2>3 DEF Inv, TypeOK
  <2> QED BY <2>1, <2>2, <2>3
<1>2. At' = At /\ Ending' = Ending
  BY DEF At, Ending
<1>3. Ring' /\ Prefix' /\ Pending' = Pending /\ Ends' = Ends
  BY <1>2, Unseen
<1>4. Flushing'
  BY <1>3 DEF Inv, Flushing
<1>5. Phases'
  <2>1. \A q \in Producers : producer'[q] # "idle" => calls'[q] >= 1
    <3>1. \A q \in Producers : producer[q] # "idle" => calls[q] >= 1
      BY DEF Inv, Phases
    <3>2. calls[p] \in Nat /\ calls \in [Producers -> 0 .. MaxAdds]
          /\ producer \in [Producers -> {"idle", "asleep", "awake"}]
      BY BoundsAssumption DEF Inv, TypeOK
    <3>3. CASE AddCall(p)
      BY <3>1, <3>2, <3>3
    <3>4. CASE AddBlock(p) \/ AddDiscard(p)
      BY <3>1, <3>2, <3>4
    <3> QED BY <3>3, <3>4
  <2> QED BY <1>3, <2>1 DEF Inv, Phases
<1> QED BY <1>1, <1>3, <1>4, <1>5 DEF Inv

LEMMA WriteKeeps ==
    ASSUME Inv, NEW p \in Producers, AddWrite(p)
    PROVE  Inv'
<1> DEFINE m == <<p, calls[p]>>
           n == Pending
<1>0. /\ n \in Nat /\ Len(accepted) \in Nat /\ Len(printed) \in Nat /\ At \in Slots /\ head \in Slots /\ tail \in Slots
      /\ Capacity \in Nat /\ Ends = 0 /\ ~Ending /\ control = "up" /\ ~worker.stop
  BY Counts, CapacityAssumption DEF Inv, Phases, AddWrite, Ending, TypeOK
<1>1. m \in Messages
  BY DEF Inv, TypeOK, Phases, AddWrite, Messages
<1>2. /\ accepted' = Append(accepted, <<m, file>>) /\ <<m, file>> \in Messages \X Files
      /\ Len(accepted') = Len(accepted) + 1
      /\ \A i \in 1 .. Len(accepted) : accepted'[i] = accepted[i]
      /\ accepted'[Len(accepted) + 1] = <<m, file>>
      /\ accepted' \in Seq(Messages \X Files)
  <2>1. accepted' = Append(accepted, <<m, file>>) /\ <<m, file>> \in Messages \X Files
    BY <1>1 DEF Inv, TypeOK, AddWrite
  <2> HIDE DEF m
  <2> QED BY <2>1, AppendProperties DEF Inv, TypeOK
<1>3. n' = n + 1 /\ At' = At /\ Ending' = Ending /\ Ends' = Ends
  BY <1>0, <1>2 DEF Pending, At, Ending, Ends, AddWrite, WakeWorker, Inv, TypeOK
<1>4. tail = Plus(At, n) /\ n \in 0 .. Capacity - 1 /\ Dist(head, At) \in Nat /\ Dist(head, At) + n < Capacity
  <2>1. Dist(head, At) \in Nat
    BY <1>0, DistIs
  <2>2. tail = Plus(At, n + Ends) /\ Dist(head, At) + n < Capacity
    BY DEF Inv, Ring
  <2>3. n + Ends = n
    BY <1>0
  <2> QED BY <1>0, <2>1, <2>2, <2>3
<1>5. Dist(head, At) + n + 1 < Capacity
  <2>1. Dist(head, At) \in 0 .. Capacity - 1 /\ Plus(head, Dist(head, At)) = At
    BY <1>0, DistIs
  <2>2. tail = Plus(head, Dist(head, At) + n) /\ Dist(head, At) + n < Capacity
    BY <1>0, <1>4, <2>1, PlusPlus
  <2>3. Succ(tail) = Plus(head, Dist(head, At) + n + 1)
    BY <1>0, <2>1, <2>2, PlusSucc, CapacityAssumption
  <2>4. Succ(tail) # head
    BY DEF AddWrite, IsFull
  <2> QED BY <1>0, <2>1, <2>2, <2>3, <2>4, CapacityAssumption DEF Plus, Slots
<1>6. tail' = Plus(At, n + 1) /\ tail' \in Slots
  BY <1>0, <1>4, PlusSucc, PlusSlot, CapacityAssumption DEF AddWrite
<1>7. TypeOK'
  BY <1>1, <1>2, <1>6 DEF Inv, TypeOK, AddWrite, WakeWorker, Entries
<1>8. Prefix'
  BY <1>0, <1>2 DEF Inv, Prefix, AddWrite
<1>9. Ring'
  <2>1. ASSUME NEW j \in 0 .. n
        PROVE  /\ queue'[Plus(At, j)] = [msg |-> accepted'[Len(printed) + 1 + j][1], is_end |-> FALSE]
               /\ accepted'[Len(printed) + 1 + j][2] = file
    <3>0. queue' = [queue EXCEPT ![tail] = [msg |-> m, is_end |-> FALSE]] /\ queue \in [Slots -> Entries]
      BY DEF AddWrite, Inv, TypeOK
    <3>1. CASE j = n
      <4>1. Len(printed) + 1 + j = Len(accepted) + 1
        BY <1>0, <3>1 DEF Pending
      <4>2. queue'[tail] = [msg |-> m, is_end |-> FALSE]
        BY <1>0, <3>0
      <4>3. Plus(At, j) = tail
        BY <1>4, <3>1
      <4>4. accepted'[Len(printed) + 1 + j] = <<m, file>>
        BY <1>2, <4>1
      <4> HIDE DEF m
      <4> QED BY <4>2, <4>3, <4>4
    <3>2. CASE j # n
      <4>1. j \in 0 .. n - 1 /\ j \in 0 .. Capacity - 1
        BY <1>0, <1>4, <3>2
      <4>2. Plus(At, j) # tail /\ Plus(At, j) \in Slots
        BY <1>0, <1>4, <3>2, <4>1, PlusInjective, PlusSlot, CapacityAssumption
      <4>3. Len(printed) + 1 + j \in 1 .. Len(accepted)
        BY <1>0, <4>1 DEF Pending
      <4> QED BY <1>2, <3>0, <4>1, <4>2, <4>3 DEF Inv, Ring
    <3> QED BY <3>1, <3>2
  <2>2. n + 1 + Ends = n + 1 /\ n + 1 - 1 = n /\ Dist(head, At) + (n + 1) < Capacity
    BY <1>0, <1>4, <1>5
  <2>3. head' = head /\ file' = file /\ printed' = printed
    BY DEF AddWrite
  <2>4. Dist(head, At)' = Dist(head, At)
    BY <1>3, <2>3 DEF Dist
  <2>5. tail' = Plus(At', Pending' + Ends') /\ (Dist(head, At) + Pending)' < Capacity
    BY <1>3, <1>6, <2>2, <2>4
  <2>6. Pending' - 1 = n
    BY <1>0, <1>3
  <2> QED BY <1>0, <1>3, <2>1, <2>3, <2>5, <2>6 DEF Ring, Plus
<1>10. Flushing'
  <2>1. worker'.pc = "flushing" => worker' = worker
    BY DEF AddWrite, WakeWorker, Inv, TypeOK
  <2>2. worker.pc = "flushing" => Dist(worker.h, worker.end) \in Nat
    BY DistIs DEF Inv, TypeOK
  <2>3. head' = head
    BY DEF AddWrite
  <2> QED BY <1>0, <1>3, <2>1, <2>2, <2>3 DEF Inv, Flushing
<1>11. Phases'
  BY <1>0, <1>3 DEF Inv, Phases, AddWrite, WakeWorker, TypeOK
<1> QED BY <1>7, <1>8, <1>9, <1>10, <1>11 DEF Inv

LEMMA SleepTakeKeeps ==
    ASSUME Inv, WorkerSleep \/ WorkerTake
    PROVE  Inv'
<1>0. /\ Pending \in Nat /\ Ends \in {0, 1} /\ head \in Slots /\ tail \in Slots /\ Capacity \in Nat
      /\ worker.pc = "locking" /\ At = head /\ ~worker.stop
  BY Counts, CapacityAssumption DEF Inv, Phases, WorkerSleep, WorkerTake, TypeOK, At
<1>1. TypeOK'
  <2>1. CASE WorkerSleep
    BY <2>1 DEF Inv, TypeOK, WorkerSleep
  <2>2. CASE WorkerTake
    BY <2>2 DEF Inv, TypeOK, WorkerTake
  <2> QED BY <2>1, <2>2
<1>2. At' = At /\ Ending' = Ending
  BY <1>0 DEF At, Ending, WorkerSleep, WorkerTake, Inv, TypeOK
<1>3. Ring' /\ Prefix' /\ Pending' = Pending /\ Ends' = Ends
  BY <1>2, Unseen DEF WorkerSleep, WorkerTake
<1>4. Flushing'
  <2>1. CASE WorkerSleep
    BY <2>1 DEF WorkerSleep, Flushing, Inv, TypeOK
  <2>2. CASE WorkerTake
    <3>1. worker'.h = head /\ worker'.end = tail /\ head' = head /\ head # tail
      BY <2>2 DEF WorkerTake, IsEmpty
    <3>2. Dist(head, head) = 0 /\ Dist(head, tail) \in 0 .. Capacity - 1
      BY <1>0, DistIs
    <3>3. tail = Plus(head, Pending + Ends) /\ Dist(head, head) + Pending < Capacity
      BY <1>0 DEF Inv, Ring
    <3>4. Pending + Ends \in 0 .. Capacity
      BY <1>0, <3>2, <3>3
    <3>5. Dist(head, tail) = Pending + Ends
      BY <1>0, <3>1, <3>3, <3>4, DistIs
    <3> QED BY <1>0, <1>3, <3>1, <3>2, <3>5 DEF Flushing
  <2> QED BY <2>1, <2>2
<1>5. Phases'
  BY <1>0, <1>3 DEF Inv, Phases, WorkerSleep, WorkerTake, TypeOK
<1> QED BY <1>1, <1>3, <1>4, <1>5 DEF Inv

LEMMA ReleaseKeeps ==
    ASSUME Inv, WorkerRelease
    PROVE  Inv'
<1>0. /\ Pending \in Nat /\ Ends \in {0, 1} /\ head \in Slots /\ tail \in Slots /\ worker.h \in Slots
      /\ worker.pc = "flushing" /\ At = worker.h /\ Capacity \in Nat
  BY Counts, CapacityAssumption DEF Inv, WorkerRelease, TypeOK, At
<1>1. /\ worker'.pc # "flushing" /\ worker'.pc = (IF worker.stop THEN "exited" ELSE "locking")
      /\ worker'.stop = worker.stop /\ head' = worker.h /\ control' = control
  BY DEF WorkerRelease, Inv, TypeOK
<1>2. At' = At /\ Ending' = Ending /\ Pending' = Pending /\ Ends' = Ends
  BY <1>0, <1>1 DEF At, Ending, Pending, Ends, WorkerRelease
<1>3. TypeOK'
  BY <1>0 DEF Inv, TypeOK, WorkerRelease, WakeProducers
<1>4. Prefix'
  BY DEF Inv, Prefix, WorkerRelease
<1>5. Ring'
  <2>1. Dist(head', At') = 0
    BY <1>0, <1>1, <1>2, DistIs
  <2>2. Pending < Capacity
    BY <1>0, DistIs DEF Inv, Ring
  <2>3. (Dist(head, At) + Pending)' < Capacity
    BY <1>0, <1>2, <2>1, <2>2
  <2> QED BY <1>2, <2>3 DEF Inv, Ring, WorkerRelease, Plus
<1>6. Flushing'
  BY <1>1 DEF Flushing
<1>7. Phases'
  <2>1. \A p \in Producers : producer'[p] # "idle" => producer[p] # "idle"
    BY DEF WorkerRelease, WakeProducers
  <2> QED BY <1>0, <1>1, <1>2, <2>1 DEF Inv, Phases, WorkerRelease
<1> QED BY <1>3, <1>4, <1>5, <1>6, <1>7 DEF Inv

LEMMA PrintKeeps ==
    ASSUME Inv, WorkerPrint
    PROVE  Inv'
<1> DEFINE n == Pending
           h == worker.h
<1>0. /\ n \in Nat /\ Ends \in {0, 1} /\ (Ends = 1 <=> Ending)
      /\ head \in Slots /\ tail \in Slots /\ h \in Slots /\ worker.end \in Slots /\ Capacity \in Nat
      /\ Len(accepted) \in Nat /\ Len(printed) \in Nat
      /\ worker.pc = "flushing" /\ ~worker.stop /\ h # worker.end /\ At = h
  BY Counts, CapacityAssumption DEF Inv, WorkerPrint, TypeOK, At
<1>1. /\ worker' = [worker EXCEPT !.h = Succ(h), !.stop = queue[h].is_end]
      /\ worker'.pc = "flushing" /\ worker'.h = Succ(h) /\ worker'.stop = queue[h].is_end /\ worker'.end = worker.end
      /\ printed' = IF queue[h].is_end THEN printed ELSE Append(printed, <<queue[h].msg, file>>)
  BY DEF WorkerPrint, Inv, TypeOK
<1>2. /\ Dist(head, h) \in Nat /\ Dist(h, worker.end) \in Nat \ {0}
      /\ Dist(head, h) + Dist(h, worker.end) < Capacity /\ Dist(h, worker.end) <= n + Ends
      /\ Dist(Succ(h), worker.end) = Dist(h, worker.end) - 1
      /\ Dist(head, Succ(h)) = Dist(head, h) + 1
  <2>1. Dist(head, h) + Dist(h, worker.end) < Capacity /\ Dist(h, worker.end) <= n + Ends
    BY <1>0 DEF Inv, Flushing
  <2>2. Dist(head, h) \in Nat /\ Dist(h, worker.end) \in Nat /\ Dist(h, worker.end) # 0
        /\ Dist(Succ(h), worker.end) = Dist(h, worker.end) - 1
    BY <1>0, DistIs
  <2>3. Dist(head, Succ(h)) = Dist(head, h) + 1
    <3>1. Dist(head, h) + 1 < Capacity
      BY <1>0, <2>1, <2>2
    <3> QED BY <1>0, <3>1, DistIs
  <2> QED BY <2>1, <2>2, <2>3
<1>3. tail = Plus(h, n + Ends) /\ Dist(head, h) + n < Capacity /\ n + Ends \in 0 .. Capacity
  BY <1>0, <1>2 DEF Inv, Ring
<1>4. Plus(h, 0) = h /\ Succ(h) \in Slots
  BY <1>0, SuccIs, PlusSlot, CapacityAssumption DEF Plus, Slots
<1>5. At' = Succ(h)
  BY <1>1 DEF At
<1>6. ASSUME NEW d \in 0 .. Capacity - 1
      PROVE  Plus(Succ(h), d) = Plus(h, d + 1)
  BY <1>0, <1>6, PlusSucc
<1>7. UNCHANGED <<queue, head, tail, running, file, producer, calls, control, reopen, pauses, accepted>>
  BY DEF WorkerPrint
<1>8. CASE queue[h].is_end
  <2>1. n = 0 /\ Ends = 1
    <3>1. ASSUME n # 0 PROVE FALSE
      <4>1. 0 \in 0 .. n - 1
        BY <1>0, <3>1
      <4>2. queue[Plus(At, 0)] = [msg |-> accepted[Len(printed) + 1 + 0][1], is_end |-> FALSE]
        BY <4>1 DEF Inv, Ring
      <4>3. queue[h].is_end = FALSE
        BY <1>0, <1>4, <4>2
      <4> QED BY <1>8, <4>3
    <3>2. 1 <= Ends
      BY <1>0, <1>2, <3>1
    <3> QED BY <1>0, <3>1, <3>2
  <2>2. printed' = printed /\ Pending' = 0 /\ ~Ending' /\ Ends' = 0
    BY <1>1, <1>7, <1>8, <2>1 DEF Pending, Ending, Ends
  <2>3. TypeOK'
    BY <1>1, <1>4, <1>7, <1>8, <2>2 DEF Inv, TypeOK
  <2>4. Prefix'
    BY <1>7, <2>2 DEF Inv, Prefix
  <2>5. Ring'
    <3>1. tail = Plus(Succ(h), 0)
      BY <1>0, <1>3, <1>6, <2>1, CapacityAssumption
    <3>2. Dist(head, Succ(h)) < Capacity
      BY <1>0, <1>4, DistIs
    <3> QED BY <1>0, <1>2, <1>5, <1>7, <2>2, <3>1, <3>2 DEF Ring, Plus, Dist
  <2>6. Flushing'
    <3>1. Dist(h, worker.end) = 1
      BY <1>2, <2>1
    <3> QED BY <1>1, <1>2, <1>7, <2>2, <3>1 DEF Flushing, Dist
  <2>7. Phases'
    BY <1>0, <1>1, <1>7, <1>8, <2>1, <2>2 DEF Inv, Phases, Ending
  <2> QED BY <2>3, <2>4, <2>5, <2>6, <2>7 DEF Inv
<1>9. CASE ~queue[h].is_end
  <2>1. n # 0
    <3>1. n = 0 => Ending /\ queue[Plus(h, 0)].is_end
      BY <1>0, <1>2 DEF Inv, Ring
    <3> QED BY <1>4, <1>9, <3>1
  <2>2. accepted[Len(printed) + 1] = <<queue[h].msg, file>> /\ accepted[Len(printed) + 1] \in Messages \X Files
    <3>1. 0 \in 0 .. n - 1 /\ Len(printed) + 1 + 0 = Len(printed) + 1 /\ Len(printed) + 1 \in 1 .. Len(accepted)
      BY <1>0, <2>1 DEF Pending
    <3>2. /\ queue[h] = [msg |-> accepted[Len(printed) + 1][1], is_end |-> FALSE]
          /\ accepted[Len(printed) + 1][2] = file
      BY <1>0, <1>4, <3>1 DEF Inv, Ring
    <3>3. accepted[Len(printed) + 1] \in Messages \X Files
      BY <3>1 DEF Inv, TypeOK
    <3> QED BY <3>2, <3>3
  <2>3. /\ printed' = Append(printed, accepted[Len(printed) + 1]) /\ printed' \in Seq(Messages \X Files)
        /\ Len(printed') = Len(printed) + 1
        /\ \A i \in 1 .. Len(printed) : printed'[i] = printed[i]
        /\ printed'[Len(printed) + 1] = accepted[Len(printed) + 1]
    BY <1>1, <1>9, <2>2, AppendProperties DEF Inv, TypeOK
  <2>4. Pending' = n - 1 /\ ~worker'.stop /\ (Ending' <=> Ending) /\ Ends' = Ends
    BY <1>0, <1>1, <1>7, <1>9, <2>3 DEF Pending, Ending, Ends
  <2>5. TypeOK'
    <3>1. queue[h].is_end = FALSE
      BY <1>0, <1>9 DEF Inv, TypeOK, Entries
    <3>2. worker' = [worker EXCEPT !.h = Succ(h), !.stop = FALSE]
      BY <1>1, <3>1
    <3> QED BY <1>4, <1>7, <2>3, <3>2 DEF Inv, TypeOK
  <2>6. Prefix'
    BY <1>0, <1>7, <2>1, <2>3 DEF Inv, Prefix, Pending
  <2>7. Ring'
    <3>1. tail' = Plus(At', Pending' + Ends')
      <4>1. n - 1 + Ends \in 0 .. Capacity - 1 /\ n - 1 + Ends + 1 = n + Ends
        BY <1>0, <1>3, <2>1
      <4>2. tail' = Plus(Succ(h), n - 1 + Ends)
        BY <1>3, <1>6, <1>7, <4>1
      <4> QED BY <1>5, <2>4, <4>2
    <3>2. (Dist(head, At) + Pending)' < Capacity
      <4>1. Dist(head, Succ(h)) + (n - 1) < Capacity
        BY <1>0, <1>2, <1>3
      <4> QED BY <1>5, <1>7, <2>4, <4>1 DEF Dist
    <3>3. ASSUME NEW j \in 0 .. n - 2
          PROVE  /\ queue[Plus(Succ(h), j)] = [msg |-> accepted[Len(printed') + 1 + j][1], is_end |-> FALSE]
                 /\ accepted[Len(printed') + 1 + j][2] = file
      <4>1. j + 1 \in 0 .. n - 1 /\ j \in 0 .. Capacity - 1 /\ Len(printed') + 1 + j = Len(printed) + 1 + (j + 1)
        BY <1>0, <1>2, <1>3, <2>3, SMTT(30)
      <4>2. Plus(Succ(h), j) = Plus(h, j + 1)
        BY <1>6, <4>1
      <4> QED BY <1>0, <4>1, <4>2 DEF Inv, Ring
    <3>4. Ending' => queue[Plus(Succ(h), n - 1)].is_end
      <4>1. n - 1 \in 0 .. Capacity - 1 /\ n - 1 + 1 = n
        BY <1>0, <1>2, <1>3, <2>1
      <4>2. Plus(Succ(h), n - 1) = Plus(h, n)
        BY <1>6, <4>1
      <4> QED BY <1>0, <2>4, <4>2 DEF Inv, Ring
    <3>5. Pending' - 1 = n - 2
      BY <1>0, <2>4
    <3> QED BY <1>5, <1>7, <2>4, <3>1, <3>2, <3>3, <3>4, <3>5 DEF Ring, Plus
  <2>8. Flushing'
    <3>1. Dist(head, Succ(h)) + Dist(Succ(h), worker.end) < Capacity
      BY <1>0, <1>2
    <3>2. Dist(Succ(h), worker.end) <= n - 1 + Ends
      BY <1>0, <1>2
    <3> QED BY <1>1, <1>7, <2>4, <3>1, <3>2 DEF Flushing, Dist
  <2>9. Phases'
    BY <1>0, <1>1, <1>7, <2>4 DEF Inv, Phases
  <2> QED BY <2>5, <2>6, <2>7, <2>8, <2>9 DEF Inv
<1> QED BY <1>8, <1>9

LEMMA PauseBeginKeeps ==
    ASSUME Inv, NEW for_file \in BOOLEAN, PauseBegin(for_file)
    PROVE  Inv'
<1> DEFINE n == Pending
<1>0. /\ n \in Nat /\ Ends = 0 /\ ~Ending /\ ~worker.stop /\ control = "up" /\ Capacity \in Nat
      /\ Len(accepted) \in Nat /\ Len(printed) \in Nat
      /\ At \in Slots /\ head \in Slots /\ tail \in Slots /\ worker.pc # "exited"
  BY Counts, CapacityAssumption DEF Inv, Phases, PauseBegin, Ending, TypeOK
<1>1. /\ UNCHANGED <<head, file, calls, accepted, printed>> /\ queue' = [queue EXCEPT ![tail].is_end = TRUE]
      /\ tail' = Succ(tail) /\ control' = "joining" /\ ~running' /\ worker' = WakeWorker(worker)
  BY DEF PauseBegin
<1>2. /\ worker'.stop = worker.stop /\ worker'.h = worker.h /\ worker'.end = worker.end
      /\ worker'.pc = "flushing" <=> worker.pc = "flushing"
      /\ worker'.pc \notin {"none", "exited"}
      /\ worker'.pc = "flushing" => worker' = worker
  BY <1>0, <1>1 DEF WakeWorker, Inv, TypeOK, Phases
<1>3. At' = At /\ Pending' = n /\ Ending' /\ Ends' = 1
  BY <1>0, <1>1, <1>2 DEF At, Pending, Ending, Ends
<1>4. tail = Plus(At, n) /\ n \in 0 .. Capacity - 1 /\ Dist(head, At) + n < Capacity
  <2>1. Dist(head, At) \in Nat
    BY <1>0, DistIs
  <2>2. tail = Plus(At, n + Ends) /\ Dist(head, At) + n < Capacity
    BY DEF Inv, Ring
  <2>3. n + Ends = n
    BY <1>0
  <2> QED BY <1>0, <2>1, <2>2, <2>3
<1>5. tail' = Plus(At, n + 1) /\ tail' \in Slots
  BY <1>0, <1>1, <1>4, PlusSucc, PlusSlot, SMTT(30)
<1>6. queue' \in [Slots -> Entries]
  <2>1. queue \in [Slots -> Entries] /\ queue[tail] \in Entries
    BY <1>0 DEF Inv, TypeOK
  <2>2. [queue[tail] EXCEPT !.is_end = TRUE] \in Entries
    BY <2>1 DEF Entries
  <2> QED BY <1>1, <2>1, <2>2
<1>7. TypeOK'
  <2>1. worker' \in [pc : {"none", "locking", "asleep", "flushing", "exited"},
                     h : Slots, end : Slots, stop : BOOLEAN]
    BY <1>1 DEF Inv, TypeOK, WakeWorker
  <2>2. producer' \in [Producers -> {"idle", "asleep", "awake"}]
    BY DEF Inv, TypeOK, PauseBegin, WakeProducers
  <2>3. pauses' \in 0 .. MaxPauses /\ reopen' \in BOOLEAN /\ running' \in BOOLEAN
    <3>1. pauses \in 0 .. MaxPauses /\ pauses < MaxPauses /\ pauses' = pauses + 1
      BY DEF Inv, TypeOK, PauseBegin
    <3>2. reopen' = for_file /\ running' = FALSE
      BY DEF PauseBegin
    <3>3. pauses' \in 0 .. MaxPauses
      BY <3>1, BoundsAssumption
    <3>4. reopen' \in BOOLEAN /\ running' \in BOOLEAN
      BY <3>2
    <3> QED BY <3>3, <3>4
  <2> QED BY <1>1, <1>5, <1>6, <2>1, <2>2, <2>3 DEF Inv, TypeOK
<1>8. Prefix'
  BY <1>1 DEF Inv, Prefix
<1>9. Ring'
  <2>1. ASSUME NEW j \in 0 .. n - 1
        PROVE  queue'[Plus(At, j)] = queue[Plus(At, j)]
    <3>1. j \in 0 .. Capacity - 1 /\ j # n /\ j \in 0 .. Capacity
      BY <1>0, <1>4
    <3>2. Plus(At, j) \in Slots /\ Plus(At, j) # tail
      BY <1>0, <1>4, <3>1, PlusSlot, PlusInjective
    <3> QED BY <1>0, <1>1, <3>2 DEF Inv, TypeOK
  <2>2. queue'[Plus(At, n)].is_end
    <3>1. queue[tail] \in Entries
      BY <1>0 DEF Inv, TypeOK
    <3> QED BY <1>0, <1>1, <1>4, <3>1 DEF Inv, TypeOK, Entries
  <2> QED BY <1>1, <1>3, <1>4, <1>5, <2>1, <2>2 DEF Inv, Ring, Plus, Dist
<1>10. Flushing'
  <2>1. worker.pc = "flushing" => Dist(worker.h, worker.end) \in Nat
    BY DistIs DEF Inv, TypeOK
  <2> QED BY <1>0, <1>1, <1>2, <1>3, <2>1 DEF Inv, Flushing, Dist
<1>11. Phases'
  <2>1. \A p \in Producers : producer'[p] # "idle" => calls'[p] >= 1
    BY <1>1 DEF PauseBegin, WakeProducers, Inv, Phases
  <2>2. control' = "joining" /\ ~running' /\ ~worker'.stop /\ worker'.pc # "none" /\ worker'.pc # "exited"
    BY <1>0, <1>1, <1>2
  <2> QED BY <2>1, <2>2 DEF Phases
<1> QED BY <1>7, <1>8, <1>9, <1>10, <1>11 DEF Inv

LEMMA JoinResumeKeeps ==
    ASSUME Inv, PauseJoin \/ Resume
    PROVE  Inv'
<1>0. /\ Pending = 0 /\ Ends = 0 /\ ~Ending /\ worker.pc # "flushing" /\ At = head /\ head \in Slots
      /\ worker.pc \in {"none", "exited"}
  BY DEF Inv, Phases, PauseJoin, Resume, Ending, Ends, At, TypeOK
<1>1. /\ UNCHANGED <<queue, head, tail, producer, calls, pauses, accepted, printed>>
      /\ \/ control' = "down" /\ running' = FALSE /\ worker' = [pc |-> "none", h |-> 0, end |-> 0, stop |-> FALSE]
         \/ control' = "up" /\ running' = TRUE /\ worker' = [pc |-> "locking", h |-> 0, end |-> 0, stop |-> FALSE]
  <2>1. CASE PauseJoin
    BY <2>1 DEF PauseJoin, NoWorker, Inv, Phases, TypeOK
  <2>2. CASE Resume
    BY <2>2 DEF Resume, NoWorker, Started
  <2> QED BY <2>1, <2>2
<1>2. At' = head /\ ~Ending' /\ Ends' = 0 /\ Pending' = 0
  BY <1>0, <1>1 DEF At, Ending, Ends, Pending
<1>3. TypeOK'
  <2>1. file' \in Files
    <3>1. file \in Files /\ pauses \in Files /\ 0 \in Files
      BY BoundsAssumption DEF Inv, TypeOK, Files
    <3> QED BY <3>1 DEF PauseJoin, Resume
  <2>2. worker' \in [pc : {"none", "locking", "asleep", "flushing", "exited"},
                     h : Slots, end : Slots, stop : BOOLEAN]
    <3>1. 0 \in Slots
      BY CapacityAssumption DEF Slots
    <3>2. CASE worker' = [pc |-> "none", h |-> 0, end |-> 0, stop |-> FALSE]
      BY <3>1, <3>2
    <3>3. CASE worker' = [pc |-> "locking", h |-> 0, end |-> 0, stop |-> FALSE]
      BY <3>1, <3>3
    <3> QED BY <1>1, <3>2, <3>3
  <2>3. reopen' \in BOOLEAN /\ running' \in BOOLEAN /\ control' \in {"up", "joining", "down"}
    BY DEF PauseJoin, Resume, Inv, TypeOK
  <2> QED BY <1>1, <2>1, <2>2, <2>3 DEF Inv, TypeOK
<1>4. Prefix'
  BY <1>1 DEF Inv, Prefix
<1>5. Ring'
  BY <1>0, <1>1, <1>2 DEF Inv, Ring, Plus, Dist
<1>6. Flushing'
  BY <1>1 DEF Flushing
<1>7. Phases'
  <2>1. \A p \in Producers : producer'[p] # "idle" => calls'[p] >= 1
    BY <1>1 DEF Inv, Phases
  <2> QED BY <1>1, <1>2, <2>1 DEF Phases
<1> QED BY <1>3, <1>4, <1>5, <1>6, <1>7 DEF Inv

LEMMA InvNext == Inv /\ [Next]_vars => Inv'
<1> SUFFICES ASSUME Inv, [Next]_vars PROVE Inv'
  OBVIOUS
<1>1. CASE UNCHANGED vars
  BY <1>1 DEF vars, Inv, TypeOK, Prefix, Ring, Flushing, Phases, Plus, Dist, At, Pending, Ending, Ends
<1>2. CASE Next
  BY <1>2, AddKeeps, WriteKeeps, SleepTakeKeeps, PrintKeeps, ReleaseKeeps, PauseBeginKeeps, JoinResumeKeeps
     DEF Next, Add, Worker
<1> QED BY <1>1, <1>2

LEMMA SpecInv == Spec => []Inv
BY InvInit, InvNext, PTL DEF Spec

-----------------------------------------------------------------------------
(* What the worker prints without the mutex is what was accepted, in order *)
(* and to the file that was open then (flush_queue against add and         *)
(* set_file), whatever the capacity and however many threads log.          *)
THEOREM SpecPrintedInOrder == Spec => []PrintedInOrder
<1>1. Inv => PrintedInOrder
  <2> SUFFICES ASSUME Inv PROVE PrintedInOrder
    OBVIOUS
  <2> DEFINE k == Len(printed)
             part == SubSeq(accepted, 1, k)
  <2>1. /\ k \in Nat /\ Len(accepted) \in Nat /\ k <= Len(accepted) /\ \A i \in 1 .. k : printed[i] = accepted[i]
        /\ printed \in Seq(Messages \X Files) /\ accepted \in Seq(Messages \X Files) /\ TypeOK
    BY DEF Inv, TypeOK, Prefix
  <2>2. \A i \in 1 .. k : accepted[i] \in Messages \X Files
    BY <2>1
  <2>3. /\ part \in Seq(Messages \X Files) /\ Len(part) = IF 1 <= k THEN k - 1 + 1 ELSE 0
        /\ \A i \in 1 .. k - 1 + 1 : part[i] = accepted[1 + i - 1]
    <3> HIDE DEF k
    <3> QED BY <2>1, <2>2, SubSeqProperties
  <2>4. Len(part) = k /\ \A i \in 1 .. k : part[i] = accepted[i]
    BY <2>1, <2>3
  <2>5. printed = part
    BY <2>1, <2>3, <2>4, SeqEqual
  <2> QED BY <2>1, <2>5 DEF PrintedInOrder
<1> QED BY <1>1, SpecInv, PTL

(* When pause() has returned, everything accepted is on the output: what   *)
(* common_log_flush() and set_file() rely on.                              *)
THEOREM SpecFlushedWhenDown == Spec => []FlushedWhenDown
<1>1. Inv => FlushedWhenDown
  BY Counts DEF Inv, Phases, FlushedWhenDown
<1> QED BY <1>1, SpecInv, PTL
=============================================================================
