----------------------------- MODULE CommonLog -----------------------------
(***************************************************************************)
(* common/log.cpp: the asynchronous logger every tool and the server use.  *)
(*                                                                         *)
(* Producer threads append entries to a ring of Capacity slots under the   *)
(* mutex mtx and sleep on cv_full while the ring is full.  One worker      *)
(* thread copies the bounds [head, tail) under the mutex, prints those     *)
(* entries WITHOUT the mutex, and only then advances head.  A controller   *)
(* thread pauses the worker (by pushing an end entry and joining the       *)
(* thread), resumes it, and swaps the log file between the two; those      *)
(* operations are documented as not thread-safe, so there is one such      *)
(* thread.                                                                 *)
(*                                                                         *)
(* One action is one critical section of mtx, or one entry printed outside *)
(* of it.  A thread blocked on a condition variable is in state "asleep"   *)
(* and moves only when it is notified, so a lost wakeup is visible.        *)
(***************************************************************************)
EXTENDS Naturals, Sequences, FiniteSets

CONSTANTS
    Producers,      \* threads that call common_log_add
    Capacity,       \* slots of the ring (512 in the code)
    MaxAdds,        \* bound: calls of common_log_add per producer
    MaxPauses       \* bound: pauses the controller performs

ASSUME CapacityAssumption == Capacity \in Nat /\ Capacity >= 2
ASSUME BoundsAssumption == MaxAdds \in Nat /\ MaxPauses \in Nat

VARIABLES
    queue,          \* [Slots -> entry], an entry is [msg, is_end]
    head, tail,     \* ring indices
    running,        \* entries are accepted
    file,           \* the log file: 0 for none, else the pause that opened it
    producer,       \* [Producers -> {"idle", "asleep", "awake"}]
    calls,          \* [Producers -> Nat]: calls of add so far
    worker,         \* [pc, h, end, stop]: the worker thread and its locals
    control,        \* "up", "joining" (inside pause), "down"
    reopen,         \* the pause in progress belongs to set_file
    pauses,         \* pauses started so far
    accepted,       \* history: messages written to the ring, each with the log
                    \* file open at that time
    printed         \* history: messages printed, each with the file they went to

vars == <<queue, head, tail, running, file, producer, calls, worker,
          control, reopen, pauses, accepted, printed>>

Slots    == 0 .. Capacity - 1
NoMsg    == <<>>
Messages == Producers \X (1 .. MaxAdds)
Files    == 0 .. MaxPauses
Entries  == [msg : Messages \cup {NoMsg}, is_end : BOOLEAN]
NoWorker == [pc |-> "none", h |-> 0, end |-> 0, stop |-> FALSE]
Started  == [NoWorker EXCEPT !.pc = "locking"]

Succ(i) == (i + 1) % Capacity

\* Mutant: add does not wait for room
NeverFull == FALSE

IsFull  == Succ(tail) = head
IsEmpty == head = tail

Init ==
    /\ queue    = [i \in Slots |-> [msg |-> NoMsg, is_end |-> FALSE]]
    /\ head     = 0
    /\ tail     = 0
    /\ running  = TRUE           \* the constructor ends in resume()
    /\ file     = 0
    /\ producer = [p \in Producers |-> "idle"]
    /\ calls    = [p \in Producers |-> 0]
    /\ worker   = Started
    /\ control  = "up"
    /\ reopen   = FALSE
    /\ pauses   = 0
    /\ accepted = <<>>
    /\ printed  = <<>>

-----------------------------------------------------------------------------
(* Condition variables.                                                    *)

WakeWorker(w)    == IF w.pc = "asleep" THEN [w EXCEPT !.pc = "locking"] ELSE w
WakeProducers(s) == [p \in Producers |-> IF s[p] = "asleep" THEN "awake" ELSE s[p]]

-----------------------------------------------------------------------------
(* common_log::add.                                                        *)

AddCall(p) ==
    /\ producer[p] = "idle"
    /\ calls[p] < MaxAdds
    /\ calls' = [calls EXCEPT ![p] = @ + 1]
    /\ producer' = [producer EXCEPT ![p] = "awake"]
    /\ UNCHANGED <<queue, head, tail, running, file, worker, control, reopen,
                   pauses, accepted, printed>>

AddBlock(p) ==
    /\ producer[p] = "awake"
    /\ running /\ IsFull
    /\ producer' = [producer EXCEPT ![p] = "asleep"]
    /\ UNCHANGED <<queue, head, tail, running, file, calls, worker, control,
                   reopen, pauses, accepted, printed>>

AddDiscard(p) ==
    /\ producer[p] = "awake"
    /\ ~running
    /\ producer' = [producer EXCEPT ![p] = "idle"]
    /\ UNCHANGED <<queue, head, tail, running, file, calls, worker, control,
                   reopen, pauses, accepted, printed>>

AddWrite(p) ==
    /\ producer[p] = "awake"
    /\ running /\ ~IsFull
    /\ LET m == <<p, calls[p]>>
       IN  /\ queue'    = [queue EXCEPT ![tail] = [msg |-> m, is_end |-> FALSE]]
           /\ accepted' = Append(accepted, <<m, file>>)
    /\ tail'     = Succ(tail)
    /\ worker'   = WakeWorker(worker)
    /\ producer' = [producer EXCEPT ![p] = "idle"]
    /\ UNCHANGED <<head, running, file, calls, control, reopen, pauses, printed>>

-----------------------------------------------------------------------------
(* The worker thread started by common_log::resume.                        *)

WorkerSleep ==
    /\ worker.pc = "locking"
    /\ IsEmpty
    /\ worker' = [worker EXCEPT !.pc = "asleep"]
    /\ UNCHANGED <<queue, head, tail, running, file, producer, calls, control,
                   reopen, pauses, accepted, printed>>

WorkerTake ==
    /\ worker.pc = "locking"
    /\ ~IsEmpty
    /\ worker' = [pc |-> "flushing", h |-> head, end |-> tail, stop |-> FALSE]
    /\ UNCHANGED <<queue, head, tail, running, file, producer, calls, control,
                   reopen, pauses, accepted, printed>>

\* one iteration of flush_queue, without the mutex
WorkerPrint ==
    /\ worker.pc = "flushing"
    /\ worker.h # worker.end
    /\ ~worker.stop
    /\ LET e == queue[worker.h]
       IN  /\ printed' = IF e.is_end THEN printed ELSE Append(printed, <<e.msg, file>>)
           /\ worker'  = [worker EXCEPT !.h = Succ(@), !.stop = e.is_end]
    /\ UNCHANGED <<queue, head, tail, running, file, producer, calls, control,
                   reopen, pauses, accepted>>

WorkerRelease ==
    /\ worker.pc = "flushing"
    /\ worker.h = worker.end \/ worker.stop
    /\ head'     = worker.h
    /\ producer' = WakeProducers(producer)
    /\ worker'   = [worker EXCEPT !.pc = IF worker.stop THEN "exited" ELSE "locking"]
    /\ UNCHANGED <<queue, tail, running, file, calls, control, reopen, pauses,
                   accepted, printed>>

-----------------------------------------------------------------------------
(* The controller: pause, resume, set_file (pause; reopen; resume), flush  *)
(* (pause; resume).                                                        *)

\* Mutant: the worker is not notified
PauseBeginSilently(for_file) ==
    /\ control = "up"
    /\ pauses < MaxPauses
    /\ pauses'   = pauses + 1
    /\ running'  = FALSE
    /\ queue'    = [queue EXCEPT ![tail].is_end = TRUE]
    /\ tail'     = Succ(tail)
    /\ producer' = WakeProducers(producer)
    /\ control'  = "joining"
    /\ reopen'   = for_file
    /\ UNCHANGED <<worker, head, file, calls, accepted, printed>>

\* common_log::pause up to the join; the end entry keeps the slot's old text
PauseBegin(for_file) ==
    /\ control = "up"
    /\ pauses < MaxPauses
    /\ pauses'   = pauses + 1
    /\ running'  = FALSE
    /\ queue'    = [queue EXCEPT ![tail].is_end = TRUE]
    /\ tail'     = Succ(tail)
    /\ worker'   = WakeWorker(worker)
    /\ producer' = WakeProducers(producer)
    /\ control'  = "joining"
    /\ reopen'   = for_file
    /\ UNCHANGED <<head, file, calls, accepted, printed>>

\* Mutant: pause does not wait for the thread
PauseDetach ==
    /\ control = "joining"
    /\ worker'  = NoWorker
    /\ control' = "down"
    /\ file'    \in IF reopen THEN {0, pauses} ELSE {file}
    /\ reopen'  = FALSE
    /\ UNCHANGED <<queue, head, tail, running, producer, calls, pauses,
                   accepted, printed>>

\* thrd.join() returns; set_file then closes the old file and opens the new
PauseJoin ==
    /\ control = "joining"
    /\ worker.pc = "exited"
    /\ worker'  = NoWorker
    /\ control' = "down"
    /\ file'    \in IF reopen THEN {0, pauses} ELSE {file}
    /\ reopen'  = FALSE
    /\ UNCHANGED <<queue, head, tail, running, producer, calls, pauses,
                   accepted, printed>>

Resume ==
    /\ control = "down"
    /\ running' = TRUE
    /\ worker'  = Started
    /\ control' = "up"
    /\ UNCHANGED <<queue, head, tail, file, producer, calls, reopen, pauses,
                   accepted, printed>>

-----------------------------------------------------------------------------
Worker == WorkerSleep \/ WorkerTake \/ WorkerPrint \/ WorkerRelease
Add(p) == AddBlock(p) \/ AddDiscard(p) \/ AddWrite(p)

Next ==
    \/ \E p \in Producers : AddCall(p) \/ Add(p)
    \/ Worker
    \/ \E for_file \in BOOLEAN : PauseBegin(for_file)
    \/ PauseJoin
    \/ Resume

(* A runnable thread is eventually scheduled and gets the mutex when it is *)
(* free.  Nobody is obliged to log, to pause or to resume.                 *)
Fairness ==
    /\ WF_vars(Worker)
    /\ WF_vars(PauseJoin)
    /\ \A p \in Producers : SF_vars(AddWrite(p)) /\ WF_vars(Add(p))

Spec == Init /\ [][Next]_vars /\ Fairness

-----------------------------------------------------------------------------
(* Properties.                                                             *)

TypeOK ==
    /\ queue    \in [Slots -> Entries]
    /\ head     \in Slots
    /\ tail     \in Slots
    /\ running  \in BOOLEAN
    /\ file     \in Files
    /\ producer \in [Producers -> {"idle", "asleep", "awake"}]
    /\ calls    \in [Producers -> 0 .. MaxAdds]
    /\ worker   \in [pc : {"none", "locking", "asleep", "flushing", "exited"},
                     h : Slots, end : Slots, stop : BOOLEAN]
    /\ control  \in {"up", "joining", "down"}
    /\ reopen   \in BOOLEAN
    /\ pauses   \in 0 .. MaxPauses
    /\ accepted \in Seq(Messages \X Files)
    /\ printed  \in Seq(Messages \X Files)

(* Although the worker reads the ring without the mutex, what it prints is *)
(* exactly what was accepted, in the order of acceptance, and to the log   *)
(* file that was open when it was accepted: no entry is torn by a          *)
(* concurrent add, printed twice, skipped, printed from a stale slot after *)
(* the ring wrapped around, or caught by a set_file (flush_queue against   *)
(* add and set_file); and the variables have their types.                  *)
PrintedInOrder ==
    /\ TypeOK
    /\ Len(printed) <= Len(accepted)
    /\ printed = SubSeq(accepted, 1, Len(printed))

(* Once a pause has returned, everything accepted before it is on the      *)
(* output: this is what common_log_flush() and the callers that pause      *)
(* before exiting rely on.                                                 *)
FlushedWhenDown == control = "down" => printed = accepted

(* The end entry was written to a full ring: tail met head, the worker     *)
(* takes the ring for empty and sleeps.                                    *)
Overrun == control = "joining" /\ worker.pc = "asleep" /\ IsEmpty

(* A producer blocked on a full ring gets out of add(): the worker makes   *)
(* room or a pause lets it discard.  pause() returns: the worker finds the *)
(* end entry and stops, whatever producers wrote before, unless the end    *)
(* entry was lost on a full ring.                                          *)
CallsReturn ==
    /\ \A p \in Producers : producer[p] # "idle" ~> producer[p] = "idle"
    /\ control = "joining" ~> control = "down" \/ Overrun
=============================================================================
