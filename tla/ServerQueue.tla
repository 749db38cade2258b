---------------------------- MODULE ServerQueue ----------------------------
(***************************************************************************)
(* tools/server/server-queue.{h,cpp}, struct server_queue: the task queue  *)
(* between the HTTP threads and the inference thread of the server.        *)
(*                                                                         *)
(* Three kinds of threads meet here under one mutex, mutex_tasks:          *)
(*   - "main", the thread that calls start_loop: it hands tasks to the     *)
(*     callback, then runs update_slots, then idles or sleeps;             *)
(*   - "worker", which hands tasks to the same callback while main is      *)
(*     inside yield_to_queue (an encode or decode is running);             *)
(*   - Clients, the HTTP threads: they wait until the server is awake,     *)
(*     post a task, and may cancel it.                                     *)
(*                                                                         *)
(* One action is one critical section of mutex_tasks, or the work a thread *)
(* does between two of them.  All threads share the condition variable     *)
(* condition_tasks: "waiting" is its wait set, a thread in it does not     *)
(* move until it is notified, and notify_one wakes any one of them.  What  *)
(* the callbacks do with a task is left open (accept it, defer it, release *)
(* a slot); module ServerTasks fills that in.                              *)
(***************************************************************************)
EXTENDS Naturals, Sequences, SequencesExt

CONSTANTS
    Clients,        \* HTTP threads
    Tasks,          \* task ids; each is posted at most once
    Light,          \* tasks the callback accepts while yielding (METRICS, SLOT_GET)
    Metrics,        \* those of Light that do not reset the idle timer (METRICS)
    Slots,          \* slot ids a task may ask for
    NoSlot,         \* id_slot = -1
    NoTask,         \* a client that has no task in flight
    SleepEnabled    \* idle_sleep_ms >= 0

ASSUME KindsAssumption == Metrics \subseteq Light /\ Light \subseteq Tasks
ASSUME SleepAssumption == SleepEnabled \in BOOLEAN
ASSUME NoneAssumption  == NoSlot \notin Slots /\ NoTask \notin Tasks
ASSUME ThreadsAssumption == "main" \notin Clients /\ "worker" \notin Clients

VARIABLES
    running, sleeping, req_stop_sleeping,
    expired,                \* now - time_last_task >= idle_sleep_ms
    queue_tasks, queue_tasks_deferred, queue_tasks_unhandled,
    stop, busy, yielding, exception,        \* fields of server_queue::worker
    waiting,                \* threads blocked on condition_tasks
    main, worker,           \* the two threads: [pc, item]
    client,                 \* [Clients -> [pc, task]]
    terminated,             \* history: terminate() was called
    posted,                 \* history: tasks posted so far
    order,                  \* history: tasks posted to the back, in order
    done,                   \* history: tasks the callback finished, in order
    dropped,                \* history: tasks erased by a cancel or lost to an exception
    was_deferred            \* history: tasks that went through defer()

flags     == <<running, sleeping, req_stop_sleeping, expired>>
queues    == <<queue_tasks, queue_tasks_deferred, queue_tasks_unhandled>>
yield     == <<stop, busy, yielding, exception>>
history   == <<terminated, posted, order, done, dropped, was_deferred>>
vars      == <<flags, queues, yield, waiting, main, worker, client, history>>

Threads   == {"main", "worker"} \cup Clients
NoItem    == [kind |-> "none"]
Item(t, s) == [kind |-> "task", task |-> t, slot |-> s]
Cancel(t) == [kind |-> "cancel", task |-> t, slot |-> NoSlot]
Items     == [kind : {"task", "cancel"}, task : Tasks, slot : Slots \cup {NoSlot}]

\* process_single_task accepts this one during a decode
Acceptable(item) == item.kind = "task" /\ item.task \in Light

Init ==
    /\ running = FALSE /\ sleeping = FALSE /\ req_stop_sleeping = FALSE
    /\ expired = FALSE
    /\ queue_tasks = <<>> /\ queue_tasks_deferred = <<>> /\ queue_tasks_unhandled = <<>>
    /\ stop = FALSE /\ busy = FALSE /\ yielding = FALSE /\ exception = FALSE
    /\ waiting = {}
    /\ main   = [pc |-> "init", item |-> NoItem]
    /\ worker = [pc |-> "none", item |-> NoItem]
    /\ client = [c \in Clients |-> [pc |-> "out", task |-> NoTask]]
    /\ terminated = FALSE
    /\ posted = {} /\ order = <<>> /\ done = <<>> /\ dropped = {} /\ was_deferred = {}

-----------------------------------------------------------------------------
(* Helpers.                                                                *)

\* Mutant: post, defer and pop_deferred_task do not notify
NotifyNone(W) == {W}

\* the wait sets notify_one may leave
NotifyOne(W) == IF W = {} THEN {{}} ELSE {W \ {w} : w \in W}

\* Mutant: a cancel leaves its target in the queue
CleanupNone(q, t) == q

\* cleanup_pending_task on one deque: ids are unique, at most one entry goes
Cleanup(q, t) ==
    LET i == SelectInSeq(q, LAMBDA x : x.kind = "task" /\ x.task = t)
    IN  IF i = 0 THEN q ELSE RemoveAt(q, i)

\* the deferred task a release of slot s moves: one that asked for s, else the first
PopIndex(q, s) ==
    LET i == SelectInSeq(q, LAMBDA x : x.slot = s)
    IN  IF i = 0 THEN 1 ELSE i

Holds(q, t)   == \E i \in DOMAIN q : q[i].kind = "task" /\ q[i].task = t
Pending(t)    == Holds(queue_tasks \o queue_tasks_deferred \o queue_tasks_unhandled, t)
InHand(th, t) == th.item # NoItem /\ th.item.kind = "task" /\ th.item.task = t
IdsOf(item)   == IF item.kind = "task" THEN <<item.task>> ELSE <<>>

Hold(pc, item) == [pc |-> pc, item |-> item]
Free(pc)       == [pc |-> pc, item |-> NoItem]

-----------------------------------------------------------------------------
(* HTTP threads.                                                           *)

\* server_res_generator: wait_until_no_sleep, skipped when sleeping is disabled
Gate(c) ==
    /\ client[c].pc = "out"
    /\ IF SleepEnabled /\ sleeping
       THEN /\ client' = [client EXCEPT ![c].pc = "blocked"]
            /\ req_stop_sleeping' = TRUE
            /\ \E W \in IF req_stop_sleeping THEN {waiting} ELSE NotifyOne(waiting) :
                  waiting' = W \cup {c}
       ELSE /\ client' = [client EXCEPT ![c].pc = "inside"]
            /\ UNCHANGED <<req_stop_sleeping, waiting>>
    /\ UNCHANGED <<running, sleeping, expired, queues, yield, main, worker, history>>

GateRecheck(c) ==
    /\ client[c].pc = "blocked"
    /\ c \notin waiting
    /\ IF sleeping THEN waiting' = waiting \cup {c} /\ UNCHANGED client
                   ELSE client' = [client EXCEPT ![c].pc = "inside"] /\ UNCHANGED waiting
    /\ UNCHANGED <<flags, queues, yield, main, worker, history>>

\* GET /metrics bypasses the gate: it only looks at is_sleeping()
Peek(c) ==
    /\ client[c].pc = "out"
    /\ ~sleeping
    /\ client' = [client EXCEPT ![c].pc = "peeked"]
    /\ UNCHANGED <<flags, queues, yield, waiting, main, worker, history>>

\* server_queue::post: METRICS and SLOT_GET go to the front, the rest to the back
Post(c, t, s) ==
    /\ client[c].pc = (IF t \in Metrics THEN "peeked" ELSE "inside")
    /\ t \notin posted
    /\ t \in Light => s = NoSlot
    /\ queue_tasks' = IF t \in Light THEN <<Item(t, s)>> \o queue_tasks
                                     ELSE Append(queue_tasks, Item(t, s))
    /\ order'   = IF t \in Light THEN order ELSE Append(order, t)
    /\ posted'  = posted \cup {t}
    /\ expired' = (expired /\ t \in Metrics)
    /\ waiting' \in NotifyOne(waiting)
    /\ client'  = [client EXCEPT ![c] = [pc |-> "posted", task |-> t]]
    /\ UNCHANGED <<running, sleeping, req_stop_sleeping, queue_tasks_deferred,
                   queue_tasks_unhandled, yield, main, worker, terminated, done,
                   dropped, was_deferred>>

\* server_response_reader::stop posts a CANCEL: post() cleans the three deques
\* of the target and puts the CANCEL itself at the front
PostCancel(c) ==
    LET t == client[c].task IN
    /\ client[c].pc = "posted"
    /\ queue_tasks' = <<Cancel(t)>> \o Cleanup(queue_tasks, t)
    /\ queue_tasks_deferred'  = Cleanup(queue_tasks_deferred, t)
    /\ queue_tasks_unhandled' = Cleanup(queue_tasks_unhandled, t)
    /\ dropped' = IF Pending(t) THEN dropped \cup {t} ELSE dropped
    /\ expired' = FALSE
    /\ waiting' \in NotifyOne(waiting)
    /\ client'  = [client EXCEPT ![c] = [pc |-> "out", task |-> NoTask]]
    /\ UNCHANGED <<running, sleeping, req_stop_sleeping, yield, main, worker,
                   terminated, posted, order, done, was_deferred>>

\* the result arrived, or the request needed no task: the thread is free again
Return(c) ==
    /\ \/ client[c].pc \in {"inside", "peeked"}
       \/ client[c].pc = "posted" /\ client[c].task \in Range(done)
    /\ client' = [client EXCEPT ![c] = [pc |-> "out", task |-> NoTask]]
    /\ UNCHANGED <<flags, queues, yield, waiting, main, worker, history>>

\* server_queue::terminate, from the signal handler
Terminate ==
    /\ ~terminated
    /\ terminated' = TRUE
    /\ running' = FALSE
    /\ waiting' = {}
    /\ UNCHANGED <<sleeping, req_stop_sleeping, expired, queues, yield, main,
                   worker, client, posted, order, done, dropped, was_deferred>>

-----------------------------------------------------------------------------
(* The main thread: start_loop and process_new_tasks(false).               *)

\* note: running is written without the mutex
StartLoop ==
    /\ main.pc = "init"
    /\ running' = TRUE
    /\ expired' = FALSE
    /\ stop' = FALSE /\ busy' = FALSE /\ yielding' = FALSE
    /\ worker' = Free("parked")
    /\ main'   = Free("take")
    /\ UNCHANGED <<sleeping, req_stop_sleeping, queues, exception, waiting, client, history>>

MainTake ==
    /\ main.pc = "take"
    /\ IF running /\ queue_tasks # <<>>
       THEN /\ main' = Hold("callback", Head(queue_tasks))
            /\ queue_tasks' = Tail(queue_tasks)
       ELSE /\ main' = Free(IF running THEN "update" ELSE "stop")
            /\ UNCHANGED queue_tasks
    /\ UNCHANGED <<flags, queue_tasks_deferred, queue_tasks_unhandled, yield,
                   waiting, worker, client, history>>

\* callback_new_task returns true
MainAccept ==
    /\ main.pc = "callback"
    /\ done' = done \o IdsOf(main.item)
    /\ main' = Free("take")
    /\ UNCHANGED <<flags, queues, yield, waiting, worker, client, terminated,
                   posted, order, dropped, was_deferred>>

\* ... or defers the task: no slot is available
MainDefer ==
    /\ main.pc = "callback"
    /\ main.item.kind = "task" /\ ~Acceptable(main.item)
    /\ queue_tasks_deferred' = Append(queue_tasks_deferred, main.item)
    /\ was_deferred' = was_deferred \cup {main.item.task}
    /\ expired' = FALSE
    /\ waiting' \in NotifyOne(waiting)
    /\ main' = Free("take")
    /\ UNCHANGED <<running, sleeping, req_stop_sleeping, queue_tasks,
                   queue_tasks_unhandled, yield, worker, client, terminated,
                   posted, order, done, dropped>>

\* pop_deferred_task: a callback on the main thread released slot s
MainRelease(s) ==
    /\ main.pc \in {"callback", "update", "unwind"}
    /\ LET i == PopIndex(queue_tasks_deferred, s)
       IN  IF queue_tasks_deferred = <<>> THEN UNCHANGED <<queue_tasks, queue_tasks_deferred>>
           ELSE /\ queue_tasks' = <<queue_tasks_deferred[i]>> \o queue_tasks
                /\ queue_tasks_deferred' = RemoveAt(queue_tasks_deferred, i)
    /\ expired' = FALSE
    /\ waiting' \in NotifyOne(waiting)
    /\ UNCHANGED <<running, sleeping, req_stop_sleeping, queue_tasks_unhandled,
                   yield, main, worker, client, history>>

\* yield_to_queue up to work(): the worker's own condition variable is notified
YieldBegin ==
    /\ main.pc = "update"
    /\ busy' = TRUE /\ yielding' = TRUE
    /\ main' = Free("work")
    /\ UNCHANGED <<flags, queues, stop, exception, waiting, worker, client, history>>

\* Mutant: the declined tasks are put back one by one, reversing their order
RejoinReversed(threw) ==
    /\ queue_tasks' = Reverse(queue_tasks_unhandled) \o queue_tasks
    /\ queue_tasks_unhandled' = <<>>
    /\ expired'   = FALSE
    /\ exception' = FALSE
    /\ main'      = Free(IF threw \/ exception THEN "unwind" ELSE "update")

\* Mutant: an exception is rethrown before the declined tasks are put back
RejoinThrowFirst(threw) ==
    /\ IF threw \/ exception
       THEN UNCHANGED <<queue_tasks, queue_tasks_unhandled>>
       ELSE /\ queue_tasks' = queue_tasks_unhandled \o queue_tasks
            /\ queue_tasks_unhandled' = <<>>
    /\ expired'   = FALSE
    /\ exception' = FALSE
    /\ main'      = Free(IF threw \/ exception THEN "unwind" ELSE "update")

\* the end of yield_to_queue: declined tasks return to the front in their order,
\* then an exception of work() or of the worker is rethrown into update_slots
Rejoin(threw) ==
    /\ queue_tasks' = queue_tasks_unhandled \o queue_tasks
    /\ queue_tasks_unhandled' = <<>>
    /\ expired'   = FALSE
    /\ exception' = FALSE
    /\ main'      = Free(IF threw \/ exception THEN "unwind" ELSE "update")

\* work() returns or throws; wait for the worker to finish its current task
YieldEnd(threw) ==
    /\ main.pc = "work"
    /\ yielding' = FALSE
    /\ IF busy THEN /\ waiting' = {"main"}
                    /\ main' = Free(IF threw THEN "rejoin_throw" ELSE "rejoin")
                    /\ UNCHANGED <<queue_tasks, queue_tasks_unhandled, expired, exception>>
               ELSE waiting' = {} /\ Rejoin(threw)
    /\ UNCHANGED <<running, sleeping, req_stop_sleeping, queue_tasks_deferred,
                   stop, busy, worker, client, history>>

YieldRejoin ==
    /\ main.pc \in {"rejoin", "rejoin_throw"}
    /\ "main" \notin waiting
    /\ IF busy THEN /\ waiting' = waiting \cup {"main"}
                    /\ UNCHANGED <<queue_tasks, queue_tasks_unhandled, expired, exception, main>>
               ELSE Rejoin(main.pc = "rejoin_throw") /\ UNCHANGED waiting
    /\ UNCHANGED <<running, sleeping, req_stop_sleeping, queue_tasks_deferred,
                   stop, busy, yielding, worker, client, history>>

UpdateEnd ==
    /\ main.pc \in {"update", "unwind"}
    /\ main' = Free("idle")
    /\ UNCHANGED <<flags, queues, yield, waiting, worker, client, history>>

\* the sleeping callbacks run here and on wakeup, under the mutex
MainIdle ==
    /\ main.pc = "idle"
    /\ IF ~running \/ queue_tasks # <<>>
       THEN main' = Free("take") /\ UNCHANGED <<sleeping, req_stop_sleeping, waiting>>
       ELSE /\ waiting' = waiting \cup {"main"}
            /\ IF SleepEnabled /\ expired
               THEN /\ sleeping' = TRUE
                    /\ req_stop_sleeping' = FALSE
                    /\ main' = Free("sleep")
               ELSE main' = Free("nap") /\ UNCHANGED <<sleeping, req_stop_sleeping>>
    /\ UNCHANGED <<running, expired, queues, yield, worker, client, history>>

\* condition_tasks.wait_for(1 s): a notification, or the timeout
MainNap ==
    /\ main.pc = "nap"
    /\ LET ready == queue_tasks # <<>> \/ ~running
       IN  \/ /\ waiting' = waiting \ {"main"}
              /\ main' = Free(IF ready THEN "take" ELSE "idle")
           \/ /\ "main" \notin waiting /\ ~ready
              /\ waiting' = waiting \cup {"main"}
              /\ UNCHANGED main
    /\ UNCHANGED <<flags, queues, yield, worker, client, history>>

\* Mutants: the threads in wait_until_no_sleep are not notified; they are, but
\* the flag they wait on is still set
WakeUpSilently ==
    /\ req_stop_sleeping' = FALSE
    /\ sleeping' = FALSE
    /\ expired'  = FALSE
    /\ waiting'  = waiting
    /\ main'     = Free("take")
WakeUpTooEarly ==
    /\ req_stop_sleeping' = FALSE
    /\ sleeping' = sleeping
    /\ expired'  = FALSE
    /\ waiting'  = {}
    /\ main'     = Free("take")

\* the model is loaded again: let the blocked HTTP threads in
WakeUp ==
    /\ req_stop_sleeping' = FALSE
    /\ sleeping' = FALSE
    /\ expired'  = FALSE
    /\ waiting'  = {}
    /\ main'     = Free("take")

MainSleep ==
    /\ main.pc = "sleep"
    /\ "main" \notin waiting
    /\ IF ~running
       THEN main' = Free("take") /\ UNCHANGED <<sleeping, req_stop_sleeping, expired, waiting>>
       ELSE IF req_stop_sleeping THEN WakeUp
       ELSE waiting' = waiting \cup {"main"} /\ UNCHANGED <<sleeping, req_stop_sleeping, expired, main>>
    /\ UNCHANGED <<running, queues, yield, worker, client, history>>

\* worker_stop, then thread.join()
MainStop ==
    /\ main.pc = "stop"
    /\ stop' = TRUE
    /\ waiting' = {}
    /\ main' = Free("join")
    /\ UNCHANGED <<flags, queues, busy, yielding, exception, worker, client, history>>

MainJoin ==
    /\ main.pc = "join"
    /\ worker.pc = "exited"
    /\ main' = Free("stopped")
    /\ UNCHANGED <<flags, queues, yield, waiting, worker, client, history>>

\* the clock, while no update_slots is running (its duration is not counted).
\* idle_sleep_ms is at least a second, so a notified HTTP thread has locked the
\* mutex before the timer runs out again
Tick ==
    /\ SleepEnabled /\ ~expired
    /\ \A c \in Clients : client[c].pc = "blocked" => c \in waiting
    /\ main.pc \in {"take", "callback", "idle", "nap"}
    /\ expired' = TRUE
    /\ UNCHANGED <<running, sleeping, req_stop_sleeping, queues, yield, waiting,
                   main, worker, client, history>>

-----------------------------------------------------------------------------
(* The worker thread: worker_loop and process_new_tasks(true).             *)

\* Mutant: the worker does not look at busy when it is woken
WorkerUnparkBlindly ==
    /\ worker.pc = "parked"
    /\ worker' = Free(IF stop THEN "exited" ELSE "take")
    /\ UNCHANGED <<flags, queues, yield, waiting, main, client, history>>

\* waits on its own condition variable until a yield starts; busy and stop are
\* set under the mutex before that variable is notified, so none is missed
WorkerUnpark ==
    /\ worker.pc = "parked"
    /\ stop \/ busy
    /\ worker' = Free(IF stop THEN "exited" ELSE "take")
    /\ UNCHANGED <<flags, queues, yield, waiting, main, client, history>>

WorkerTake ==
    /\ worker.pc = "take"
    /\ IF running /\ queue_tasks # <<>>
       THEN /\ worker' = Hold("callback", Head(queue_tasks))
            /\ queue_tasks' = Tail(queue_tasks)
       ELSE /\ worker' = Free(IF running THEN "check" ELSE "leave")
            /\ UNCHANGED queue_tasks
    /\ UNCHANGED <<flags, queue_tasks_deferred, queue_tasks_unhandled, yield,
                   waiting, main, client, history>>

WorkerAccept ==
    /\ worker.pc = "callback" /\ Acceptable(worker.item)
    /\ done' = done \o IdsOf(worker.item)
    /\ worker' = Free("take")
    /\ UNCHANGED <<flags, queues, yield, waiting, main, client, terminated,
                   posted, order, dropped, was_deferred>>

WorkerDecline ==
    /\ worker.pc = "callback" /\ ~Acceptable(worker.item)
    /\ queue_tasks_unhandled' = Append(queue_tasks_unhandled, worker.item)
    /\ worker' = Free("take")
    /\ UNCHANGED <<flags, queue_tasks, queue_tasks_deferred, yield, waiting,
                   main, client, history>>

WorkerThrow ==
    /\ worker.pc = "callback" /\ Acceptable(worker.item)
    /\ exception' = TRUE
    /\ dropped' = dropped \cup {worker.item.task}
    /\ worker' = Free("leave")
    /\ UNCHANGED <<flags, queues, stop, busy, yielding, waiting, main, client,
                   terminated, posted, order, done, was_deferred>>

WorkerCheck ==
    /\ worker.pc = "check"
    /\ IF stop \/ ~yielding
       THEN worker' = Free("leave") /\ UNCHANGED waiting
       ELSE IF queue_tasks # <<>> \/ ~running
       THEN worker' = Free("take") /\ UNCHANGED waiting
       ELSE worker' = Free("wait") /\ waiting' = waiting \cup {"worker"}
    /\ UNCHANGED <<flags, queues, yield, main, client, history>>

WorkerWait ==
    /\ worker.pc = "wait"
    /\ "worker" \notin waiting
    /\ IF stop \/ ~running \/ ~yielding \/ queue_tasks # <<>>
       THEN worker' = Free("take") /\ UNCHANGED waiting
       ELSE waiting' = waiting \cup {"worker"} /\ UNCHANGED worker
    /\ UNCHANGED <<flags, queues, yield, main, client, history>>

\* Mutant: the main thread is not told that the worker is done
WorkerLeaveSilently ==
    /\ worker.pc = "leave"
    /\ busy' = FALSE
    /\ worker' = Free("parked")
    /\ UNCHANGED <<flags, queues, stop, yielding, exception, waiting, main, client, history>>

WorkerLeave ==
    /\ worker.pc = "leave"
    /\ busy' = FALSE
    /\ waiting' = {}
    /\ worker' = Free("parked")
    /\ UNCHANGED <<flags, queues, stop, yielding, exception, main, client, history>>

-----------------------------------------------------------------------------
ClientStep(c) ==
    \/ Gate(c) \/ GateRecheck(c) \/ Peek(c) \/ PostCancel(c) \/ Return(c)
    \/ \E t \in Tasks, s \in Slots \cup {NoSlot} : Post(c, t, s)

MainCallback == MainAccept \/ MainDefer

MainStep ==
    \/ StartLoop \/ MainTake \/ MainCallback \/ YieldBegin \/ YieldRejoin
    \/ UpdateEnd \/ MainIdle \/ MainNap \/ MainSleep \/ MainStop \/ MainJoin
    \/ \E s \in Slots : MainRelease(s)
    \/ \E threw \in BOOLEAN : YieldEnd(threw)

WorkerStep ==
    \/ WorkerUnpark \/ WorkerTake \/ WorkerAccept \/ WorkerDecline \/ WorkerThrow
    \/ WorkerCheck \/ WorkerWait \/ WorkerLeave

Next ==
    \/ \E c \in Clients : ClientStep(c)
    \/ MainStep
    \/ WorkerStep
    \/ Terminate
    \/ Tick

(* A runnable thread is scheduled, callbacks and work() return, and        *)
(* update_slots yields only finitely often before it returns.  No client   *)
(* is obliged to post or to cancel, but one that was let through returns.  *)
Fairness ==
    /\ WF_vars(MainStep)
    /\ WF_vars(MainCallback)
    /\ SF_vars(UpdateEnd)
    /\ WF_vars(WorkerStep)
    /\ \A c \in Clients : WF_vars(GateRecheck(c))

Spec == Init /\ [][Next]_vars /\ Fairness

-----------------------------------------------------------------------------
(* Properties.                                                             *)

FlagsOK ==
    /\ running \in BOOLEAN /\ sleeping \in BOOLEAN /\ req_stop_sleeping \in BOOLEAN
    /\ expired \in BOOLEAN
    /\ stop \in BOOLEAN /\ busy \in BOOLEAN /\ yielding \in BOOLEAN /\ exception \in BOOLEAN

QueuesOK ==
    /\ queue_tasks \in Seq(Items)
    /\ queue_tasks_deferred \in Seq(Items)
    /\ queue_tasks_unhandled \in Seq(Items)

\* a thread inside the callback holds an item
MainOK ==
    /\ main \in [pc : {"init", "take", "callback", "update", "unwind", "work",
                       "rejoin", "rejoin_throw", "idle", "nap", "sleep", "stop",
                       "join", "stopped"},
                 item : Items \cup {NoItem}]
    /\ main.pc = "callback" => main.item \in Items

WorkerOK ==
    /\ worker \in [pc : {"none", "parked", "take", "callback", "check", "wait",
                         "leave", "exited"},
                   item : Items \cup {NoItem}]
    /\ worker.pc = "callback" => worker.item \in Items

ClientsOK ==
    /\ client \in [Clients -> [pc : {"out", "blocked", "inside", "peeked", "posted"},
                               task : Tasks \cup {NoTask}]]
    /\ \A c \in Clients : client[c].pc = "posted" => client[c].task \in Tasks

HistoryOK ==
    /\ terminated \in BOOLEAN
    /\ posted \subseteq Tasks /\ dropped \subseteq Tasks /\ was_deferred \subseteq Tasks
    /\ order \in Seq(Tasks) /\ done \in Seq(Tasks)

(* Every variable, and the item each thread holds, has its type.           *)
TypeOK ==
    /\ FlagsOK /\ QueuesOK /\ MainOK /\ WorkerOK /\ ClientsOK /\ HistoryOK
    /\ waiting \subseteq Threads

InYield   == main.pc \in {"work", "rejoin", "rejoin_throw"}
Ownership ==
    /\ worker.pc \in {"take", "callback", "check", "wait", "leave"} => busy
    /\ busy => InYield

(* The server state has one owner at a time: the worker is active only     *)
(* between the start and the end of a yield, so its callback never runs    *)
(* beside the main thread's callback or update_slots ("returns once work() *)
(* is done"), and a yield never starts while the worker is still busy (the *)
(* assertion in yield_to_queue).  And every variable has its type.         *)
OneOwner == TypeOK /\ Ownership

(* Tasks declined during a yield are never stranded: outside a yield the   *)
(* list of declined tasks is empty.                                        *)
NoneStranded == queue_tasks_unhandled # <<>> => InYield

(* No task is lost or duplicated by the moves between three deques, two    *)
(* threads and a cancel: a posted task is in exactly one place until it is *)
(* done or dropped, and nowhere afterwards.                                *)
Places(t) ==
    LET in(q) == Cardinality({i \in DOMAIN q : q[i].kind = "task" /\ q[i].task = t})
        held(th) == IF InHand(th, t) THEN 1 ELSE 0
    IN  in(queue_tasks) + in(queue_tasks_deferred) + in(queue_tasks_unhandled)
          + held(main) + held(worker)
NoTaskLost ==
    \A t \in Tasks :
        Places(t) = IF t \in posted /\ t \notin dropped /\ t \notin Range(done)
                    THEN 1 ELSE 0

(* Tasks posted to the back are served in the order they were posted, even *)
(* when the worker declined them in the meantime, unless one of them had   *)
(* to be deferred ("put the declined tasks back, keeping their order").    *)
ServedInOrder ==
    \A i, j \in DOMAIN order :
        /\ i < j
        /\ order[j] \in Range(done)
        /\ {order[i], order[j]} \cap was_deferred = {}
        => \/ order[i] \in dropped
           \/ \E a, b \in DOMAIN done : a < b /\ done[a] = order[i] /\ done[b] = order[j]

(* While the server sleeps the model is unloaded: no callback, update or   *)
(* yield runs, on either thread, until the wakeup callbacks are done.      *)
NoWorkAsleep ==
    sleeping => /\ main.pc \in {"sleep", "take", "stop", "join", "stopped"}
                /\ main.pc = "take" => ~running
                /\ ~busy

(* No wakeup is missed, although all threads share one condition variable  *)
(* and post, defer and wait_until_no_sleep notify only one of them: a      *)
(* thread stays blocked on it only while what it waits for is false.       *)
NoMissedWakeup ==
    /\ "main" \in waiting =>
           \/ main.pc = "nap" /\ running /\ queue_tasks = <<>>
           \/ main.pc = "sleep" /\ running /\ ~req_stop_sleeping
           \/ main.pc \in {"rejoin", "rejoin_throw"} /\ busy
    /\ "worker" \in waiting =>
           worker.pc = "wait" /\ running /\ yielding /\ ~stop /\ queue_tasks = <<>>
    /\ \A c \in Clients : c \in waiting => client[c].pc = "blocked" /\ sleeping

(* A task in the queue of a server that is awake leaves it: it is handed   *)
(* to the callback, cancelled, or the loop was told to end.                *)
Queued(t) == Holds(queue_tasks \o queue_tasks_unhandled, t)
QueuedIsServed == \A t \in Tasks : Queued(t) ~> ~Queued(t) \/ ~running \/ sleeping

(* A yield returns: main waiting for the worker and the worker waiting for *)
(* main or for a task never block each other.  And terminating a running   *)
(* loop ends it, whatever it is doing, asleep or in the middle of a yield, *)
(* and the worker thread is joined.                                        *)
LoopMovesOn ==
    /\ main.pc \in {"rejoin", "rejoin_throw"} ~> ~InYield
    /\ main.pc # "init" /\ ~running ~> main.pc = "stopped"

(* "if sleeping, request exiting sleep state and wait until it is done"    *)
(* (server-queue.h:68): a request that finds the server asleep wakes it up *)
(* and is let in, unless the loop is terminated.                           *)
GateOpensWhileUp ==
    \A c \in Clients : client[c].pc = "blocked" ~> client[c].pc # "blocked" \/ terminated
=============================================================================
