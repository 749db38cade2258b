---------------------------- MODULE ServerTasks ----------------------------
(***************************************************************************)
(* tools/server: the life of a request, from the reader that posts its     *)
(* tasks to the slots that run them and back.                              *)
(*                                                                         *)
(*   - HTTP threads, one per request, own a server_response_reader: they   *)
(*     register the task ids, post the tasks, take results, and cancel     *)
(*     what is left when a result is an error or the peer goes away;       *)
(*   - the main thread takes a task (process_single_task launches it in a  *)
(*     slot, defers it, or answers it) until the queue is empty, then runs *)
(*     update_slots: pre_decode, decode and post_decode over all slots.    *)
(*                                                                         *)
(* The mutex, the condition variable, sleeping and yielding of the queue   *)
(* are the subject of ServerQueue: here a queue operation is one step.     *)
(* A request is a single task, or a parent with children (n_cmpl > 1) that *)
(* wait in their own slots for the parent's prompt.  Tokens, prompts and   *)
(* caches are left out: what a slot's step does with them is a choice      *)
(* between the outcomes the code has.                                      *)
(***************************************************************************)
EXTENDS Naturals, Sequences, SequencesExt, FiniteSets

CONSTANTS
    Requests,       \* HTTP requests, each with one reader
    NumSlots,       \* params.n_parallel
    Kind,           \* [Requests -> {"completion", "action"}], action: SLOT_SAVE, ...
    Want,           \* [Requests -> Slots \cup {NoSlot}]: the id_slot asked for
    Children,       \* [Requests -> Nat]: child tasks of the request's task
    EmptyPrompts,   \* the requests whose prompt has no tokens
    NoSlot,         \* id_slot = -1
    MaxTokens       \* [Requests -> Nat]: bound: the tokens a slot generates before it stops

Slots == 0 .. NumSlots - 1

ASSUME SlotsAssumption == NumSlots \in Nat \ {0} /\ NoSlot \notin Slots
ASSUME RequestsAssumption ==
    /\ Kind \in [Requests -> {"completion", "action"}]
    /\ Want \in [Requests -> Slots \cup {NoSlot}]
    /\ Children \in [Requests -> Nat] /\ EmptyPrompts \subseteq Requests
    /\ MaxTokens \in [Requests -> Nat \ {0}]
    /\ \A r \in Requests : Kind[r] = "action" => Want[r] \in Slots /\ Children[r] = 0

VARIABLES
    queue, deferred,        \* server_queue: the two deques
    hand,                   \* the task process_single_task was given, or NoItem
    pc,                     \* the main thread: "take", "process", "gen", "prompt", "decode", "post", "wait"
    turn,                   \* the slot iterate() is at
    batch,                  \* slots with tokens in the batch
    slot,                   \* [Slots -> [state, id, n]]
    waiting, results,       \* server_response: waiting_task_ids, queue_results
    reader,                 \* [Requests -> [pc, received]]
    answers                 \* history: [Ids -> Seq({"final", "error"})], the verdicts sent

mainvars == <<hand, pc, turn, batch>>
vars == <<queue, deferred, mainvars, slot, waiting, results, reader, answers>>

Id(r, i)    == <<r, i>>
IdsOf(r)    == {Id(r, i) : i \in 0 .. Children[r]}
Ids         == UNION {IdsOf(r) : r \in Requests}
Req(t)      == t[1]
IsChild(t)  == t[2] > 0
IsParent(t) == t[2] = 0 /\ Children[t[1]] > 0
Parent(t)   == Id(t[1], 0)

NoId      == <<>>
NoItem    == [kind |-> "none", id |-> NoId]
Task(t)   == [kind |-> "task", id |-> t]
Cancel(t) == [kind |-> "cancel", id |-> t]
NextResponse == [kind |-> "next", id |-> NoId]
Items     == [kind : {"task", "cancel"}, id : Ids] \cup {NextResponse}

Idle         == [state |-> "IDLE", id |-> NoId, n |-> 0]
Processing   == {s \in Slots : slot[s].state # "IDLE"}
IdleSlots    == Slots \ Processing
SlotStates   == {"IDLE", "WAIT_OTHER", "STARTED", "PROCESSING_PROMPT", "DONE_PROMPT", "GENERATING"}

Init ==
    /\ queue = <<>> /\ deferred = <<>>
    /\ hand = NoItem /\ pc = "take" /\ turn = 0 /\ batch = {}
    /\ slot = [s \in Slots |-> Idle]
    /\ waiting = {} /\ results = <<>>
    /\ reader = [r \in Requests |-> [pc |-> "new", received |-> 0]]
    /\ answers = [t \in Ids |-> <<>>]

-----------------------------------------------------------------------------
(* Helpers.                                                                *)

\* The elements of q that are in S, in the order of q
Keep(q, S) ==
    LET kept[i \in 0 .. Len(q)] ==
            IF i = 0 THEN <<>>
            ELSE IF q[i] \in S THEN Append(kept[i - 1], q[i]) ELSE kept[i - 1]
    IN  kept[Len(q)]

\* the slots of S, in the order in which the code goes over them
InOrder(S) == Keep([i \in 1 .. NumSlots |-> i - 1], S)

\* cleanup_pending_task, for the tasks of T
Cleanup(q, T) == Keep(q, Range(q) \ {Task(t) : t \in T})

\* Mutant: the popped task is not erased.
PopDeferredKeeps(qs, s) ==
    IF qs.deferred = <<>> THEN qs ELSE [main |-> <<Head(qs.deferred)>> \o qs.main, deferred |-> qs.deferred]

\* pop_deferred_task(s) on the pair of deques
PopDeferred(qs, s) ==
    LET wants == SelectInSeq(qs.deferred, LAMBDA x : Want[Req(x.id)] = s /\ Kind[Req(x.id)] = "completion")
        i     == IF wants = 0 THEN 1 ELSE wants
    IN  IF qs.deferred = <<>> THEN qs
        ELSE [main |-> <<qs.deferred[i]>> \o qs.main, deferred |-> RemoveAt(qs.deferred, i)]

\* release() of the slots of S, one after the other
Release(S, qs) ==
    LET after[n \in 0 .. NumSlots] ==
            IF n = 0 THEN qs
            ELSE IF n - 1 \in S THEN PopDeferred(after[n - 1], n - 1) ELSE after[n - 1]
    IN  after[NumSlots]

ReleaseSlots(S) ==
    LET qs == Release(S, [main |-> queue, deferred |-> deferred])
    IN  /\ slot'     = [s \in Slots |-> IF s \in S THEN Idle ELSE slot[s]]
        /\ queue'    = qs.main
        /\ deferred' = qs.deferred

\* server_response::send of one result for each of the tasks in sequence ts:
\* dropped when nobody waits for the id
Send(kind, ts) ==
    /\ LET heard == Keep(ts, waiting)
       IN  results' = results \o [i \in DOMAIN heard |-> [kind |-> kind, id |-> heard[i]]]
    /\ answers' = [t \in Ids |-> IF kind # "partial" /\ t \in Range(ts)
                                 THEN Append(answers[t], kind) ELSE answers[t]]

-----------------------------------------------------------------------------
(* The readers.                                                            *)

\* post_tasks: the ids are registered before the task is posted
Open(r) ==
    /\ reader[r].pc = "new"
    /\ reader'  = [reader EXCEPT ![r].pc = "reading"]
    /\ waiting' = waiting \cup IdsOf(r)
    /\ queue'   = Append(queue, Task(Id(r, 0)))
    /\ UNCHANGED <<deferred, mainvars, slot, results, answers>>

\* Mutant: the results that are there already are kept.
StopKeepsResults(r, why) ==
    /\ reader'  = [reader EXCEPT ![r].pc = why]
    /\ waiting' = waiting \ IdsOf(r)
    /\ deferred' = Cleanup(deferred, IdsOf(r))
    /\ \E order \in SetToSeqs({Cancel(t) : t \in IdsOf(r)}) :
          queue' = order \o Cleanup(queue, IdsOf(r))
    /\ UNCHANGED results

\* stop() with tasks left: no more results are kept, all tasks are cancelled.
\* The order of the CANCELs is that of an unordered_set
Stop(r, why) ==
    /\ reader'  = [reader EXCEPT ![r].pc = why]
    /\ waiting' = waiting \ IdsOf(r)
    /\ results' = Keep(results, {x \in Range(results) : x.id \notin IdsOf(r)})
    /\ deferred' = Cleanup(deferred, IdsOf(r))
    /\ \E order \in SetToSeqs({Cancel(t) : t \in IdsOf(r)}) :
          queue' = order \o Cleanup(queue, IdsOf(r))

\* next(): the first result for one of the reader's ids; a partial one does not count
\* (is_stop)
Receive(r) ==
    LET i == SelectInSeq(results, LAMBDA x : x.id \in IdsOf(r)) IN
    /\ reader[r].pc = "reading"
    /\ i # 0
    /\ IF results[i].kind = "error" THEN Stop(r, "failed")
       ELSE /\ results' = RemoveAt(results, i)
            /\ LET n == reader[r].received + (IF results[i].kind = "final" THEN 1 ELSE 0)
                   all == n = Cardinality(IdsOf(r))
               IN  /\ reader'  = [reader EXCEPT ![r] = [pc |-> IF all THEN "done" ELSE "reading", received |-> n]]
                   /\ waiting' = IF all THEN waiting \ IdsOf(r) ELSE waiting
            /\ UNCHANGED <<queue, deferred>>
    /\ UNCHANGED <<mainvars, slot, answers>>

\* should_stop(): the peer closed the connection
Disconnect(r) ==
    /\ reader[r].pc = "reading"
    /\ Stop(r, "stopped")
    /\ UNCHANGED <<mainvars, slot, answers>>

-----------------------------------------------------------------------------
(* process_new_tasks and process_single_task.                              *)

Take ==
    /\ pc \in {"take", "wait"} /\ queue # <<>>
    /\ hand' = Head(queue) /\ queue' = Tail(queue)
    /\ pc' = "process"
    /\ UNCHANGED <<deferred, turn, batch, slot, waiting, results, reader, answers>>

Done == pc' = "take" /\ hand' = NoItem /\ UNCHANGED <<turn, batch>>

Processed(kind) == pc = "process" /\ hand.kind = kind

\* get_available_slot: the slot asked for, or an idle one (by similarity or LRU)
Available(t) == IF Want[Req(t)] # NoSlot THEN {Want[Req(t)]} \cap IdleSlots ELSE IdleSlots

\* get_free_slots: the first n idle slots other than s
FreeSlots(n, s) == LET free == InOrder(IdleSlots \ {s})
                   IN  SubSeq(free, 1, IF Len(free) < n THEN Len(free) ELSE n)

CanLaunch(t, s) == Len(FreeSlots(Children[Req(t)], s)) = Children[Req(t)]

\* the slots after the children [1..n] of t are launched, and t itself if "parent"
Launched(t, s, n, parent) ==
    LET free == FreeSlots(Children[Req(t)], s)
        child(i) == [state |-> "WAIT_OTHER", id |-> Id(Req(t), i), n |-> 0]
    IN  [x \in Slots |->
           IF x = s /\ parent THEN [state |-> "STARTED", id |-> t, n |-> 0]
           ELSE IF \E i \in 1 .. n : free[i] = x THEN child(CHOOSE i \in 1 .. n : free[i] = x)
           ELSE slot[x]]

Launch ==
    /\ Processed("task") /\ Kind[Req(hand.id)] = "completion"
    /\ \E s \in Available(hand.id) :
          /\ CanLaunch(hand.id, s)
          /\ slot' = Launched(hand.id, s, Children[Req(hand.id)], TRUE)
    /\ Done
    /\ UNCHANGED <<queue, deferred, waiting, results, reader, answers>>

\* launch_slot_with_task rejects the task or one of its children: an error for
\* that one, and the children launched before it are released
LaunchFails ==
    /\ Processed("task") /\ Kind[Req(hand.id)] = "completion"
    /\ \E s \in Available(hand.id), bad \in 0 .. Children[Req(hand.id)] :
          /\ CanLaunch(hand.id, s)
          /\ LET n    == IF bad = 0 THEN Children[Req(hand.id)] ELSE bad - 1
                 free == FreeSlots(n, s)
                 qs   == Release(Range(free), [main |-> queue, deferred |-> deferred])
             IN  queue' = qs.main /\ deferred' = qs.deferred
          /\ Send("error", <<Id(Req(hand.id), bad)>>)
    /\ Done
    /\ UNCHANGED <<slot, waiting, reader>>

Defer ==
    /\ Processed("task")
    /\ IF Kind[Req(hand.id)] = "completion"
       THEN \/ Available(hand.id) = {}
            \/ \E s \in Available(hand.id) : ~CanLaunch(hand.id, s)
       ELSE Want[Req(hand.id)] \in Processing
    /\ deferred' = Append(deferred, hand)
    /\ Done
    /\ UNCHANGED <<queue, slot, waiting, results, reader, answers>>

\* SLOT_SAVE, SLOT_RESTORE, SLOT_ERASE on an idle slot
SlotAction ==
    /\ Processed("task") /\ Kind[Req(hand.id)] = "action"
    /\ Want[Req(hand.id)] \in IdleSlots
    /\ \E kind \in {"final", "error"} : Send(kind, <<hand.id>>)
    /\ Done
    /\ UNCHANGED <<queue, deferred, slot, waiting, reader>>

\* Mutant: the slot is not released.
CancelTaskIgnored ==
    /\ Processed("cancel")
    /\ Done
    /\ UNCHANGED <<queue, deferred, slot, waiting, results, reader, answers>>

CancelTask ==
    /\ Processed("cancel")
    /\ ReleaseSlots({s \in Slots : slot[s].id = hand.id})
    /\ Done
    /\ UNCHANGED <<waiting, results, reader, answers>>

Next_Response ==
    /\ Processed("next")
    /\ Done
    /\ UNCHANGED <<queue, deferred, slot, waiting, results, reader, answers>>

-----------------------------------------------------------------------------
(* update_slots.                                                           *)

UpdateBegin ==
    /\ pc = "take" /\ queue = <<>>
    /\ Processing # {}
    /\ queue' = <<NextResponse>>
    /\ pc' = "gen" /\ turn' = 0 /\ batch' = {}
    /\ UNCHANGED <<deferred, hand, slot, waiting, results, reader, answers>>

UpdateIdle ==
    /\ pc = "take" /\ queue = <<>>
    /\ Processing = {}
    /\ pc' = "wait"
    /\ UNCHANGED <<hand, turn, batch, queue, deferred, slot, waiting, results, reader, answers>>

\* iterate(): the next slot, or the first of the next phase
Advance(phase) ==
    /\ IF turn < NumSlots - 1 THEN turn' = turn + 1 /\ pc' = pc
                              ELSE turn' = 0 /\ pc' = phase
    /\ UNCHANGED hand

\* one slot ends with an error or with its final response
Finish(kind) == Send(kind, <<slot[turn].id>>) /\ ReleaseSlots({turn})

\* pre_decode goes over the slots twice: those that generate, then the prompts
Wanted == slot[turn].state \in (IF pc = "gen" THEN {"GENERATING"} ELSE {"STARTED", "PROCESSING_PROMPT"})

Pre(newBatch) ==
    /\ pc \in {"gen", "prompt"}
    /\ batch' = newBatch
    /\ Advance(IF pc = "gen" THEN "prompt" ELSE IF newBatch = {} THEN "wait" ELSE "decode")

\* nothing to add; or the batch is full, or the slot cannot be batched with those in it
PreSkip ==
    /\ Pre(batch)
    /\ ~Wanted \/ batch # {}
    /\ UNCHANGED <<queue, deferred, slot, waiting, results, reader, answers>>

PreGenerating(s) ==
    /\ pc = "gen" /\ turn = s /\ Wanted
    /\ Pre(batch \cup {s})
    /\ UNCHANGED <<slot, queue, deferred, waiting, results, reader, answers>>

\* as many of the prompt's tokens as the batch takes, in the end all of them
PrePrompt(s, state) ==
    /\ pc = "prompt" /\ turn = s /\ Wanted
    /\ Req(slot[s].id) \notin EmptyPrompts
    /\ slot' = [slot EXCEPT ![s].state = state]
    /\ Pre(batch \cup {s})
    /\ UNCHANGED <<queue, deferred, waiting, results, reader, answers>>

\* the context is full; the prompt is empty, too long or cannot be processed;
\* iterate() turns an exception into the same error
PreEnds ==
    /\ Pre(batch) /\ Wanted
    /\ IF pc = "prompt" /\ Req(slot[turn].id) \in EmptyPrompts THEN Finish("final") ELSE Finish("error")
    /\ UNCHANGED <<waiting, reader>>

\* decode(): the children of a parent whose prompt is done get a copy of its state
Activated(s) ==
    /\ slot[s].state = "WAIT_OTHER"
    /\ \E p \in Slots : slot[p].state = "DONE_PROMPT" /\ slot[p].id = Parent(slot[s].id)

\* Mutant: the children go on waiting.
DecodeAlone ==
    /\ pc = "decode" /\ pc' = "post"
    /\ UNCHANGED <<hand, turn, batch, slot, queue, deferred, waiting, results, reader, answers>>

DecodeOk ==
    /\ pc = "decode"
    /\ slot'  = [s \in Slots |-> IF Activated(s) THEN [slot[s] EXCEPT !.state = "DONE_PROMPT"] ELSE slot[s]]
    /\ batch' = batch \cup {s \in Slots : Activated(s)}
    /\ pc' = "post"
    /\ UNCHANGED <<hand, turn, queue, deferred, waiting, results, reader, answers>>

\* Mutant: the tasks that wait for their parent get no error.
AbortSilently ==
    /\ pc \in {"gen", "prompt", "decode", "post"}
    /\ LET ids == InOrder({s \in Processing : slot[s].state # "WAIT_OTHER"})
       IN  Send("error", [i \in DOMAIN ids |-> slot[ids[i]].id])
    /\ ReleaseSlots(Processing)
    /\ pc' = "wait" /\ turn' = 0
    /\ UNCHANGED <<hand, batch, waiting, reader>>

\* a fatal decode error, or an exception that leaves pre_decode, decode or
\* post_decode: every slot is aborted, those that wait for their parent too
AbortAll ==
    /\ pc \in {"gen", "prompt", "decode", "post"}
    /\ LET ids == InOrder(Processing)
       IN  Send("error", [i \in DOMAIN ids |-> slot[ids[i]].id])
    /\ ReleaseSlots(Processing)
    /\ pc' = "wait" /\ turn' = 0
    /\ UNCHANGED <<hand, batch, waiting, reader>>

Sampling(s) == s \in batch /\ slot[s].state \in {"DONE_PROMPT", "GENERATING"}

PostSkip ==
    /\ pc = "post" /\ ~Sampling(turn)
    /\ Advance("wait")
    /\ UNCHANGED <<batch, queue, deferred, slot, waiting, results, reader, answers>>

\* process_token: one more token, sent when streaming
PostToken ==
    /\ pc = "post" /\ Sampling(turn)
    /\ slot[turn].n + 1 < MaxTokens[Req(slot[turn].id)]
    /\ slot' = [slot EXCEPT ![turn].state = "GENERATING", ![turn].n = @ + 1]
    /\ \/ Send("partial", <<slot[turn].id>>)
       \/ UNCHANGED <<results, answers>>
    /\ Advance("wait")
    /\ UNCHANGED <<batch, queue, deferred, waiting, reader>>

\* the last token, an embedding or a rerank score, or an exception
PostEnds ==
    /\ pc = "post" /\ Sampling(turn)
    /\ \E kind \in {"final", "error"} : Finish(kind)
    /\ Advance("wait")
    /\ UNCHANGED <<batch, waiting, reader>>

-----------------------------------------------------------------------------
Process == Launch \/ LaunchFails \/ Defer \/ SlotAction \/ CancelTask \/ Next_Response
Update ==
    \/ UpdateBegin \/ UpdateIdle \/ PreSkip \/ PreEnds \/ DecodeOk \/ AbortAll
    \/ \E s \in Slots : PreGenerating(s) \/ \E state \in {"PROCESSING_PROMPT", "DONE_PROMPT"} : PrePrompt(s, state)
    \/ PostSkip \/ PostToken \/ PostEnds
Client(r) == Open(r) \/ Receive(r) \/ Disconnect(r)

Next == Take \/ Process \/ Update \/ \E r \in Requests : Client(r)

(* The main thread runs, a reader that has a result takes it, and a slot   *)
(* is not left out of the batch forever.  Nobody has to open a request, to *)
(* disconnect or to fail.                                                  *)
Fairness ==
    /\ WF_vars(Take \/ Process \/ Update)
    /\ \A r \in Requests : WF_vars(Receive(r))
    /\ \A s \in Slots : SF_vars(PrePrompt(s, "DONE_PROMPT")) /\ SF_vars(PreGenerating(s))

Spec == Init /\ [][Next]_vars /\ Fairness

-----------------------------------------------------------------------------
(* Properties.                                                             *)

PendingFor(r) == {i \in DOMAIN results : results[i].id \in IdsOf(r)}
ErrorPending(r) == \E i \in PendingFor(r) : results[i].kind = "error"
Reading(r) == reader[r].pc = "reading"

\* where task t is: a queued or deferred parent carries its children
Carried(t) == LET p == Parent(t) IN
    {i \in DOMAIN queue : queue[i] = Task(p)} \X {"queue"}
    \cup {i \in DOMAIN deferred : deferred[i] = Task(p)} \X {"deferred"}
    \cup {1} \X (IF hand = Task(p) THEN {"hand"} ELSE {})
InSlots(t) == {s \in Slots : slot[s].id = t}
Places(t)  == Cardinality(Carried(t)) + Cardinality(InSlots(t))

\* Every variable has its type (server_queue, server_response, server_slot).
TypeOK ==
    /\ queue \in Seq(Items) /\ deferred \in Seq({Task(t) : t \in Ids})
    /\ hand \in Items \cup {NoItem}
    /\ pc \in {"take", "process", "gen", "prompt", "decode", "post", "wait"}
    /\ turn \in Slots /\ batch \subseteq Slots
    /\ slot \in [Slots -> [state : SlotStates, id : Ids \cup {NoId}, n : Nat]]
    /\ waiting \subseteq Ids
    /\ results \in Seq([kind : {"partial", "final", "error"}, id : Ids])
    /\ reader \in [Requests -> [pc : {"new", "reading", "done", "failed", "stopped"}, received : Nat]]
    /\ answers \in [Ids -> Seq({"final", "error"})]

\* While its reader waits a task is in exactly one place - the queue, the
\* deferred queue, the main thread's hand or one slot - until it is answered, or
\* until an error of its request is on the way; and after that it is in none, so
\* that it is never run twice and never dropped in silence (launch, defer,
\* pop_deferred_task and release move it).  And the variables have their types.
InOnePlace ==
    /\ TypeOK
    /\ \A r \in Requests : \A t \in IdsOf(r) :
           /\ Places(t) <= 1
           /\ Reading(r) => Places(t) = 1 \/ Len(answers[t]) = 1 \/ ErrorPending(r)
           /\ answers[t] # <<>> => Places(t) = 0

\* Every answer sent to a reader that still waits was taken by it or is in
\* queue_results, no more than one per task and after all its partial results;
\* and queue_results holds nothing for a reader that has left.
AnswersReachReaders ==
    /\ \A r \in Requests : Reading(r) =>
          reader[r].received + Cardinality({i \in PendingFor(r) : results[i].kind # "partial"})
             = Cardinality({t \in IdsOf(r) : answers[t] # <<>>})
    /\ \A i, j \in DOMAIN results :
          i < j /\ results[i].id = results[j].id => results[i].kind = "partial"
    /\ \A t \in Ids : Len(answers[t]) <= 1
    /\ \A i \in DOMAIN results : Reading(Req(results[i].id))

\* A child that waits for the prompt of its parent, for a reader that is there,
\* has a parent that is still to process it, or the reader is about to learn of
\* an error and to cancel them all.
ChildHasParent ==
    \A s \in Slots : slot[s].state = "WAIT_OTHER" =>
        LET r == Req(slot[s].id)
        IN  \/ ~Reading(r) \/ ErrorPending(r)
            \/ \E p \in Slots : /\ slot[p].id = Id(r, 0)
                                /\ slot[p].state \in {"STARTED", "PROCESSING_PROMPT", "DONE_PROMPT"}

\* All slots are idle, the queue is empty, and yet tasks are deferred:
\* pop_deferred_task is called by release() only.
Stranded == deferred # <<>> /\ queue = <<>> /\ hand = NoItem /\ Processing = {}

\* A request gets its answers, an error, or gives up - or the server forgets it
\* among the deferred tasks.  And a child does not wait for ever: its parent gets
\* through the prompt, or the reader learns that it did not, and cancels the children
\* in their slots.
Answered ==
    /\ \A r \in Requests : Reading(r) ~> (~Reading(r) \/ Stranded)
    /\ \A s \in Slots :
          slot[s].state = "WAIT_OTHER" /\ Reading(Req(slot[s].id)) ~> slot[s].state # "WAIT_OTHER"

\* Without its queues this is RequestLife: the tasks of a request enter their slots
\* together, none leaves its slot unanswered while somebody waits for it, each gets one
\* verdict, and a reader is done only when all its tasks ended well, and failed only
\* when one of them did not.
Life == INSTANCE RequestLife WITH
    phase   <- [r \in Requests |-> reader[r].pc],
    running <- {slot[s].id : s \in Processing},
    verdict <- answers
ImplementsLife == Life!Spec
=============================================================================
