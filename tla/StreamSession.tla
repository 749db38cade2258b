--------------------------- MODULE StreamSession ---------------------------
(***************************************************************************)
(* tools/server: the resumable streams.                                    *)
(*                                                                         *)
(*   - a streaming POST that carries X-Conversation-Id installs a session  *)
(*     for its conversation (create_or_replace), tees every chunk into it  *)
(*     and, when its HTTP client leaves, drains the rest into it; a POST   *)
(*     that fails before streaming evicts the session again;               *)
(*   - a GET reads the session from an offset until it is finalized;       *)
(*   - a DELETE cancels and evicts; the GC thread drops old sessions; at   *)
(*     shutdown the main thread clears the map and finalizes what it held. *)
(*                                                                         *)
(* The map is changed under map_mu, and what was taken out of it is        *)
(* cancelled and finalized after map_mu is released: every thread holds    *)
(* such a session as its "victim" for some steps.  A session is named by   *)
(* the request that created it, a byte by its place in the request's       *)
(* output, so a buffer of the wrong bytes is visible.                      *)
(***************************************************************************)
EXTENDS Naturals, Sequences

CONSTANTS
    Convs,          \* conversation ids
    Requests,       \* POST requests, one session each
    Conv,           \* [Requests -> Convs]
    Deletes,        \* DELETE requests
    Readers,        \* GET requests
    NoSession,      \* a null stream_session_ptr
    Cap,            \* cap_bytes, STREAM_SESSION_MAX_BYTES
    ChunkSizes,     \* bound: sizes of the chunks next_orig returns
    MaxBytes,       \* bound: [Requests -> Nat] bytes a request generates
    Offsets         \* bound: the offsets a GET asks for

ASSUME StreamAssumption ==
    /\ Conv \in [Requests -> Convs] /\ NoSession \notin Requests
    /\ Cap \in Nat \ {0} /\ MaxBytes \in [Requests -> Nat] /\ ChunkSizes \subseteq Nat /\ Offsets \subseteq Nat

VARIABLES
    sessions,       \* stream_session_manager::sessions
    ses,            \* [Requests -> stream_session]
    req,            \* the thread of a POST: its place, its victim, the chunk in its hand
    del,            \* the thread of a DELETE
    main,           \* clean_up: stop_gc, then ctx_http.stop
    reader,         \* the thread of a GET
    produced        \* history: [Requests -> Nat] bytes next_orig returned

vars == <<sessions, ses, req, del, main, reader, produced>>

Fresh == [buffer |-> <<>>, prefix_dropped |-> 0, done |-> FALSE, cancelled |-> FALSE]
total_size(s) == ses[s].prefix_dropped + Len(ses[s].buffer)

Init ==
    /\ sessions = [c \in Convs |-> NoSession]
    /\ ses = [r \in Requests |-> Fresh]
    /\ req = [r \in Requests |-> [pc |-> "new", victim |-> NoSession, chunk |-> <<>>, more |-> TRUE,
                                  connected |-> TRUE, late |-> FALSE]]
    /\ del = [d \in Deletes |-> [pc |-> "new", victim |-> NoSession]]
    /\ main = [pc |-> "run", victims |-> {}]
    /\ reader = [g \in Readers |-> [pc |-> "new", session |-> NoSession, from |-> 0, got |-> <<>>, how |-> ""]]
    /\ produced = [r \in Requests |-> 0]

------------------------------------------------------------------------------
(* stream_session *)

\* Mutant: what is dropped is not counted.
appendUncounted(s, data) ==
    LET needed == Len(ses[s].buffer) + Len(data)
        to_drop == IF needed > Cap THEN needed - Cap ELSE 0
    IN  IF ses[s].done THEN ses
        ELSE [ses EXCEPT ![s].buffer = SubSeq(@ \o data, to_drop + 1, needed)]

\* append(): the front makes room; of a chunk beyond the cap (the code's other
\* branch) the same arithmetic keeps the tail.
append(s, data) ==
    LET needed == Len(ses[s].buffer) + Len(data)
        to_drop == IF needed > Cap THEN needed - Cap ELSE 0
    IN  IF ses[s].done THEN ses
        ELSE [ses EXCEPT ![s].buffer = SubSeq(@ \o data, to_drop + 1, needed),
                         ![s].prefix_dropped = @ + to_drop]

finalize(S) == [s \in Requests |-> IF s \in S THEN [ses[s] EXCEPT !.done = TRUE] ELSE ses[s]]

cancel(s) == [ses EXCEPT ![s].cancelled = TRUE]

------------------------------------------------------------------------------
(* The thread of a POST: server_res_spipe. *)

Goto(r, pc) == req' = [req EXCEPT ![r].pc = pc]
Drop(r, pc) == req' = [req EXCEPT ![r].pc = pc, ![r].victim = NoSession]

\* Mutant: the previous session is dropped, not ended.
create_only(r) ==
    /\ req[r].pc = "new" /\ main.pc # "down"
    /\ sessions' = [sessions EXCEPT ![Conv[r]] = r]
    /\ req' = [req EXCEPT ![r].late = main.pc # "run", ![r].pc = "handler"]
    /\ UNCHANGED <<ses, del, main, reader, produced>>

\* set_req() -> create_or_replace(): the swap, under map_mu.
create_or_replace(r) ==
    LET previous == sessions[Conv[r]] IN
    /\ req[r].pc = "new" /\ main.pc # "down"
    /\ sessions' = [sessions EXCEPT ![Conv[r]] = r]
    /\ req' = [req EXCEPT ![r].victim = previous, ![r].late = main.pc # "run",
                          ![r].pc = IF previous = NoSession THEN "handler" ELSE "cancel"]
    /\ UNCHANGED <<ses, del, main, reader, produced>>

CancelPrevious(r) ==
    /\ req[r].pc = "cancel"
    /\ ses' = cancel(req[r].victim)
    /\ Goto(r, "finalize")
    /\ UNCHANGED <<sessions, del, main, reader, produced>>

FinalizePrevious(r) ==
    /\ req[r].pc = "finalize"
    /\ ses' = finalize({req[r].victim})
    /\ Drop(r, "handler")
    /\ UNCHANGED <<sessions, del, main, reader, produced>>

\* handle_completions_impl(): set_next() when the first result is there.
set_next(r) ==
    /\ req[r].pc = "handler"
    /\ Goto(r, "stream")
    /\ UNCHANGED <<sessions, ses, del, main, reader, produced>>

\* The HTTP client leaves: httplib calls on_complete(), which drains next_orig.
Disconnect(r) ==
    /\ req[r].pc = "stream" /\ req[r].connected
    /\ req' = [req EXCEPT ![r].connected = FALSE]
    /\ UNCHANGED <<sessions, ses, del, main, reader, produced>>

\* Mutant: the stream ends with its connection.
conn_alive_too(r) == ses[r].cancelled \/ ~req[r].connected

\* server_res_spipe::should_stop(), which next_orig polls.
should_stop(r) == ses[r].cancelled

\* next_orig(): a chunk, and whether more follow.
next_orig(r) ==
    /\ req[r].pc = "stream" /\ ~should_stop(r)
    /\ \E n \in ChunkSizes, more \in BOOLEAN :
        /\ produced[r] + n <= MaxBytes[r]
        /\ n = 0 => ~more
        /\ req' = [req EXCEPT ![r].pc = "write", ![r].more = more,
                              ![r].chunk = [i \in 1 .. n |-> produced[r] + i - 1]]
        /\ produced' = [produced EXCEPT ![r] = @ + n]
    /\ UNCHANGED <<sessions, ses, del, main, reader>>

\* next_orig() returns false on should_stop, as does the loop of on_complete().
StopProducing(r) ==
    /\ req[r].pc = "stream" /\ should_stop(r)
    /\ Goto(r, "destroy")
    /\ UNCHANGED <<sessions, ses, del, main, reader, produced>>

\* spipe->write(): the result is not looked at.
write(r) ==
    /\ req[r].pc = "write"
    /\ ses' = append(r, req[r].chunk)
    /\ req' = [req EXCEPT ![r].chunk = <<>>, ![r].pc = IF req[r].more THEN "stream" ELSE "destroy"]
    /\ UNCHANGED <<sessions, del, main, reader, produced>>

\* No set_next(): an invalid request, a first error, a peer that left, a reply
\* that is not a stream.  on_complete(): evict(conversation id), under map_mu ...
evict(r) ==
    LET s == sessions[Conv[r]] IN
    /\ req[r].pc = "handler"
    /\ sessions' = [sessions EXCEPT ![Conv[r]] = NoSession]
    /\ req' = [req EXCEPT ![r].victim = s, ![r].pc = IF s = NoSession THEN "destroy" ELSE "evicted"]
    /\ UNCHANGED <<ses, del, main, reader, produced>>

\* ... and s->finalize() outside it.
FinalizeEvicted(r) ==
    /\ req[r].pc = "evicted"
    /\ ses' = finalize({req[r].victim})
    /\ Drop(r, "destroy")
    /\ UNCHANGED <<sessions, del, main, reader, produced>>

\* Mutant: the producer's end does not finalize.
DestroyOnly(r) ==
    /\ req[r].pc = "destroy"
    /\ req' = [req EXCEPT ![r].pc = "end", ![r].connected = FALSE]
    /\ UNCHANGED <<sessions, ses, del, main, reader, produced>>

\* The response is destroyed: ~stream_pipe_producer().
DestroyProducer(r) ==
    /\ req[r].pc = "destroy"
    /\ ses' = finalize({r})
    /\ req' = [req EXCEPT ![r].pc = "end", ![r].connected = FALSE]
    /\ UNCHANGED <<sessions, del, main, reader, produced>>

------------------------------------------------------------------------------
(* DELETE: evict_and_cancel() *)

evict_and_cancel(d) ==
    /\ del[d].pc = "new" /\ main.pc # "down"
    /\ \E c \in Convs :
        /\ sessions' = [sessions EXCEPT ![c] = NoSession]
        /\ del' = [del EXCEPT ![d] = [pc |-> IF sessions[c] = NoSession THEN "end" ELSE "cancel",
                                      victim |-> sessions[c]]]
    /\ UNCHANGED <<ses, req, main, reader, produced>>

CancelDeleted(d) ==
    /\ del[d].pc = "cancel"
    /\ ses' = cancel(del[d].victim)
    /\ del' = [del EXCEPT ![d].pc = "finalize"]
    /\ UNCHANGED <<sessions, req, main, reader, produced>>

FinalizeDeleted(d) ==
    /\ del[d].pc = "finalize"
    /\ ses' = finalize({del[d].victim})
    /\ del' = [del EXCEPT ![d] = [pc |-> "end", victim |-> NoSession]]
    /\ UNCHANGED <<sessions, req, main, reader, produced>>

------------------------------------------------------------------------------
(* The GC thread and the shutdown *)

\* gc_loop(): completed sessions, when their TTL is over (a choice).  They are
\* done already, so that the finalize() that follows returns at once.
gc_loop ==
    LET completed == {c \in Convs : sessions[c] # NoSession /\ ses[sessions[c]].done} IN
    /\ main.pc = "run"
    /\ \E to_drop \in (SUBSET completed) \ {{}} :
        sessions' = [c \in Convs |-> IF c \in to_drop THEN NoSession ELSE sessions[c]]
    /\ UNCHANGED <<ses, req, del, main, reader, produced>>

\* stop_gc(): the snapshot and the clear, under map_mu ...
stop_gc ==
    /\ main.pc = "run"
    /\ main' = [pc |-> "finalize", victims |-> {sessions[c] : c \in Convs} \ {NoSession}]
    /\ sessions' = [c \in Convs |-> NoSession]
    /\ UNCHANGED <<ses, req, del, reader, produced>>

\* ... then finalize() one after the other,
FinalizeLive ==
    /\ main.pc = "finalize"
    /\ \E s \in main.victims :
        /\ ses' = finalize({s})
        /\ main' = [main EXCEPT !.victims = @ \ {s}]
    /\ UNCHANGED <<sessions, req, del, reader, produced>>

\* and clean_up goes on to ctx_http.stop(): no request is accepted any more.
StopHttp ==
    /\ main.pc = "finalize" /\ main.victims = {}
    /\ main' = [main EXCEPT !.pc = "down"]
    /\ UNCHANGED <<sessions, ses, req, del, reader, produced>>

------------------------------------------------------------------------------
(* GET: the handler, then next() once per chunk *)

End(g, how) == reader' = [reader EXCEPT ![g].pc = "end", ![g].how = how]

\* get(conv_id), or 404.
get(g) ==
    /\ reader[g].pc = "new" /\ main.pc # "down"
    /\ \E c \in Convs, from \in Offsets :
        reader' = [reader EXCEPT ![g].session = sessions[c], ![g].from = from,
                                 ![g].pc = IF sessions[c] = NoSession THEN "end" ELSE "check"]
    /\ UNCHANGED <<sessions, ses, req, del, main, produced>>

\* "from" against dropped_prefix(): 400, or the stream starts.
CheckFrom(g) ==
    /\ reader[g].pc = "check"
    /\ IF reader[g].from < ses[reader[g].session].prefix_dropped
       THEN End(g, "refused")
       ELSE reader' = [reader EXCEPT ![g].pc = "read"]
    /\ UNCHANGED <<sessions, ses, req, del, main, produced>>

offset(g) == reader[g].from + Len(reader[g].got)

\* Mutant: what was dropped is skipped.
read_on(g) ==
    LET s == ses[reader[g].session]
        at == IF offset(g) < s.prefix_dropped THEN s.prefix_dropped ELSE offset(g)
    IN  /\ reader[g].pc = "read"
        /\ at < s.prefix_dropped + Len(s.buffer)
        /\ reader' = [reader EXCEPT ![g].got = @ \o SubSeq(s.buffer, at - s.prefix_dropped + 1, Len(s.buffer))]
        /\ UNCHANGED <<sessions, ses, req, del, main, produced>>

\* read_from(): what is there from the offset on; the sink takes it and returns false.
read_from(g) ==
    LET s == ses[reader[g].session] IN
    /\ reader[g].pc = "read"
    /\ offset(g) \in s.prefix_dropped .. s.prefix_dropped + Len(s.buffer) - 1
    /\ reader' = [reader EXCEPT ![g].got = @ \o SubSeq(s.buffer, offset(g) - s.prefix_dropped + 1, Len(s.buffer))]
    /\ UNCHANGED <<sessions, ses, req, del, main, produced>>

\* OFFSET_LOST, which next() does not look at: nothing was read, so the stream ends.
OffsetLost(g) ==
    /\ reader[g].pc = "read" /\ offset(g) < ses[reader[g].session].prefix_dropped
    /\ End(g, "lost")
    /\ UNCHANGED <<sessions, ses, req, del, main, produced>>

\* At the end of what was appended, and done; else cv.wait_for.
ReadDone(g) ==
    LET s == ses[reader[g].session] IN
    /\ reader[g].pc = "read" /\ s.done
    /\ offset(g) >= s.prefix_dropped + Len(s.buffer)
    /\ End(g, "done")
    /\ UNCHANGED <<sessions, ses, req, del, main, produced>>

\* should_stop: the reader's own client has left.
ReadStopped(g) ==
    /\ reader[g].pc = "read"
    /\ End(g, "stopped")
    /\ UNCHANGED <<sessions, ses, req, del, main, produced>>

------------------------------------------------------------------------------
Producer(r) ==
    \/ CancelPrevious(r) \/ FinalizePrevious(r)
    \/ StopProducing(r) \/ write(r)
    \/ FinalizeEvicted(r) \/ DestroyProducer(r)

\* What waits for a result of the main loop.
Generation(r) == set_next(r) \/ evict(r) \/ next_orig(r)

Deleter(d) == CancelDeleted(d) \/ FinalizeDeleted(d)

Reader(g) == CheckFrom(g) \/ read_from(g) \/ OffsetLost(g) \/ ReadDone(g)

Next ==
    \/ \E r \in Requests : create_or_replace(r) \/ Producer(r) \/ Generation(r) \/ Disconnect(r)
    \/ \E d \in Deletes : evict_and_cancel(d) \/ Deleter(d)
    \/ gc_loop \/ stop_gc \/ FinalizeLive \/ StopHttp
    \/ \E g \in Readers : get(g) \/ Reader(g) \/ ReadStopped(g)

Spec == Init /\ [][Next]_vars

\* Threads run; a result comes only while the main loop does (clean_up follows it).
Fairness ==
    /\ \A r \in Requests : WF_vars(Producer(r)) /\ WF_vars(main.pc = "run" /\ Generation(r))
    /\ \A d \in Deletes : WF_vars(Deleter(d))
    /\ WF_vars(FinalizeLive) /\ WF_vars(StopHttp)
    /\ \A g \in Readers : WF_vars(Reader(g))

FairSpec == Spec /\ Fairness

------------------------------------------------------------------------------
(* Properties *)

\* The variables keep their types (server-stream.cpp, server_res_spipe).
TypeOK ==
    /\ sessions \in [Convs -> Requests \cup {NoSession}]
    /\ ses \in [Requests -> [buffer : Seq(Nat), prefix_dropped : Nat, done : BOOLEAN, cancelled : BOOLEAN]]
    /\ req \in [Requests -> [pc : {"new", "cancel", "finalize", "handler", "stream", "write", "evicted",
                                   "destroy", "end"},
                             victim : Requests \cup {NoSession}, chunk : Seq(Nat), more : BOOLEAN,
                             connected : BOOLEAN, late : BOOLEAN]]
    /\ del \in [Deletes -> [pc : {"new", "cancel", "finalize", "end"}, victim : Requests \cup {NoSession}]]
    /\ main \in [pc : {"run", "finalize", "down"}, victims : SUBSET Requests]
    /\ reader \in [Readers -> [pc : {"new", "check", "read", "end"}, session : Requests \cup {NoSession}, from : Nat,
                               got : Seq(Nat), how : {"", "refused", "lost", "done", "stopped"}]]
    /\ produced \in [Requests -> Nat]

IsTail ==
    \A s \in Requests :
        /\ Len(ses[s].buffer) <= Cap
        /\ ses[s].prefix_dropped > 0 => Len(ses[s].buffer) = Cap
        /\ \A i \in 1 .. Len(ses[s].buffer) : ses[s].buffer[i] = ses[s].prefix_dropped + i - 1

\* The buffer is the tail of the output, at the offsets the readers use, within
\* the cap, and nothing is dropped while there is room (append); every variable has
\* its type (server_res_spipe).
BufferIsTail == TypeOK /\ IsTail

\* Whatever the readers were late for: a GET gets the bytes from its offset on,
\* without a gap or a repetition, also when append() drops the front between
\* two of its reads; it ends with "done" only after the last byte (read_from).
ReplayIsExact ==
    \A g \in Readers :
        /\ \A i \in 1 .. Len(reader[g].got) : reader[g].got[i] = reader[g].from + i - 1
        /\ reader[g].how = "done" => offset(g) >= total_size(reader[g].session) /\ ses[reader[g].session].done

\* The threads that hold session s outside the map.
WillFinalize(s) ==
    \/ \E r \in Requests : req[r].victim = s /\ req[r].pc \in {"cancel", "finalize", "evicted"}
    \/ \E d \in Deletes : del[d].victim = s /\ del[d].pc \in {"cancel", "finalize"}
    \/ s \in main.victims

\* "One conv = at most one live session": with three threads at it, a session
\* that has left the map is finalized, or some thread has it in hand to do so.
OrphansAreFinalized ==
    \A s \in Requests :
        req[s].pc # "new" /\ sessions[Conv[s]] # s => ses[s].done \/ WillFinalize(s)

\* A session one can still find holds the whole output, whatever became of the
\* client: it is not done before its producer is, and then nothing is missing.
SurvivesDisconnect ==
    \A r \in Requests : sessions[Conv[r]] = r =>
        /\ ses[r].done => req[r].pc = "end"
        /\ total_size(r) + Len(req[r].chunk) = produced[r]
        /\ req[r].pc = "end" => ~req[r].more

\* "finalize all live sessions so no reader ever hangs" (stop_gc): a reader ends
\* by itself, unless its session was created after stop_gc had cleared the map.
ReadersEnd ==
    \A g \in Readers : reader[g].pc = "read" /\ ~req[reader[g].session].late ~> reader[g].pc = "end"
=============================================================================
