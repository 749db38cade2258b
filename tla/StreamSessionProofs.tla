------------------------ MODULE StreamSessionProofs ------------------------
(***************************************************************************)
(* Theorems of StreamSession, for any number of conversations, requests,   *)
(* readers and bytes.                                                      *)
(***************************************************************************)
EXTENDS StreamSession, SequenceTheorems, TLAPS

PCs     == {"new", "cancel", "finalize", "handler", "stream", "write", "evicted", "destroy", "end"}
ReqType == [pc : PCs, victim : Requests \cup {NoSession}, chunk : Seq(Nat), more : BOOLEAN,
            connected : BOOLEAN, late : BOOLEAN]
SesType == [buffer : Seq(Nat), prefix_dropped : Nat, done : BOOLEAN, cancelled : BOOLEAN]
DelType == [pc : {"new", "cancel", "finalize", "end"}, victim : Requests \cup {NoSession}]
GetType == [pc : {"new", "check", "read", "end"}, session : Requests \cup {NoSession}, from : Nat,
            got : Seq(Nat), how : {"", "refused", "lost", "done", "stopped"}]

-----------------------------------------------------------------------------
(* append()                                                                *)

\* The end of a sequence, from its m-th element on.
LEMMA EndOf ==
    ASSUME NEW all \in Seq(Nat), NEW m \in Nat, NEW len \in Nat, m >= 1, len = Len(all), m <= len + 1
    PROVE  /\ SubSeq(all, m, len) \in Seq(Nat)
           /\ Len(SubSeq(all, m, len)) = len - m + 1
           /\ \A i \in 1 .. len - m + 1 : SubSeq(all, m, len)[i] = all[m + i - 1]
<1>1. m \in Int /\ len \in Int /\ \A i \in m .. len : all[i] \in Nat
  OBVIOUS
<1>2. /\ SubSeq(all, m, len) \in Seq(Nat)
      /\ Len(SubSeq(all, m, len)) = IF m <= len THEN len - m + 1 ELSE 0
      /\ \A i \in 1 .. len - m + 1 : SubSeq(all, m, len)[i] = all[m + i - 1]
   BY <1>1, SubSeqProperties
<1> QED BY <1>2

\* What is left of a buffer and a chunk once the first n bytes are dropped.
LEMMA KeptBytes ==
    ASSUME NEW buf \in Seq(Nat), NEW data \in Seq(Nat), NEW n \in Nat, NEW len \in Nat,
           len = Len(buf) + Len(data), n <= len
    PROVE  /\ SubSeq(buf \o data, n + 1, len) \in Seq(Nat)
           /\ Len(SubSeq(buf \o data, n + 1, len)) = len - n
           /\ \A i \in 1 .. len - n :
                 SubSeq(buf \o data, n + 1, len)[i] = IF i + n <= Len(buf) THEN buf[i + n] ELSE data[i + n - Len(buf)]
<1> DEFINE all == buf \o data
<1>1. /\ all \in Seq(Nat) /\ Len(all) = len
      /\ \A i \in 1 .. len : all[i] = IF i <= Len(buf) THEN buf[i] ELSE data[i - Len(buf)]
  OBVIOUS
<1> HIDE DEF all
<1>2. /\ SubSeq(all, n + 1, len) \in Seq(Nat)
      /\ Len(SubSeq(all, n + 1, len)) = len - (n + 1) + 1
      /\ \A i \in 1 .. len - (n + 1) + 1 : SubSeq(all, n + 1, len)[i] = all[n + 1 + i - 1]
  BY <1>1, EndOf, SMTT(30)
<1>3. ASSUME NEW i \in 1 .. len - n
      PROVE  SubSeq(all, n + 1, len)[i] = IF i + n <= Len(buf) THEN buf[i + n] ELSE data[i + n - Len(buf)]
  <2>1. i + n \in 1 .. len /\ n + 1 + i - 1 = i + n /\ i \in 1 .. len - (n + 1) + 1
    OBVIOUS
  <2>2. SubSeq(all, n + 1, len)[i] = all[i + n]
    BY <2>1, <1>2
  <2> QED BY <2>1, <2>2, <1>1, SMTT(30)
<1>4. len - (n + 1) + 1 = len - n
  OBVIOUS
<1> QED BY <1>2, <1>3, <1>4 DEF all

\* append() to a session that is not done drops no more than it must, and
\* keeps what follows of the old bytes and the new ones.
LEMMA Appended ==
    ASSUME ses \in [Requests -> SesType], NEW s \in Requests, NEW data \in Seq(Nat), ~ses[s].done
    PROVE  /\ append(s, data) \in [Requests -> SesType]
           /\ \A t \in Requests \ {s} : append(s, data)[t] = ses[t]
           /\ append(s, data)[s].done = ses[s].done
           /\ append(s, data)[s].cancelled = ses[s].cancelled
           /\ Len(append(s, data)[s].buffer) <= Cap
           /\ \E n \in Nat :
                 /\ append(s, data)[s].prefix_dropped = ses[s].prefix_dropped + n
                 /\ Len(append(s, data)[s].buffer) = Len(ses[s].buffer) + Len(data) - n
                 /\ n > 0 => Len(append(s, data)[s].buffer) = Cap
                 /\ \A i \in 1 .. Len(append(s, data)[s].buffer) :
                       append(s, data)[s].buffer[i] =
                          IF i + n <= Len(ses[s].buffer) THEN ses[s].buffer[i + n]
                                                         ELSE data[i + n - Len(ses[s].buffer)]
<1> DEFINE buf  == ses[s].buffer
           len  == Len(buf) + Len(data)
           n    == IF len > Cap THEN len - Cap ELSE 0
           kept == SubSeq(buf \o data, n + 1, len)
           pre  == ses[s].prefix_dropped + n
<1>1. buf \in Seq(Nat) /\ ses[s].prefix_dropped \in Nat
  BY DEF SesType
<1>2. /\ n \in Nat /\ len \in Nat /\ n <= len /\ len = Len(buf) + Len(data)
      /\ len - n <= Cap /\ (n > 0 => len - n = Cap)
  BY <1>1, StreamAssumption
<1>3. append(s, data) = [ses EXCEPT ![s].buffer = kept, ![s].prefix_dropped = pre]
  BY DEF append
<1> HIDE DEF buf, len, n
<1>4. /\ kept \in Seq(Nat)
      /\ Len(kept) = len - n
      /\ \A i \in 1 .. len - n : kept[i] = IF i + n <= Len(buf) THEN buf[i + n] ELSE data[i + n - Len(buf)]
  <2>1. n \in Nat /\ len \in Nat /\ len = Len(buf) + Len(data) /\ n <= len
    BY <1>2
  <2>2. buf \in Seq(Nat) /\ data \in Seq(Nat)
    BY <1>1
  <2>3. /\ SubSeq(buf \o data, n + 1, len) \in Seq(Nat)
        /\ Len(SubSeq(buf \o data, n + 1, len)) = len - n
        /\ \A i \in 1 .. len - n : SubSeq(buf \o data, n + 1, len)[i] =
              IF i + n <= Len(buf) THEN buf[i + n] ELSE data[i + n - Len(buf)]
    BY ONLY <2>1, <2>2, KeptBytes, SMTT(60)
  <2> QED BY <2>3
<1>5. pre \in Nat /\ pre = ses[s].prefix_dropped + n
  BY <1>1, <1>2
<1> HIDE DEF kept, pre
<1>6. append(s, data) \in [Requests -> SesType]
  BY <1>3, <1>4, <1>5, ZenonT(30) DEF SesType
<1>7. /\ \A t \in Requests \ {s} : append(s, data)[t] = ses[t]
      /\ append(s, data)[s].done = ses[s].done
      /\ append(s, data)[s].cancelled = ses[s].cancelled
      /\ append(s, data)[s].buffer = kept
      /\ append(s, data)[s].prefix_dropped = pre
  BY <1>3 DEF SesType
<1>8. Len(kept) = Len(buf) + Len(data) - n /\ Len(kept) <= Cap /\ (n > 0 => Len(kept) = Cap)
  BY <1>2, <1>4
<1>9. \A i \in 1 .. Len(kept) : kept[i] = IF i + n <= Len(buf) THEN buf[i + n] ELSE data[i + n - Len(buf)]
  BY <1>4
<1> QED BY <1>2, <1>5, <1>6, <1>7, <1>8, <1>9 DEF buf

\* Whatever is appended, the sessions keep their type.
LEMMA AppendType ==
    ASSUME ses \in [Requests -> SesType], NEW s \in Requests, NEW data \in Seq(Nat)
    PROVE  append(s, data) \in [Requests -> SesType]
<1>1. CASE ses[s].done
  BY <1>1 DEF append
<1>2. CASE ~ses[s].done
  BY <1>2, Appended
<1> QED BY <1>1, <1>2

-----------------------------------------------------------------------------
(* Type correctness.                                                       *)

\* A thread that is about to end a session has one, and so has a GET that reads.
InHand ==
    /\ \A r \in Requests : req[r].pc \in {"cancel", "finalize", "evicted"} => req[r].victim \in Requests
    /\ \A d \in Deletes : del[d].pc \in {"cancel", "finalize"} => del[d].victim \in Requests
    /\ \A g \in Readers : reader[g].pc \in {"check", "read"} => reader[g].session \in Requests

Typed ==
    /\ sessions \in [Convs -> Requests \cup {NoSession}]
    /\ ses \in [Requests -> SesType]
    /\ req \in [Requests -> ReqType]
    /\ del \in [Deletes -> DelType]
    /\ main \in [pc : {"run", "finalize", "down"}, victims : SUBSET Requests]
    /\ reader \in [Readers -> GetType]
    /\ produced \in [Requests -> Nat]
    /\ InHand

\* finalize() and cancel() keep the type of every session.
LEMMA EndType ==
    ASSUME ses \in [Requests -> SesType]
    PROVE  /\ \A S : finalize(S) \in [Requests -> SesType]
           /\ \A s \in Requests : cancel(s) \in [Requests -> SesType]
BY DEF finalize, cancel, SesType

\* The bytes of a chunk.
LEMMA ChunkType ==
    ASSUME NEW n \in Nat, NEW p \in Nat
    PROVE  [i \in 1 .. n |-> p + i - 1] \in Seq(Nat)
<1>1. [i \in 1 .. n |-> p + i - 1] \in [1 .. n -> Nat]
  OBVIOUS
<1> QED BY <1>1

\* A POST goes on to v.
LEMMA RequestTo ==
    ASSUME Typed, NEW r \in Requests, NEW v \in ReqType, req' = [req EXCEPT ![r] = v],
           v.pc \in {"cancel", "finalize", "evicted"} => v.victim \in Requests,
           sessions' \in [Convs -> Requests \cup {NoSession}], ses' \in [Requests -> SesType],
           produced' \in [Requests -> Nat], UNCHANGED <<del, main, reader>>
    PROVE  Typed'
<1>1. /\ req' \in [Requests -> ReqType] /\ req'[r] = v
      /\ \A x \in Requests : x # r => req'[x] = req[x]
  BY DEF Typed
<1>2. InHand'
  BY <1>1 DEF Typed, InHand
<1> QED BY <1>1, <1>2 DEF Typed

\* A step of a POST keeps the types.
LEMMA RequestTyped ==
    ASSUME Typed, NEW r \in Requests,
           create_or_replace(r) \/ Producer(r) \/ Generation(r) \/ Disconnect(r)
    PROVE  Typed'
<1> DEFINE Slots == Requests \cup {NoSession}
<1>0. /\ ses \in [Requests -> SesType] /\ req[r] \in ReqType
      /\ \A S : finalize(S) \in [Requests -> SesType]
      /\ \A s \in Requests : cancel(s) \in [Requests -> SesType]
      /\ sessions \in [Convs -> Slots] /\ sessions[Conv[r]] \in Slots /\ Conv[r] \in Convs
      /\ [sessions EXCEPT ![Conv[r]] = r] \in [Convs -> Slots]
      /\ [sessions EXCEPT ![Conv[r]] = NoSession] \in [Convs -> Slots]
      /\ produced \in [Requests -> Nat]
      /\ req[r].pc \in {"cancel", "finalize", "evicted"} => req[r].victim \in Requests
  BY EndType, StreamAssumption DEF Typed, InHand
<1>1. CASE create_or_replace(r)
  <2> DEFINE v == [req[r] EXCEPT !.victim = sessions[Conv[r]], !.late = main.pc # "run",
                         !.pc = IF sessions[Conv[r]] = NoSession THEN "handler" ELSE "cancel"]
  <2>1. v \in ReqType /\ (v.pc \in {"cancel", "finalize", "evicted"} => v.victim \in Requests)
    BY <1>0, <1>1 DEF create_or_replace, ReqType, PCs
  <2>2. req' = [req EXCEPT ![r] = v]
    BY <1>1 DEF create_or_replace
  <2>3. sessions' \in [Convs -> Slots] /\ ses' \in [Requests -> SesType] /\ produced' \in [Requests -> Nat]
    BY <1>0, <1>1 DEF create_or_replace
  <2>4. UNCHANGED <<del, main, reader>>
    BY <1>1 DEF create_or_replace
  <2> HIDE DEF v
  <2> QED BY <2>1, <2>2, <2>3, <2>4, RequestTo
<1>2. CASE CancelPrevious(r)
  <2> DEFINE v == [req[r] EXCEPT !.pc = "finalize"]
  <2>1. v \in ReqType /\ (v.pc \in {"cancel", "finalize", "evicted"} => v.victim \in Requests)
    BY <1>0, <1>2 DEF CancelPrevious, ReqType, PCs
  <2>2. req' = [req EXCEPT ![r] = v]
    BY <1>2 DEF CancelPrevious, Goto
  <2>3. sessions' \in [Convs -> Slots] /\ ses' \in [Requests -> SesType] /\ produced' \in [Requests -> Nat]
    BY <1>0, <1>2 DEF CancelPrevious
  <2>4. UNCHANGED <<del, main, reader>>
    BY <1>2 DEF CancelPrevious
  <2> HIDE DEF v
  <2> QED BY <2>1, <2>2, <2>3, <2>4, RequestTo
<1>3. CASE FinalizePrevious(r)
  <2> DEFINE v == [req[r] EXCEPT !.pc = "handler", !.victim = NoSession]
  <2>1. v \in ReqType /\ (v.pc \in {"cancel", "finalize", "evicted"} => v.victim \in Requests)
    BY <1>0, <1>3 DEF FinalizePrevious, ReqType, PCs
  <2>2. req' = [req EXCEPT ![r] = v]
    BY <1>3 DEF FinalizePrevious, Drop
  <2>3. sessions' \in [Convs -> Slots] /\ ses' \in [Requests -> SesType] /\ produced' \in [Requests -> Nat]
    BY <1>0, <1>3 DEF FinalizePrevious
  <2>4. UNCHANGED <<del, main, reader>>
    BY <1>3 DEF FinalizePrevious
  <2> HIDE DEF v
  <2> QED BY <2>1, <2>2, <2>3, <2>4, RequestTo
<1>4. CASE StopProducing(r)
  <2> DEFINE v == [req[r] EXCEPT !.pc = "destroy"]
  <2>1. v \in ReqType /\ (v.pc \in {"cancel", "finalize", "evicted"} => v.victim \in Requests)
    BY <1>0, <1>4 DEF StopProducing, ReqType, PCs
  <2>2. req' = [req EXCEPT ![r] = v]
    BY <1>4 DEF StopProducing, Goto
  <2>3. sessions' \in [Convs -> Slots] /\ ses' \in [Requests -> SesType] /\ produced' \in [Requests -> Nat]
    BY <1>0, <1>4 DEF StopProducing
  <2>4. UNCHANGED <<del, main, reader>>
    BY <1>4 DEF StopProducing
  <2> HIDE DEF v
  <2> QED BY <2>1, <2>2, <2>3, <2>4, RequestTo
<1>5. CASE write(r)
  <2>0. req[r].chunk \in Seq(Nat)
    BY <1>0 DEF ReqType
  <2> DEFINE v == [req[r] EXCEPT !.chunk = <<>>, !.pc = IF req[r].more THEN "stream" ELSE "destroy"]
  <2>1. v \in ReqType /\ (v.pc \in {"cancel", "finalize", "evicted"} => v.victim \in Requests)
    <3> DEFINE empty == <<>>
               pc == IF req[r].more THEN "stream" ELSE "destroy"
    <3>1. empty \in Seq(Nat) /\ pc \in {"stream", "destroy"}
      OBVIOUS
    <3> HIDE DEF empty, pc
    <3>2. [req[r] EXCEPT !.chunk = empty, !.pc = pc] \in ReqType
      BY <1>0, <3>1 DEF ReqType, PCs
    <3>3. v = [req[r] EXCEPT !.chunk = empty, !.pc = pc]
      BY DEF empty, pc
    <3>4. v.pc = pc
      BY <1>0, <3>3 DEF ReqType
    <3> QED BY <3>1, <3>2, <3>3, <3>4
  <2>2. req' = [req EXCEPT ![r] = v]
    BY <1>5 DEF write
  <2>3. sessions' \in [Convs -> Slots] /\ ses' \in [Requests -> SesType] /\ produced' \in [Requests -> Nat]
    BY <1>0, <1>5, <2>0, AppendType DEF write
  <2>4. UNCHANGED <<del, main, reader>>
    BY <1>5 DEF write
  <2> HIDE DEF v
  <2> QED BY <2>1, <2>2, <2>3, <2>4, RequestTo
<1>6. CASE FinalizeEvicted(r)
  <2> DEFINE v == [req[r] EXCEPT !.pc = "destroy", !.victim = NoSession]
  <2>1. v \in ReqType /\ (v.pc \in {"cancel", "finalize", "evicted"} => v.victim \in Requests)
    BY <1>0, <1>6 DEF FinalizeEvicted, ReqType, PCs
  <2>2. req' = [req EXCEPT ![r] = v]
    BY <1>6 DEF FinalizeEvicted, Drop
  <2>3. sessions' \in [Convs -> Slots] /\ ses' \in [Requests -> SesType] /\ produced' \in [Requests -> Nat]
    BY <1>0, <1>6 DEF FinalizeEvicted
  <2>4. UNCHANGED <<del, main, reader>>
    BY <1>6 DEF FinalizeEvicted
  <2> HIDE DEF v
  <2> QED BY <2>1, <2>2, <2>3, <2>4, RequestTo
<1>7. CASE DestroyProducer(r)
  <2> DEFINE v == [req[r] EXCEPT !.pc = "end", !.connected = FALSE]
  <2>1. v \in ReqType /\ (v.pc \in {"cancel", "finalize", "evicted"} => v.victim \in Requests)
    BY <1>0, <1>7 DEF DestroyProducer, ReqType, PCs
  <2>2. req' = [req EXCEPT ![r] = v]
    BY <1>7 DEF DestroyProducer
  <2>3. sessions' \in [Convs -> Slots] /\ ses' \in [Requests -> SesType] /\ produced' \in [Requests -> Nat]
    BY <1>0, <1>7 DEF DestroyProducer
  <2>4. UNCHANGED <<del, main, reader>>
    BY <1>7 DEF DestroyProducer
  <2> HIDE DEF v
  <2> QED BY <2>1, <2>2, <2>3, <2>4, RequestTo
<1>8. CASE set_next(r)
  <2> DEFINE v == [req[r] EXCEPT !.pc = "stream"]
  <2>1. v \in ReqType /\ (v.pc \in {"cancel", "finalize", "evicted"} => v.victim \in Requests)
    BY <1>0, <1>8 DEF set_next, ReqType, PCs
  <2>2. req' = [req EXCEPT ![r] = v]
    BY <1>8 DEF set_next, Goto
  <2>3. sessions' \in [Convs -> Slots] /\ ses' \in [Requests -> SesType] /\ produced' \in [Requests -> Nat]
    BY <1>0, <1>8 DEF set_next
  <2>4. UNCHANGED <<del, main, reader>>
    BY <1>8 DEF set_next
  <2> HIDE DEF v
  <2> QED BY <2>1, <2>2, <2>3, <2>4, RequestTo
<1>9. CASE evict(r)
  <2> DEFINE v == [req[r] EXCEPT !.victim = sessions[Conv[r]], !.pc = IF sessions[Conv[r]] = NoSession THEN "destroy" ELSE "evicted"]
  <2>1. v \in ReqType /\ (v.pc \in {"cancel", "finalize", "evicted"} => v.victim \in Requests)
    BY <1>0, <1>9 DEF evict, ReqType, PCs
  <2>2. req' = [req EXCEPT ![r] = v]
    BY <1>9 DEF evict
  <2>3. sessions' \in [Convs -> Slots] /\ ses' \in [Requests -> SesType] /\ produced' \in [Requests -> Nat]
    BY <1>0, <1>9 DEF evict
  <2>4. UNCHANGED <<del, main, reader>>
    BY <1>9 DEF evict
  <2> HIDE DEF v
  <2> QED BY <2>1, <2>2, <2>3, <2>4, RequestTo
<1>10. CASE Disconnect(r)
  <2> DEFINE v == [req[r] EXCEPT !.connected = FALSE]
  <2>1. v \in ReqType /\ (v.pc \in {"cancel", "finalize", "evicted"} => v.victim \in Requests)
    BY <1>0, <1>10 DEF Disconnect, ReqType, PCs
  <2>2. req' = [req EXCEPT ![r] = v]
    BY <1>10 DEF Disconnect
  <2>3. sessions' \in [Convs -> Slots] /\ ses' \in [Requests -> SesType] /\ produced' \in [Requests -> Nat]
    BY <1>0, <1>10 DEF Disconnect
  <2>4. UNCHANGED <<del, main, reader>>
    BY <1>10 DEF Disconnect
  <2> HIDE DEF v
  <2> QED BY <2>1, <2>2, <2>3, <2>4, RequestTo
<1>11. CASE next_orig(r)
  <2>0. PICK n \in ChunkSizes, more \in BOOLEAN :
          /\ req' = [req EXCEPT ![r].pc = "write", ![r].more = more,
                                ![r].chunk = [i \in 1 .. n |-> produced[r] + i - 1]]
          /\ produced' = [produced EXCEPT ![r] = @ + n]
    BY <1>11 DEF next_orig
  <2> DEFINE bytes == [i \in 1 .. n |-> produced[r] + i - 1]
             v == [req[r] EXCEPT !.pc = "write", !.more = more, !.chunk = bytes]
  <2>1. n \in Nat /\ produced[r] \in Nat
    BY <1>0, StreamAssumption
  <2>2. req' = [req EXCEPT ![r] = v]
    BY <2>0
  <2>3. bytes \in Seq(Nat)
    BY <2>1, ChunkType
  <2>4. UNCHANGED <<sessions, ses, del, main, reader>>
    BY <1>11 DEF next_orig
  <2>5. produced' \in [Requests -> Nat]
    BY <2>0, <2>1, <1>0
  <2> HIDE DEF bytes
  <2>6. v \in ReqType /\ v.pc = "write"
    BY <1>0, <2>3 DEF ReqType, PCs
  <2> HIDE DEF v
  <2> QED BY <1>0, <2>2, <2>4, <2>5, <2>6, RequestTo
<1> QED BY <1>1, <1>2, <1>3, <1>4, <1>5, <1>6, <1>7, <1>8, <1>9, <1>10, <1>11 DEF Producer, Generation

\* A DELETE goes on to v.
LEMMA DeleteTo ==
    ASSUME Typed, NEW d \in Deletes, NEW v \in DelType, del' = [del EXCEPT ![d] = v],
           v.pc \in {"cancel", "finalize"} => v.victim \in Requests,
           sessions' \in [Convs -> Requests \cup {NoSession}], ses' \in [Requests -> SesType],
           UNCHANGED <<req, main, reader, produced>>
    PROVE  Typed'
<1>1. /\ del' \in [Deletes -> DelType] /\ del'[d] = v
      /\ \A x \in Deletes : x # d => del'[x] = del[x]
  BY DEF Typed
<1>2. InHand'
  BY <1>1 DEF Typed, InHand
<1> QED BY <1>1, <1>2 DEF Typed

\* A step of a DELETE keeps the types.
LEMMA DeleteTyped ==
    ASSUME Typed, NEW d \in Deletes, evict_and_cancel(d) \/ Deleter(d)
    PROVE  Typed'
<1>0. /\ ses \in [Requests -> SesType] /\ del[d] \in DelType
      /\ \A S : finalize(S) \in [Requests -> SesType]
      /\ \A s \in Requests : cancel(s) \in [Requests -> SesType]
      /\ sessions \in [Convs -> Requests \cup {NoSession}]
      /\ del[d].pc \in {"cancel", "finalize"} => del[d].victim \in Requests
  BY EndType DEF Typed, InHand
<1>1. CASE evict_and_cancel(d)
  <2>0. PICK c \in Convs :
          /\ sessions' = [sessions EXCEPT ![c] = NoSession]
          /\ del' = [del EXCEPT ![d] = [pc |-> IF sessions[c] = NoSession THEN "end" ELSE "cancel",
                                        victim |-> sessions[c]]]
    BY <1>1 DEF evict_and_cancel
  <2> DEFINE v == [pc |-> IF sessions[c] = NoSession THEN "end" ELSE "cancel", victim |-> sessions[c]]
  <2>1. v \in DelType /\ (v.pc \in {"cancel", "finalize"} => v.victim \in Requests)
    BY <1>0 DEF DelType
  <2>2. sessions' \in [Convs -> Requests \cup {NoSession}] /\ UNCHANGED <<ses, req, main, reader, produced>>
    BY <1>0, <1>1, <2>0 DEF evict_and_cancel
  <2> HIDE DEF v
  <2>3. del' = [del EXCEPT ![d] = v]
    BY <2>0 DEF v
  <2> QED BY <1>0, <2>1, <2>2, <2>3, DeleteTo
<1>2. CASE CancelDeleted(d)
  <2> DEFINE v == [del[d] EXCEPT !.pc = "finalize"]
  <2>1. v \in DelType /\ v.victim \in Requests
    BY <1>0, <1>2 DEF CancelDeleted, DelType
  <2>2. del' = [del EXCEPT ![d] = v] /\ ses' \in [Requests -> SesType] /\ UNCHANGED <<sessions, req, main, reader, produced>>
    BY <1>0, <1>2 DEF CancelDeleted
  <2> HIDE DEF v
  <2> QED BY <1>0, <2>1, <2>2, DeleteTo
<1>3. CASE FinalizeDeleted(d)
  <2> DEFINE v == [pc |-> "end", victim |-> NoSession]
  <2>1. v \in DelType /\ v.pc \notin {"cancel", "finalize"}
    BY DEF DelType
  <2>2. del' = [del EXCEPT ![d] = v] /\ ses' \in [Requests -> SesType] /\ UNCHANGED <<sessions, req, main, reader, produced>>
    BY <1>0, <1>3 DEF FinalizeDeleted
  <2> HIDE DEF v
  <2> QED BY <1>0, <2>1, <2>2, DeleteTo
<1> QED BY <1>1, <1>2, <1>3 DEF Deleter

\* A step of the GC thread or of the main thread keeps the types.
LEMMA MainTyped ==
    ASSUME Typed, gc_loop \/ stop_gc \/ FinalizeLive \/ StopHttp
    PROVE  Typed'
<1>0. /\ \A S : finalize(S) \in [Requests -> SesType]
      /\ sessions \in [Convs -> Requests \cup {NoSession}]
      /\ main \in [pc : {"run", "finalize", "down"}, victims : SUBSET Requests]
  BY EndType DEF Typed
<1>1. /\ sessions' \in [Convs -> Requests \cup {NoSession}] /\ ses' \in [Requests -> SesType]
      /\ UNCHANGED <<req, del, reader, produced>>
  BY <1>0, ZenonT(30) DEF Typed, gc_loop, stop_gc, FinalizeLive, StopHttp
<1>2. main' \in [pc : {"run", "finalize", "down"}, victims : SUBSET Requests]
  <2>1. CASE gc_loop
    BY <1>0, <2>1 DEF gc_loop
  <2>2. CASE stop_gc
    BY <1>0, <2>2 DEF stop_gc
  <2>3. CASE FinalizeLive
    BY <1>0, <2>3 DEF FinalizeLive
  <2>4. CASE StopHttp
    BY <1>0, <2>4 DEF StopHttp
  <2> QED BY <2>1, <2>2, <2>3, <2>4
<1> QED BY <1>1, <1>2 DEF Typed, InHand

\* What read_from() returns.
LEMMA ReadType ==
    ASSUME Typed, NEW g \in Readers, read_from(g)
    PROVE  LET s == ses[reader[g].session] IN
           SubSeq(s.buffer, offset(g) - s.prefix_dropped + 1, Len(s.buffer)) \in Seq(Nat)
<1> DEFINE s == ses[reader[g].session]
           m == offset(g) - s.prefix_dropped + 1
<1>1. s \in SesType /\ s.buffer \in Seq(Nat) /\ s.prefix_dropped \in Nat /\ offset(g) \in Nat
  <2>1. /\ reader[g] \in GetType /\ reader[g].session \in Requests
        /\ ses \in [Requests -> SesType]
    BY DEF Typed, InHand, read_from
  <2>2. s \in SesType
    BY <2>1
  <2>3. reader[g].from \in Nat /\ reader[g].got \in Seq(Nat)
    BY <2>1 DEF GetType
  <2>4. offset(g) \in Nat
    BY <2>3 DEF offset
  <2> QED BY <2>2, <2>4 DEF SesType
<1>2. offset(g) \in s.prefix_dropped .. s.prefix_dropped + Len(s.buffer) - 1
  BY DEF read_from
<1> HIDE DEF s
<1>3. m \in Nat /\ m >= 1 /\ m <= Len(s.buffer) + 1 /\ Len(s.buffer) \in Nat
  BY <1>1, <1>2
<1> HIDE DEF m
<1>4. SubSeq(s.buffer, m, Len(s.buffer)) \in Seq(Nat)
  BY <1>1, <1>3, EndOf
<1> QED BY <1>4 DEF m, s

\* A GET goes on to v.
LEMMA GetTo ==
    ASSUME Typed, NEW g \in Readers, NEW v \in GetType, reader' = [reader EXCEPT ![g] = v],
           v.pc \in {"check", "read"} => v.session \in Requests,
           UNCHANGED <<sessions, ses, req, del, main, produced>>
    PROVE  Typed'
<1>1. /\ reader' \in [Readers -> GetType] /\ reader'[g] = v
      /\ \A x \in Readers : x # g => reader'[x] = reader[x]
  BY DEF Typed
<1>2. InHand'
  BY <1>1 DEF Typed, InHand
<1> QED BY <1>1, <1>2 DEF Typed

\* A step of a GET keeps the types.
LEMMA ReaderTyped ==
    ASSUME Typed, NEW g \in Readers, get(g) \/ Reader(g) \/ ReadStopped(g)
    PROVE  Typed'
<1>0. reader[g] \in GetType /\ (reader[g].pc \in {"check", "read"} => reader[g].session \in Requests)
  BY DEF Typed, InHand
<1>1. UNCHANGED <<sessions, ses, req, del, main, produced>>
  BY DEF get, Reader, CheckFrom, read_from, OffsetLost, ReadDone, ReadStopped
<1>2. CASE get(g)
  <2>0. PICK c \in Convs, from \in Offsets :
          reader' = [reader EXCEPT ![g].session = sessions[c], ![g].from = from,
                                   ![g].pc = IF sessions[c] = NoSession THEN "end" ELSE "check"]
    BY <1>2 DEF get
  <2>1. from \in Nat /\ sessions[c] \in Requests \cup {NoSession}
    BY StreamAssumption DEF Typed
  <2> DEFINE v == [reader[g] EXCEPT !.session = sessions[c], !.from = from,
                                    !.pc = IF sessions[c] = NoSession THEN "end" ELSE "check"]
  <2>2. v \in GetType /\ (v.pc \in {"check", "read"} => v.session \in Requests)
    BY <1>0, <2>1 DEF GetType
  <2>3. reader' = [reader EXCEPT ![g] = v]
    BY <2>0
  <2> HIDE DEF v
  <2> QED BY <1>1, <2>2, <2>3, GetTo
<1>3. ASSUME NEW how \in {"refused", "lost", "done", "stopped"}, End(g, how)
      PROVE  Typed'
  <2> DEFINE v == [reader[g] EXCEPT !.pc = "end", !.how = how]
  <2>1. v \in GetType /\ v.pc = "end"
    BY <1>0 DEF GetType
  <2>2. reader' = [reader EXCEPT ![g] = v]
    BY <1>3 DEF End
  <2> HIDE DEF v
  <2> QED BY <1>1, <2>1, <2>2, GetTo
<1>4. CASE CheckFrom(g) /\ ~End(g, "refused")
  <2> DEFINE v == [reader[g] EXCEPT !.pc = "read"]
  <2>1. v \in GetType /\ v.session \in Requests
    BY <1>0, <1>4 DEF GetType, CheckFrom
  <2>2. reader' = [reader EXCEPT ![g] = v]
    BY <1>4 DEF CheckFrom
  <2> HIDE DEF v
  <2> QED BY <1>1, <2>1, <2>2, GetTo
<1>5. CASE read_from(g)
  <2> DEFINE more == SubSeq(ses[reader[g].session].buffer,
                            offset(g) - ses[reader[g].session].prefix_dropped + 1,
                            Len(ses[reader[g].session].buffer))
             v == [reader[g] EXCEPT !.got = @ \o more]
  <2>1. more \in Seq(Nat)
    BY <1>5, ReadType
  <2>2. reader' = [reader EXCEPT ![g] = v]
    BY <1>5 DEF read_from
  <2> HIDE DEF more
  <2>3. reader[g].got \o more \in Seq(Nat)
    <3>1. reader[g].got \in Seq(Nat)
      BY <1>0 DEF GetType
    <3> QED BY <2>1, <3>1
  <2>4. v \in GetType /\ v.pc = reader[g].pc /\ v.session = reader[g].session
    BY <1>0, <2>3 DEF GetType
  <2> HIDE DEF v
  <2> QED BY <1>0, <1>1, <2>2, <2>4, GetTo
<1> QED BY <1>2, <1>3, <1>4, <1>5 DEF Reader, OffsetLost, ReadDone, ReadStopped

LEMMA InitTyped == Init => Typed
<1> SUFFICES ASSUME Init  PROVE Typed
  OBVIOUS
<1> DEFINE empty == <<>>
<1>0. empty \in Seq(Nat)
  OBVIOUS
<1> HIDE DEF empty
<1>1. /\ sessions \in [Convs -> Requests \cup {NoSession}] /\ produced \in [Requests -> Nat]
      /\ main \in [pc : {"run", "finalize", "down"}, victims : SUBSET Requests]
  BY DEF Init
<1>2. ses \in [Requests -> SesType]
  <2>1. [buffer |-> empty, prefix_dropped |-> 0, done |-> FALSE, cancelled |-> FALSE] \in SesType
    BY <1>0 DEF SesType
  <2>2. Fresh \in SesType
    BY <2>1 DEF Fresh, empty
  <2> QED BY <2>2 DEF Init
<1>4. req \in [Requests -> ReqType]
  <2>1. [pc |-> "new", victim |-> NoSession, chunk |-> empty, more |-> TRUE, connected |-> TRUE, late |-> FALSE]
          \in ReqType
    BY <1>0 DEF ReqType, PCs
  <2> QED BY <2>1 DEF Init, empty
<1>5. del \in [Deletes -> DelType]
  BY DEF Init, DelType
<1>6. reader \in [Readers -> GetType]
  <2>1. [pc |-> "new", session |-> NoSession, from |-> 0, got |-> empty, how |-> ""] \in GetType
    BY <1>0 DEF GetType
  <2> QED BY <2>1 DEF Init, empty
<1>3. InHand
  BY DEF Init, InHand
<1> QED BY <1>1, <1>2, <1>3, <1>4, <1>5, <1>6 DEF Typed

LEMMA StepTyped == Typed /\ [Next]_vars => Typed'
<1> SUFFICES ASSUME Typed, [Next]_vars  PROVE Typed'
  OBVIOUS
<1>1. CASE UNCHANGED vars
  BY <1>1 DEF vars, Typed, InHand
<1>2. CASE Next
  BY <1>2, RequestTyped, DeleteTyped, MainTyped, ReaderTyped DEF Next
<1> QED BY <1>1, <1>2

LEMMA AlwaysTyped == Spec => []Typed
BY InitTyped, StepTyped, PTL DEF Spec

\* The variables keep their types, whatever the requests, the readers and the
\* sizes of their chunks (server-stream.cpp).
THEOREM SpecTyped == Spec => []TypeOK
<1>1. Typed => TypeOK
  BY DEF Typed, TypeOK, SesType, ReqType, PCs, DelType, GetType
<1> QED BY AlwaysTyped, <1>1, PTL

-----------------------------------------------------------------------------
(* A session that has left the map is finalized.                           *)

\* The map holds a session under its own conversation only; before stop_gc()
\* the main thread has no session in hand (what it clears is all it will end).
Filed ==
    /\ \A c \in Convs : sessions[c] # NoSession => Conv[sessions[c]] = c /\ req[sessions[c]].pc # "new"
    /\ main.pc = "run" => main.victims = {}

Ended == Typed /\ Filed /\ OrphansAreFinalized

\* No step undoes a finalize().
LEMMA DoneStays ==
    ASSUME Typed, [Next]_vars, NEW s \in Requests, ses[s].done
    PROVE  ses'[s].done
<1>1. /\ \A S : finalize(S)[s].done
      /\ \A t \in Requests : cancel(t)[s].done
  BY DEF finalize, cancel, Typed, SesType
<1>2. ASSUME NEW t \in Requests, NEW data \in Seq(Nat)  PROVE append(t, data)[s].done
  <2>1. CASE ses[t].done
    BY <2>1 DEF append
  <2>2. CASE ~ses[t].done
    <3>1. t # s
      BY <2>2
    <3>2. ses \in [Requests -> SesType]
      BY DEF Typed
    <3>3. \A x \in Requests \ {t} : append(t, data)[x] = ses[x]
      BY <2>2, <3>2, Appended
    <3> QED BY <3>1, <3>3
  <2> QED BY <2>1, <2>2
<1>3. ASSUME NEW r \in Requests, write(r)  PROVE ses'[s].done
  <2>1. req[r].chunk \in Seq(Nat)
    BY DEF Typed, ReqType
  <2> QED BY <1>2, <1>3, <2>1 DEF write
<1>4. ASSUME NEW r \in Requests, CancelPrevious(r)  PROVE ses'[s].done
  <2>1. req[r].victim \in Requests
    BY <1>4 DEF CancelPrevious, Typed, InHand
  <2> QED BY <1>1, <1>4, <2>1 DEF CancelPrevious
<1>5. ASSUME NEW d \in Deletes, CancelDeleted(d)  PROVE ses'[s].done
  <2>1. del[d].victim \in Requests
    BY <1>5 DEF CancelDeleted, Typed, InHand
  <2> QED BY <1>1, <1>5, <2>1 DEF CancelDeleted
<1>6. ASSUME \/ \E r \in Requests : FinalizePrevious(r) \/ FinalizeEvicted(r) \/ DestroyProducer(r)
             \/ \E d \in Deletes : FinalizeDeleted(d)
             \/ FinalizeLive
      PROVE  ses'[s].done
  BY <1>1, <1>6 DEF FinalizePrevious, FinalizeEvicted, DestroyProducer, FinalizeDeleted, FinalizeLive
<1>7. ASSUME \/ \E r \in Requests : \/ create_or_replace(r) \/ StopProducing(r) \/ Generation(r) \/ Disconnect(r)
             \/ \E d \in Deletes : evict_and_cancel(d)
             \/ gc_loop \/ stop_gc \/ StopHttp \/ UNCHANGED vars
             \/ \E g \in Readers : get(g) \/ Reader(g) \/ ReadStopped(g)
      PROVE  ses' = ses
  BY <1>7 DEF create_or_replace, StopProducing, Generation, set_next, evict, next_orig, Disconnect,
       evict_and_cancel, gc_loop, stop_gc, StopHttp, vars, get, Reader, CheckFrom, read_from, OffsetLost,
       ReadDone, ReadStopped
<1> QED BY <1>3, <1>4, <1>5, <1>6, <1>7 DEF Next, Producer, Deleter

\* A session stays in hand until it is finalized, and one that leaves the map is
\* in hand or done.
LEMMA OrphansStep ==
    ASSUME OrphansAreFinalized,
           \A s \in Requests : ses[s].done => ses'[s].done,
           \A s \in Requests : WillFinalize(s) => ses'[s].done \/ WillFinalize(s)',
           \A s \in Requests : req'[s].pc # "new" /\ sessions'[Conv[s]] # s =>
              \/ req[s].pc # "new" /\ sessions[Conv[s]] # s
              \/ ses'[s].done \/ WillFinalize(s)'
    PROVE  OrphansAreFinalized'
BY DEF OrphansAreFinalized

\* What a step of a POST does to its own thread, and nothing to another's.
LEMMA RequestMoves ==
    ASSUME Typed, NEW r \in Requests
    PROVE  /\ create_or_replace(r) \/ Producer(r) \/ Generation(r) \/ Disconnect(r) =>
                 (\A x \in Requests : x # r => req'[x] = req[x]) /\ req'[r].pc # "new" /\ main' = main /\ del' = del
           /\ create_or_replace(r) => req'[r].victim = sessions[Conv[r]] /\ req'[r].pc = (IF sessions[Conv[r]] = NoSession THEN "handler" ELSE "cancel")
           /\ CancelPrevious(r) => req[r].pc = "cancel" /\ req'[r].pc = "finalize" /\ req'[r].victim = req[r].victim
           /\ FinalizePrevious(r) => req'[r].pc = "handler"
           /\ FinalizeEvicted(r) => req'[r].pc = "destroy"
           /\ evict(r) => req'[r].victim = sessions[Conv[r]] /\ req'[r].pc = (IF sessions[Conv[r]] = NoSession THEN "destroy" ELSE "evicted")
           /\ StopProducing(r) \/ write(r) \/ DestroyProducer(r) \/ set_next(r) \/ next_orig(r) \/ Disconnect(r) =>
                 req[r].pc \in {"stream", "write", "destroy", "handler"}
<1>0. req \in [Requests -> ReqType] /\ req[r] \in ReqType
  BY DEF Typed
<1>1. ASSUME create_or_replace(r)
      PROVE  /\ (\A x \in Requests : x # r => req'[x] = req[x]) /\ req'[r].pc # "new" /\ main' = main /\ del' = del
             /\ req'[r].victim = sessions[Conv[r]] /\ req'[r].pc = (IF sessions[Conv[r]] = NoSession THEN "handler" ELSE "cancel")
  BY <1>0, <1>1 DEF create_or_replace, ReqType
<1>2. ASSUME CancelPrevious(r)
      PROVE  /\ (\A x \in Requests : x # r => req'[x] = req[x]) /\ req'[r].pc # "new" /\ main' = main /\ del' = del
             /\ req[r].pc = "cancel" /\ req'[r].pc = "finalize" /\ req'[r].victim = req[r].victim
  BY <1>0, <1>2 DEF CancelPrevious, Goto, ReqType
<1>3. ASSUME FinalizePrevious(r)
      PROVE  /\ (\A x \in Requests : x # r => req'[x] = req[x]) /\ req'[r].pc # "new" /\ main' = main /\ del' = del
             /\ req'[r].pc = "handler"
  BY <1>0, <1>3 DEF FinalizePrevious, Drop, ReqType
<1>4. ASSUME FinalizeEvicted(r)
      PROVE  /\ (\A x \in Requests : x # r => req'[x] = req[x]) /\ req'[r].pc # "new" /\ main' = main /\ del' = del
             /\ req'[r].pc = "destroy"
  BY <1>0, <1>4 DEF FinalizeEvicted, Drop, ReqType
<1>5. ASSUME evict(r)
      PROVE  /\ (\A x \in Requests : x # r => req'[x] = req[x]) /\ req'[r].pc # "new" /\ main' = main /\ del' = del
             /\ req'[r].victim = sessions[Conv[r]] /\ req'[r].pc = (IF sessions[Conv[r]] = NoSession THEN "destroy" ELSE "evicted")
  BY <1>0, <1>5 DEF evict, ReqType
<1>6. ASSUME StopProducing(r)
      PROVE  /\ (\A x \in Requests : x # r => req'[x] = req[x]) /\ req'[r].pc # "new" /\ main' = main /\ del' = del
             /\ req[r].pc \in {"stream", "write", "destroy", "handler"}
  BY <1>0, <1>6 DEF StopProducing, Goto, ReqType
<1>7. ASSUME write(r)
      PROVE  /\ (\A x \in Requests : x # r => req'[x] = req[x]) /\ req'[r].pc # "new" /\ main' = main /\ del' = del
             /\ req[r].pc \in {"stream", "write", "destroy", "handler"}
  BY <1>0, <1>7 DEF write, ReqType
<1>8. ASSUME DestroyProducer(r)
      PROVE  /\ (\A x \in Requests : x # r => req'[x] = req[x]) /\ req'[r].pc # "new" /\ main' = main /\ del' = del
             /\ req[r].pc \in {"stream", "write", "destroy", "handler"}
  BY <1>0, <1>8 DEF DestroyProducer, ReqType
<1>9. ASSUME set_next(r)
      PROVE  /\ (\A x \in Requests : x # r => req'[x] = req[x]) /\ req'[r].pc # "new" /\ main' = main /\ del' = del
             /\ req[r].pc \in {"stream", "write", "destroy", "handler"}
  BY <1>0, <1>9 DEF set_next, Goto, ReqType
<1>10. ASSUME next_orig(r)
      PROVE  /\ (\A x \in Requests : x # r => req'[x] = req[x]) /\ req'[r].pc # "new" /\ main' = main /\ del' = del
             /\ req[r].pc \in {"stream", "write", "destroy", "handler"}
  BY <1>0, <1>10 DEF next_orig, ReqType
<1>11. ASSUME Disconnect(r)
      PROVE  /\ (\A x \in Requests : x # r => req'[x] = req[x]) /\ req'[r].pc # "new" /\ main' = main /\ del' = del
             /\ req[r].pc \in {"stream", "write", "destroy", "handler"}
  BY <1>0, <1>11 DEF Disconnect, ReqType
<1> QED BY <1>1, <1>2, <1>3, <1>4, <1>5, <1>6, <1>7, <1>8, <1>9, <1>10, <1>11 DEF Producer, Generation

\* A step of a POST keeps Filed.
LEMMA RequestFiled ==
    ASSUME Typed, Filed, NEW r \in Requests,
           create_or_replace(r) \/ Producer(r) \/ Generation(r) \/ Disconnect(r)
    PROVE  Filed'
<1>1. (\A x \in Requests : x # r => req'[x] = req[x]) /\ req'[r].pc # "new" /\ main' = main
  BY RequestMoves
<1>3. \A c \in Convs : sessions'[c] \in {sessions[c], NoSession} \/ (sessions'[c] = r /\ Conv[r] = c)
  BY StreamAssumption DEF Typed, create_or_replace, Producer, CancelPrevious, FinalizePrevious, StopProducing, write,
     FinalizeEvicted, DestroyProducer, Generation, set_next, evict, next_orig, Disconnect
<1>4. \A c \in Convs : sessions[c] \in Requests \cup {NoSession}
  BY DEF Typed
<1> QED BY <1>1, <1>3, <1>4, StreamAssumption DEF Filed

LEMMA FiledStep == Typed /\ Filed /\ [Next]_vars => Filed'
<1> SUFFICES ASSUME Typed, Filed, [Next]_vars  PROVE Filed'
  OBVIOUS
<1>1. ASSUME \/ \E d \in Deletes : evict_and_cancel(d) \/ Deleter(d)
             \/ gc_loop \/ stop_gc \/ FinalizeLive \/ StopHttp
             \/ \E g \in Readers : get(g) \/ Reader(g) \/ ReadStopped(g)
             \/ UNCHANGED vars
      PROVE  Filed'
  <2>1. req' = req
    BY <1>1 DEF evict_and_cancel, Deleter, CancelDeleted, FinalizeDeleted, gc_loop, stop_gc, FinalizeLive, StopHttp,
       get, Reader, CheckFrom, read_from, OffsetLost, ReadDone, ReadStopped, vars
  <2>2. \A c \in Convs : sessions'[c] \in {sessions[c], NoSession}
    <3>1. ASSUME NEW d \in Deletes, evict_and_cancel(d)
          PROVE  \A c \in Convs : sessions'[c] \in {sessions[c], NoSession}
      BY <3>1 DEF evict_and_cancel, Typed
    <3>2. ASSUME gc_loop \/ stop_gc
          PROVE  \A c \in Convs : sessions'[c] \in {sessions[c], NoSession}
      BY <3>2 DEF gc_loop, stop_gc
    <3>3. \/ \E d \in Deletes : evict_and_cancel(d)
          \/ gc_loop \/ stop_gc \/ sessions' = sessions
      BY <1>1 DEF Deleter, CancelDeleted, FinalizeDeleted, FinalizeLive, StopHttp,
         get, Reader, CheckFrom, read_from, OffsetLost, ReadDone, ReadStopped, vars
    <3> QED BY <3>1, <3>2, <3>3
  <2>3. ASSUME stop_gc \/ FinalizeLive \/ StopHttp  PROVE main'.pc # "run"
    <3>1. main \in [pc : {"run", "finalize", "down"}, victims : SUBSET Requests]
      BY DEF Typed
    <3>2. CASE stop_gc
      BY <3>2 DEF stop_gc
    <3>3. CASE FinalizeLive
      BY <3>1, <3>3 DEF FinalizeLive
    <3>4. CASE StopHttp
      BY <3>1, <3>4 DEF StopHttp
    <3> QED BY <2>3, <3>2, <3>3, <3>4
  <2>4. main' = main \/ stop_gc \/ FinalizeLive \/ StopHttp
    BY <1>1 DEF evict_and_cancel, Deleter, CancelDeleted, FinalizeDeleted, gc_loop,
       get, Reader, CheckFrom, read_from, OffsetLost, ReadDone, ReadStopped, vars
  <2> QED BY <2>1, <2>2, <2>3, <2>4 DEF Filed
<1> QED BY <1>1, RequestFiled DEF Next

\* A step of a POST: what it takes out of the map it has in its hand.
LEMMA RequestOrphans ==
    ASSUME Ended, [Next]_vars, NEW r \in Requests,
           create_or_replace(r) \/ Producer(r) \/ Generation(r) \/ Disconnect(r)
    PROVE  OrphansAreFinalized'
<1> DEFINE E == {"cancel", "finalize", "evicted"}
<1>0. /\ \A x \in Requests : x # r => req'[x] = req[x]
      /\ req'[r].pc # "new" /\ main' = main /\ del' = del
  BY RequestMoves DEF Ended
<1>1. \A s \in Requests : ses[s].done => ses'[s].done
  BY DoneStays DEF Ended
<1>2. Conv[r] \in Convs
  BY StreamAssumption
<1>3. \A s \in Requests : WillFinalize(s) =>
         \/ WillFinalize(s)'
         \/ req[r].victim = s /\ req[r].pc \in E
  BY <1>0 DEF WillFinalize
<1>4. \A s \in Requests : req'[r].victim = s /\ req'[r].pc \in E => WillFinalize(s)'
  BY DEF WillFinalize
<1>5. ASSUME NEW s \in Requests, req[r].victim = s, req[r].pc \in E
      PROVE  ses'[s].done \/ WillFinalize(s)'
  <2>1. CASE create_or_replace(r)
    BY <1>5, <2>1 DEF create_or_replace
  <2>2. CASE CancelPrevious(r)
    BY <1>4, <1>5, <2>2, RequestMoves DEF Ended
  <2>3. CASE FinalizePrevious(r) \/ FinalizeEvicted(r)
    BY <1>5, <2>3 DEF FinalizePrevious, FinalizeEvicted, finalize, Ended, Typed, SesType
  <2>4. CASE evict(r)
    BY <1>5, <2>4 DEF evict
  <2>5. CASE StopProducing(r) \/ write(r) \/ DestroyProducer(r) \/ set_next(r) \/ next_orig(r) \/ Disconnect(r)
    BY <1>5, <2>5, RequestMoves DEF Ended
  <2> QED BY <2>1, <2>2, <2>3, <2>4, <2>5 DEF Producer, Generation
<1>6. ASSUME NEW s \in Requests, req'[s].pc # "new", sessions'[Conv[s]] # s
      PROVE  (req[s].pc # "new" /\ sessions[Conv[s]] # s) \/ ses'[s].done \/ WillFinalize(s)'
  <2>0. Conv[s] \in Convs /\ s # NoSession
    BY StreamAssumption
  <2>1. CASE create_or_replace(r)
    <3>1. sessions' = [sessions EXCEPT ![Conv[r]] = r]
      BY <2>1 DEF create_or_replace
    <3>2. s # r
      BY <1>2, <1>6, <3>1 DEF Ended, Typed
    <3>3. req'[s] = req[s]
      BY <1>0, <3>2
    <3>4. CASE sessions[Conv[s]] = s
      <4>1. Conv[s] = Conv[r]
        BY <1>6, <2>0, <3>1, <3>4 DEF Ended, Typed
      <4>2. req'[r].victim = s /\ req'[r].pc = "cancel"
        BY <2>0, <2>1, <3>4, <4>1, RequestMoves DEF Ended
      <4> QED BY <1>4, <4>2
    <3> QED BY <1>6, <3>3, <3>4
  <2>2. CASE evict(r)
    <3>1. sessions' = [sessions EXCEPT ![Conv[r]] = NoSession] /\ req[r].pc = "handler"
      BY <2>2 DEF evict
    <3>2. req[s].pc # "new"
      BY <1>0, <1>6, <3>1
    <3>3. CASE sessions[Conv[s]] = s
      <4>1. Conv[s] = Conv[r]
        BY <1>6, <2>0, <3>1, <3>3 DEF Ended, Typed
      <4>2. req'[r].victim = s /\ req'[r].pc = "evicted"
        BY <2>0, <2>2, <3>3, <4>1, RequestMoves DEF Ended
      <4> QED BY <1>4, <4>2
    <3> QED BY <3>2, <3>3
  <2>3. CASE Producer(r) \/ set_next(r) \/ next_orig(r) \/ Disconnect(r)
    <3>1. sessions' = sessions /\ req[r].pc # "new"
      BY <2>3 DEF Producer, CancelPrevious, FinalizePrevious, StopProducing, write, FinalizeEvicted,
         DestroyProducer, set_next, next_orig, Disconnect
    <3> QED BY <1>0, <1>6, <3>1
  <2> QED BY <2>1, <2>2, <2>3 DEF Generation
<1> QED BY <1>1, <1>3, <1>5, <1>6, OrphansStep DEF Ended

\* A step of a DELETE, of the GC thread, of the main thread or of a GET.
LEMMA OtherOrphans ==
    ASSUME Ended, [Next]_vars,
           \/ \E d \in Deletes : evict_and_cancel(d) \/ Deleter(d)
           \/ gc_loop \/ stop_gc \/ FinalizeLive \/ StopHttp
           \/ \E g \in Readers : get(g) \/ Reader(g) \/ ReadStopped(g)
           \/ UNCHANGED vars
    PROVE  OrphansAreFinalized'
<1>0. /\ \A s \in Requests : Conv[s] \in Convs /\ s # NoSession
      /\ \A S : \A s \in S \cap Requests : finalize(S)[s].done
      /\ sessions \in [Convs -> Requests \cup {NoSession}]
      /\ del \in [Deletes -> DelType]
      /\ main \in [pc : {"run", "finalize", "down"}, victims : SUBSET Requests]
  BY StreamAssumption DEF Ended, Typed, finalize, SesType
<1>1. \A s \in Requests : ses[s].done => ses'[s].done
  BY DoneStays DEF Ended
<1>2. req' = req
  BY DEF evict_and_cancel, Deleter, CancelDeleted, FinalizeDeleted, gc_loop, stop_gc, FinalizeLive, StopHttp,
     get, Reader, CheckFrom, read_from, OffsetLost, ReadDone, ReadStopped, vars
<1> DEFINE Kept(s) == WillFinalize(s) => ses'[s].done \/ WillFinalize(s)'
           Left(s) == sessions[Conv[s]] = s /\ sessions'[Conv[s]] # s => ses'[s].done \/ WillFinalize(s)'
<1>3. ASSUME NEW d \in Deletes, evict_and_cancel(d), NEW s \in Requests  PROVE Kept(s) /\ Left(s)
  <2>1. PICK c \in Convs :
          /\ sessions' = [sessions EXCEPT ![c] = NoSession]
          /\ del' = [del EXCEPT ![d] = [pc |-> IF sessions[c] = NoSession THEN "end" ELSE "cancel",
                                        victim |-> sessions[c]]]
          /\ del[d].pc = "new" /\ main' = main
    BY <1>3 DEF evict_and_cancel
  <2>2. /\ \A x \in Deletes : x # d => del'[x] = del[x]
        /\ sessions[c] # NoSession => del'[d].pc = "cancel"
        /\ del'[d].victim = sessions[c]
    BY <1>0, <2>1
  <2>3. Kept(s)
    BY <1>2, <2>1, <2>2 DEF WillFinalize
  <2>4. sessions[Conv[s]] = s /\ sessions'[Conv[s]] # s => c = Conv[s]
    BY <1>0, <2>1
  <2>5. Left(s)
    BY <1>0, <2>2, <2>4 DEF WillFinalize
  <2> QED BY <2>3, <2>5
<1>4. ASSUME NEW d \in Deletes, CancelDeleted(d), NEW s \in Requests  PROVE Kept(s) /\ Left(s)
  <2>1. /\ \A x \in Deletes : x # d => del'[x] = del[x]
        /\ del'[d].pc = "finalize" /\ del'[d].victim = del[d].victim
        /\ main' = main /\ sessions' = sessions
    BY <1>0, <1>4 DEF CancelDeleted, DelType
  <2> QED BY <1>2, <2>1 DEF WillFinalize
<1>5. ASSUME NEW d \in Deletes, FinalizeDeleted(d), NEW s \in Requests  PROVE Kept(s) /\ Left(s)
  <2>1. /\ \A x \in Deletes : x # d => del'[x] = del[x]
        /\ main' = main /\ sessions' = sessions /\ ses' = finalize({del[d].victim})
    BY <1>0, <1>5 DEF FinalizeDeleted
  <2>2. s = del[d].victim => ses'[s].done
    BY <1>0, <2>1
  <2> QED BY <1>2, <2>1, <2>2 DEF WillFinalize
<1>6. ASSUME gc_loop, NEW s \in Requests  PROVE Kept(s) /\ Left(s)
  <2>1. del' = del /\ main' = main /\ ses' = ses
    BY <1>6 DEF gc_loop
  <2>2. sessions[Conv[s]] = s /\ sessions'[Conv[s]] # s => ses[s].done
    BY <1>0, <1>6 DEF gc_loop
  <2> QED BY <1>2, <2>1, <2>2 DEF WillFinalize
<1>7. ASSUME stop_gc, NEW s \in Requests  PROVE Kept(s) /\ Left(s)
  <2>1. del' = del /\ main.victims = {} /\ main'.victims = {sessions[c] : c \in Convs} \ {NoSession}
    BY <1>7 DEF stop_gc, Ended, Filed
  <2>2. Kept(s)
    BY <1>2, <2>1 DEF WillFinalize
  <2>3. sessions[Conv[s]] = s => s \in main'.victims
    BY <1>0, <2>1
  <2> QED BY <2>2, <2>3 DEF WillFinalize
<1>8. ASSUME FinalizeLive, NEW s \in Requests  PROVE Kept(s) /\ Left(s)
  <2>1. PICK t \in main.victims : ses' = finalize({t}) /\ main' = [main EXCEPT !.victims = @ \ {t}]
    BY <1>8 DEF FinalizeLive
  <2>2. del' = del /\ sessions' = sessions /\ main'.victims = main.victims \ {t}
    BY <1>0, <1>8, <2>1 DEF FinalizeLive
  <2>3. s = t => ses'[s].done
    BY <1>0, <2>1
  <2> QED BY <1>2, <2>2, <2>3 DEF WillFinalize
<1>9. ASSUME \/ StopHttp \/ UNCHANGED vars
             \/ \E g \in Readers : get(g) \/ Reader(g) \/ ReadStopped(g),
             NEW s \in Requests
      PROVE  Kept(s) /\ Left(s)
  <2>1. del' = del /\ sessions' = sessions /\ main'.victims = main.victims
    BY <1>0, <1>9 DEF StopHttp, get, Reader, CheckFrom, read_from, OffsetLost, ReadDone, ReadStopped, vars
  <2> QED BY <1>2, <2>1 DEF WillFinalize
<1>10. ASSUME NEW s \in Requests  PROVE Kept(s) /\ Left(s)
  BY <1>3, <1>4, <1>5, <1>6, <1>7, <1>8, <1>9 DEF Deleter
<1> QED BY <1>1, <1>2, <1>10, OrphansStep DEF Ended

LEMMA InitEnded == Init => Ended
<1>1. Init => Filed /\ OrphansAreFinalized
  <2> SUFFICES ASSUME Init  PROVE Filed /\ OrphansAreFinalized
    OBVIOUS
  <2>1. /\ \A c \in Convs : sessions[c] = NoSession
        /\ \A r \in Requests : req[r].pc = "new"
        /\ main.victims = {}
    BY DEF Init
  <2> QED BY <2>1 DEF Filed, OrphansAreFinalized
<1> QED BY <1>1, InitTyped DEF Ended

LEMMA StepEnded == Ended /\ [Next]_vars => Ended'
<1> SUFFICES ASSUME Ended, [Next]_vars  PROVE Ended'
  OBVIOUS
<1>1. Typed' /\ Filed'
  BY StepTyped, FiledStep DEF Ended
<1>2. OrphansAreFinalized'
  BY RequestOrphans, OtherOrphans DEF Next
<1> QED BY <1>1, <1>2 DEF Ended

\* "One conv = at most one live session": whatever requests, deletes, the GC and
\* the shutdown take out of the map, in any order, is finalized or in the hands
\* of a thread that will (create_or_replace, evict_and_cancel, stop_gc).
THEOREM SpecOrphansAreFinalized == Spec => []OrphansAreFinalized
<1>1. Ended => OrphansAreFinalized
  BY DEF Ended
<1> QED BY InitEnded, StepEnded, <1>1, PTL DEF Spec

-----------------------------------------------------------------------------
(* What the buffers and the readers hold.                                  *)

\* A buffer changes only when its own POST writes, before it is done.
LEMMA BufferMoves ==
    ASSUME Typed, [Next]_vars, NEW s \in Requests
    PROVE  \/ ses'[s].buffer = ses[s].buffer /\ ses'[s].prefix_dropped = ses[s].prefix_dropped
           \/ write(s) /\ ~ses[s].done
<1> DEFINE Same == ses'[s].buffer = ses[s].buffer /\ ses'[s].prefix_dropped = ses[s].prefix_dropped
<1>0. ses \in [Requests -> SesType]
  BY DEF Typed
<1>1. /\ \A S : finalize(S)[s].buffer = ses[s].buffer /\ finalize(S)[s].prefix_dropped = ses[s].prefix_dropped
      /\ \A t \in Requests : /\ cancel(t)[s].buffer = ses[s].buffer
                             /\ cancel(t)[s].prefix_dropped = ses[s].prefix_dropped
  BY <1>0 DEF finalize, cancel, SesType
<1>2. ASSUME NEW r \in Requests, write(r)  PROVE Same \/ (write(s) /\ ~ses[s].done)
  <2>1. ses' = append(r, req[r].chunk) /\ req[r].chunk \in Seq(Nat)
    BY <1>2 DEF write, Typed, ReqType
  <2>2. CASE ses[r].done
    BY <2>1, <2>2 DEF append
  <2>3. CASE ~ses[r].done /\ r # s
    <3>1. \A x \in Requests \ {r} : append(r, req[r].chunk)[x] = ses[x]
      BY <1>0, <2>1, <2>3, Appended
    <3> QED BY <2>1, <2>3, <3>1
  <2>4. CASE ~ses[r].done /\ r = s
    BY <1>2, <2>4
  <2> QED BY <2>2, <2>3, <2>4
<1>3. ASSUME NEW r \in Requests, CancelPrevious(r)  PROVE Same
  <2>1. req[r].victim \in Requests
    BY <1>3 DEF CancelPrevious, Typed, InHand
  <2> QED BY <1>1, <1>3, <2>1 DEF CancelPrevious
<1>4. ASSUME NEW d \in Deletes, CancelDeleted(d)  PROVE Same
  <2>1. del[d].victim \in Requests
    BY <1>4 DEF CancelDeleted, Typed, InHand
  <2> QED BY <1>1, <1>4, <2>1 DEF CancelDeleted
<1>5. ASSUME \/ \E r \in Requests : FinalizePrevious(r) \/ FinalizeEvicted(r) \/ DestroyProducer(r)
             \/ \E d \in Deletes : FinalizeDeleted(d)
             \/ FinalizeLive
      PROVE  Same
  BY <1>1, <1>5 DEF FinalizePrevious, FinalizeEvicted, DestroyProducer, FinalizeDeleted, FinalizeLive
<1>6. ASSUME \/ \E r \in Requests : \/ create_or_replace(r) \/ StopProducing(r) \/ Generation(r) \/ Disconnect(r)
             \/ \E d \in Deletes : evict_and_cancel(d)
             \/ gc_loop \/ stop_gc \/ StopHttp \/ UNCHANGED vars
             \/ \E g \in Readers : get(g) \/ Reader(g) \/ ReadStopped(g)
      PROVE  Same
  BY <1>6 DEF create_or_replace, StopProducing, Generation, set_next, evict, next_orig, Disconnect,
       evict_and_cancel, gc_loop, stop_gc, StopHttp, vars, get, Reader, CheckFrom, read_from, OffsetLost,
       ReadDone, ReadStopped
<1> QED BY <1>2, <1>3, <1>4, <1>5, <1>6 DEF Next, Producer, Deleter

\* A chunk is in the hand of its POST from next_orig() to write().
LEMMA ChunkMoves ==
    ASSUME Typed, [Next]_vars, NEW s \in Requests
    PROVE  \/ /\ req'[s].chunk = req[s].chunk /\ produced'[s] = produced[s]
              /\ req[s].pc = "write" => req'[s].pc = "write"
           \/ write(s) \/ next_orig(s)
<1> DEFINE Same == /\ req'[s].chunk = req[s].chunk /\ produced'[s] = produced[s]
                   /\ req[s].pc = "write" => req'[s].pc = "write"
<1>0. req \in [Requests -> ReqType] /\ produced \in [Requests -> Nat]
  BY DEF Typed
<1>1. ASSUME NEW r \in Requests, create_or_replace(r)  PROVE Same
  BY <1>0, <1>1 DEF create_or_replace, ReqType
<1>2. ASSUME NEW r \in Requests, CancelPrevious(r)  PROVE Same
  BY <1>0, <1>2 DEF CancelPrevious, Goto, ReqType
<1>3. ASSUME NEW r \in Requests, FinalizePrevious(r)  PROVE Same
  BY <1>0, <1>3 DEF FinalizePrevious, Drop, ReqType
<1>4. ASSUME NEW r \in Requests, FinalizeEvicted(r)  PROVE Same
  BY <1>0, <1>4 DEF FinalizeEvicted, Drop, ReqType
<1>5. ASSUME NEW r \in Requests, evict(r)  PROVE Same
  BY <1>0, <1>5 DEF evict, ReqType
<1>6. ASSUME NEW r \in Requests, StopProducing(r)  PROVE Same
  BY <1>0, <1>6 DEF StopProducing, Goto, ReqType
<1>7. ASSUME NEW r \in Requests, DestroyProducer(r)  PROVE Same
  BY <1>0, <1>7 DEF DestroyProducer, ReqType
<1>8. ASSUME NEW r \in Requests, set_next(r)  PROVE Same
  BY <1>0, <1>8 DEF set_next, Goto, ReqType
<1>9. ASSUME NEW r \in Requests, Disconnect(r)  PROVE Same
  BY <1>0, <1>9 DEF Disconnect, ReqType
<1>10. ASSUME NEW r \in Requests, r # s, write(r)  PROVE Same
  BY <1>0, <1>10 DEF write
<1>11. ASSUME NEW r \in Requests, r # s, next_orig(r)  PROVE Same
  <2>1. PICK n \in ChunkSizes, more \in BOOLEAN :
          /\ req' = [req EXCEPT ![r].pc = "write", ![r].more = more,
                                ![r].chunk = [i \in 1 .. n |-> produced[r] + i - 1]]
          /\ produced' = [produced EXCEPT ![r] = @ + n]
    BY <1>11 DEF next_orig
  <2> QED BY <1>0, <1>11, <2>1
<1>12. ASSUME \/ \E d \in Deletes : evict_and_cancel(d) \/ Deleter(d)
              \/ gc_loop \/ stop_gc \/ FinalizeLive \/ StopHttp
              \/ \E g \in Readers : get(g) \/ Reader(g) \/ ReadStopped(g)
              \/ UNCHANGED vars
       PROVE  Same
  BY <1>12 DEF evict_and_cancel, Deleter, CancelDeleted, FinalizeDeleted, gc_loop, stop_gc, FinalizeLive, StopHttp,
     get, Reader, CheckFrom, read_from, OffsetLost, ReadDone, ReadStopped, vars
<1> QED BY <1>1, <1>2, <1>3, <1>4, <1>5, <1>6, <1>7, <1>8, <1>9, <1>10, <1>11, <1>12
        DEF Next, Producer, Generation

\* The chunk in the hand of a POST is the end of what was produced; as long as
\* the session is not done, nothing is missing between its buffer and the chunk.
ChunkIsNext ==
    \A r \in Requests :
        /\ req[r].pc # "write" => req[r].chunk = <<>>
        /\ Len(req[r].chunk) <= produced[r]
        /\ \A i \in 1 .. Len(req[r].chunk) : req[r].chunk[i] = produced[r] - Len(req[r].chunk) + i - 1
        /\ ~ses[r].done => total_size(r) + Len(req[r].chunk) = produced[r]

Tailed == Typed /\ ChunkIsNext /\ IsTail

\* The parts of Tailed about one session.
OneTail(s) ==
    /\ req[s].pc # "write" => req[s].chunk = <<>>
    /\ Len(req[s].chunk) <= produced[s]
    /\ \A i \in 1 .. Len(req[s].chunk) : req[s].chunk[i] = produced[s] - Len(req[s].chunk) + i - 1
    /\ ~ses[s].done => total_size(s) + Len(req[s].chunk) = produced[s]
    /\ Len(ses[s].buffer) <= Cap
    /\ ses[s].prefix_dropped > 0 => Len(ses[s].buffer) = Cap
    /\ \A i \in 1 .. Len(ses[s].buffer) : ses[s].buffer[i] = ses[s].prefix_dropped + i - 1

LEMMA OneByOne == ChunkIsNext /\ IsTail <=> \A s \in Requests : OneTail(s)
BY DEF ChunkIsNext, IsTail, OneTail

\* next_orig() takes the bytes that follow.
LEMMA NextTail ==
    ASSUME Typed, [Next]_vars, NEW s \in Requests, OneTail(s), next_orig(s)
    PROVE  OneTail(s)'
<1>0. /\ req \in [Requests -> ReqType] /\ produced[s] \in Nat /\ req[s].chunk = <<>>
      /\ produced \in [Requests -> Nat]
  BY DEF Typed, OneTail, next_orig
<1>1. PICK n \in ChunkSizes, more \in BOOLEAN :
          /\ req' = [req EXCEPT ![s].pc = "write", ![s].more = more,
                                ![s].chunk = [i \in 1 .. n |-> produced[s] + i - 1]]
          /\ produced' = [produced EXCEPT ![s] = @ + n]
  BY DEF next_orig
<1>2. n \in Nat
  BY StreamAssumption
<1>3. /\ req'[s].pc = "write" /\ req'[s].chunk = [i \in 1 .. n |-> produced[s] + i - 1]
      /\ produced'[s] = produced[s] + n /\ ses' = ses
  BY <1>0, <1>1 DEF next_orig, ReqType
<1>4. Len(req'[s].chunk) = n
  BY <1>2, <1>3
<1>5. \A i \in 1 .. n : req'[s].chunk[i] = produced'[s] - n + i - 1
  BY <1>0, <1>2, <1>3
<1>6. total_size(s)' = total_size(s) /\ total_size(s) \in Nat
  BY <1>3 DEF total_size, Typed, SesType
<1>7. ~ses'[s].done => total_size(s)' + n = produced'[s]
  <2>1. Len(<<>>) = 0
    OBVIOUS
  <2>2. ~ses[s].done => total_size(s) + 0 = produced[s]
    BY <1>0, <2>1 DEF OneTail
  <2> QED BY <1>0, <1>2, <1>3, <1>6, <2>2
<1>8. n <= produced'[s]
  BY <1>0, <1>2, <1>3
<1>9. /\ Len(ses'[s].buffer) <= Cap
      /\ ses'[s].prefix_dropped > 0 => Len(ses'[s].buffer) = Cap
      /\ \A i \in 1 .. Len(ses'[s].buffer) : ses'[s].buffer[i] = ses'[s].prefix_dropped + i - 1
  BY <1>3 DEF OneTail
<1> QED BY <1>3, <1>4, <1>5, <1>7, <1>8, <1>9 DEF OneTail

\* write() of a session that is not done: the chunk goes behind the buffer, and
\* what is dropped is counted.
LEMMA WriteTail ==
    ASSUME Typed, NEW s \in Requests, OneTail(s), write(s), ~ses[s].done
    PROVE  OneTail(s)'
<1> DEFINE buf == ses[s].buffer
           pre == ses[s].prefix_dropped
           chunk == req[s].chunk
           new == ses'[s].buffer
<1>0. /\ ses \in [Requests -> SesType] /\ req \in [Requests -> ReqType] /\ chunk \in Seq(Nat)
      /\ buf \in Seq(Nat) /\ pre \in Nat /\ produced[s] \in Nat
  BY DEF Typed, SesType, ReqType
<1>1. ses' = append(s, chunk) /\ produced' = produced
  BY DEF write
<1>2. new \in Seq(Nat)
  <2>1. append(s, chunk) \in [Requests -> SesType]
    BY <1>0, AppendType
  <2> QED BY <1>1, <2>1 DEF SesType
<1>3. PICK n \in Nat :
          /\ ses'[s].prefix_dropped = pre + n
          /\ Len(new) = Len(buf) + Len(chunk) - n
          /\ n > 0 => Len(new) = Cap
          /\ \A i \in 1 .. Len(new) : new[i] = IF i + n <= Len(buf) THEN buf[i + n] ELSE chunk[i + n - Len(buf)]
  <2> HIDE DEF chunk
  <2> QED BY <1>0, <1>1, Appended
<1>4. Len(new) <= Cap /\ ses'[s].done = ses[s].done
  <2> HIDE DEF chunk
  <2> QED BY <1>0, <1>1, Appended
<1>5. req'[s].chunk = <<>>
  BY <1>0 DEF write, ReqType
<1>6. /\ Len(buf) <= Cap /\ (pre > 0 => Len(buf) = Cap)
      /\ \A i \in 1 .. Len(buf) : buf[i] = pre + i - 1
      /\ \A i \in 1 .. Len(chunk) : chunk[i] = produced[s] - Len(chunk) + i - 1
      /\ pre + Len(buf) + Len(chunk) = produced[s]
  BY DEF OneTail, total_size
<1>7. Cap \in Nat /\ Len(buf) \in Nat /\ Len(chunk) \in Nat /\ Len(new) \in Nat
  BY <1>0, <1>2, StreamAssumption
<1>8. pre + n + Len(new) = produced[s]
  BY <1>0, <1>3, <1>6, <1>7
<1>9. pre + n > 0 => Len(new) = Cap
  <2> HIDE DEF new, buf, chunk, pre
  <2>1. CASE n > 0
    BY <1>3, <2>1
  <2>2. CASE n = 0
    BY <1>0, <1>3, <1>4, <1>6, <1>7, <2>2
  <2> QED BY <1>0, <2>1, <2>2
<1>10. ASSUME NEW i \in 1 .. Len(new)  PROVE new[i] = pre + n + i - 1
  <2> DEFINE j == i + n - Len(buf)
  <2> HIDE DEF new, buf, chunk, pre
  <2>1. CASE i + n <= Len(buf)
    <3>1. i + n \in 1 .. Len(buf)
      BY <1>7, <2>1
    <3>2. buf[i + n] = pre + (i + n) - 1
      BY <1>6, <3>1
    <3>3. new[i] = buf[i + n]
      BY <1>3, <2>1
    <3> QED BY <1>0, <1>7, <3>2, <3>3
  <2>2. CASE ~(i + n <= Len(buf))
    <3>1. j \in 1 .. Len(chunk)
      BY <1>3, <1>7, <2>2
    <3>2. new[i] = chunk[j]
      BY <1>3, <2>2
    <3>3. chunk[j] = produced[s] - Len(chunk) + j - 1
      <4> HIDE DEF j
      <4> QED BY <1>6, <3>1
    <3> QED BY <1>0, <1>6, <1>7, <3>2, <3>3
  <2> QED BY <2>1, <2>2
<1>11. Len(<<>>) = 0
  OBVIOUS
<1> HIDE DEF new, buf, chunk
<1>12. /\ Len(new) <= Cap
       /\ ses'[s].prefix_dropped > 0 => Len(new) = Cap
       /\ \A i \in 1 .. Len(new) : new[i] = ses'[s].prefix_dropped + i - 1
  BY <1>3, <1>4, <1>9, <1>10
<1>13. total_size(s)' + 0 = produced'[s]
  BY <1>0, <1>1, <1>3, <1>7, <1>8 DEF total_size, new
<1>14. \A i \in 1 .. 0 : req'[s].chunk[i] = produced'[s] - 0 + i - 1
  OBVIOUS
<1> QED BY <1>0, <1>1, <1>5, <1>11, <1>12, <1>13, <1>14 DEF OneTail, new

LEMMA StepTailed == Tailed /\ [Next]_vars => Tailed'
<1> SUFFICES ASSUME Tailed, [Next]_vars  PROVE Tailed'
  OBVIOUS
<1>1. ASSUME NEW s \in Requests  PROVE OneTail(s)'
  <2>0. OneTail(s) /\ Typed
    BY OneByOne DEF Tailed
  <2>1. CASE next_orig(s)
    BY <2>0, <2>1, NextTail
  <2>2. CASE write(s) /\ ~ses[s].done
    BY <2>0, <2>2, WriteTail
  <2>3. CASE write(s) /\ ses[s].done
    <3>1. /\ ses' = ses /\ req'[s].chunk = <<>> /\ produced' = produced
      BY <2>0, <2>3 DEF write, append, Typed, ReqType
    <3>2. Len(<<>>) = 0 /\ produced[s] \in Nat
      BY <2>0 DEF Typed
    <3>3. \A i \in 1 .. 0 : req'[s].chunk[i] = produced'[s] - 0 + i - 1
      OBVIOUS
    <3> QED BY <2>0, <2>3, <3>1, <3>2, <3>3 DEF OneTail
  <2>4. CASE ~next_orig(s) /\ ~write(s)
    <3>1. /\ req'[s].chunk = req[s].chunk /\ produced'[s] = produced[s]
          /\ req[s].pc = "write" => req'[s].pc = "write"
      BY <2>0, <2>4, ChunkMoves
    <3>2. ses'[s].buffer = ses[s].buffer /\ ses'[s].prefix_dropped = ses[s].prefix_dropped
      BY <2>0, <2>4, BufferMoves
    <3>3. ~ses'[s].done => ~ses[s].done
      BY <2>0, DoneStays
    <3>4. total_size(s)' = total_size(s)
      BY <3>2 DEF total_size
    <3> QED BY <2>0, <3>1, <3>2, <3>3, <3>4 DEF OneTail
  <2> QED BY <2>1, <2>2, <2>3, <2>4
<1>2. (ChunkIsNext /\ IsTail)'
  BY <1>1 DEF ChunkIsNext, IsTail, OneTail
<1>3. Typed'
  BY StepTyped DEF Tailed
<1> QED BY <1>2, <1>3 DEF Tailed

LEMMA InitTailed == Init => Tailed
<1> SUFFICES ASSUME Init  PROVE ChunkIsNext /\ IsTail
  BY InitTyped DEF Tailed
<1>1. ASSUME NEW s \in Requests
      PROVE  /\ ses[s].buffer = <<>> /\ ses[s].prefix_dropped = 0 /\ req[s].chunk = <<>> /\ produced[s] = 0
  BY DEF Init, Fresh
<1>2. Len(<<>>) = 0 /\ Cap \in Nat
  BY StreamAssumption
<1>3. ASSUME NEW s \in Requests  PROVE OneTail(s)
  <2>1. total_size(s) = 0
    BY <1>1, <1>2 DEF total_size
  <2>2. /\ \A i \in 1 .. 0 : ses[s].buffer[i] = ses[s].prefix_dropped + i - 1
        /\ \A i \in 1 .. 0 : req[s].chunk[i] = produced[s] - 0 + i - 1
    OBVIOUS
  <2> QED BY <1>1, <1>2, <2>1, <2>2 DEF OneTail
<1> QED BY <1>3, OneByOne

LEMMA AlwaysTailed == Spec => []Tailed
BY InitTailed, StepTailed, PTL DEF Spec

\* The buffer of a session is the tail of its output, at the offsets the readers
\* use, for any cap and any chunks, also larger than the cap (append).
THEOREM SpecBufferIsTail == Spec => []BufferIsTail
<1>1. TypeOK /\ Tailed => BufferIsTail
  BY DEF Tailed, BufferIsTail
<1> QED BY SpecTyped, AlwaysTailed, <1>1, PTL

\* What a GET has before it reads, and which of them is told the end.
ReadersSoFar ==
    \A g \in Readers :
        /\ reader[g].pc \in {"new", "check"} => reader[g].got = <<>>
        /\ reader[g].pc # "end" => reader[g].how # "done"
        /\ reader[g].how = "done" => reader[g].session \in Requests

Replayed == Tailed /\ ReadersSoFar /\ ReplayIsExact

\* The parts of Replayed about one reader.
OneReplay(g) ==
    /\ reader[g].pc \in {"new", "check"} => reader[g].got = <<>>
    /\ reader[g].pc # "end" => reader[g].how # "done"
    /\ reader[g].how = "done" => reader[g].session \in Requests
    /\ \A i \in 1 .. Len(reader[g].got) : reader[g].got[i] = reader[g].from + i - 1
    /\ reader[g].how = "done" => offset(g) >= total_size(reader[g].session) /\ ses[reader[g].session].done

\* While a GET waits, nothing changes of what it was told.
LEMMA ReplayWaits ==
    ASSUME Tailed, [Next]_vars, NEW g \in Readers, OneReplay(g), reader'[g] = reader[g]
    PROVE  OneReplay(g)'
<1>1. ASSUME reader[g].how = "done"
      PROVE  offset(g)' >= total_size(reader[g].session)' /\ ses'[reader'[g].session].done
  <2>1. PICK t \in Requests : t = reader[g].session
    BY <1>1 DEF OneReplay
  <2>2. ses[t].done /\ offset(g) >= ses[t].prefix_dropped + Len(ses[t].buffer)
    BY <1>1, <2>1 DEF OneReplay, total_size
  <2>3. ses'[t].done
    BY <2>2, DoneStays DEF Tailed
  <2>4. ses'[t].buffer = ses[t].buffer /\ ses'[t].prefix_dropped = ses[t].prefix_dropped
    BY <2>2, BufferMoves DEF Tailed
  <2>5. offset(g)' = offset(g)
    BY DEF offset
  <2>6. reader'[g].session = t
    BY <2>1
  <2>7. total_size(reader[g].session)' = ses[t].prefix_dropped + Len(ses[t].buffer)
    BY <2>4, <2>6 DEF total_size
  <2> QED BY <2>2, <2>3, <2>5, <2>6, <2>7
<1> QED BY <1>1 DEF OneReplay

\* read_from(): the bytes that follow what the GET has.
LEMMA ReplayReads ==
    ASSUME Tailed, NEW g \in Readers, OneReplay(g), read_from(g)
    PROVE  OneReplay(g)'
<1> DEFINE s    == reader[g].session
           buf  == ses[s].buffer
           pre  == ses[s].prefix_dropped
           got  == reader[g].got
           from == reader[g].from
           m    == offset(g) - pre + 1
           more == SubSeq(buf, m, Len(buf))
<1>0. /\ reader \in [Readers -> GetType] /\ reader[g].pc = "read" /\ s \in Requests
      /\ got \in Seq(Nat) /\ from \in Nat
  BY DEF Tailed, Typed, InHand, GetType, read_from
<1>1. buf \in Seq(Nat) /\ pre \in Nat /\ Len(buf) \in Nat /\ Len(got) \in Nat
  BY <1>0 DEF Tailed, Typed, SesType
<1>2. offset(g) = from + Len(got) /\ offset(g) \in pre .. pre + Len(buf) - 1
  BY DEF offset, read_from
<1>3. m \in Nat /\ m >= 1 /\ m <= Len(buf) + 1 /\ m = from + Len(got) - pre + 1
  <2> HIDE DEF buf, pre, got, from
  <2> QED BY <1>0, <1>1, <1>2
<1>4. reader' = [reader EXCEPT ![g].got = @ \o more]
  BY DEF read_from
<1> HIDE DEF buf, pre, got, from, m
<1>5. /\ more \in Seq(Nat) /\ Len(more) = Len(buf) - m + 1
      /\ \A i \in 1 .. Len(buf) - m + 1 : more[i] = buf[m + i - 1]
  BY <1>1, <1>3, EndOf
<1> HIDE DEF more
<1>6. /\ got \o more \in Seq(Nat) /\ Len(got \o more) = Len(got) + Len(more)
      /\ \A i \in 1 .. Len(got) + Len(more) : (got \o more)[i] = IF i <= Len(got) THEN got[i] ELSE more[i - Len(got)]
  BY <1>0, <1>5
<1>7. \A i \in 1 .. Len(got) : got[i] = from + i - 1
  BY DEF OneReplay, got, from
<1>8. \A i \in 1 .. Len(buf) : buf[i] = pre + i - 1
  BY <1>0 DEF Tailed, IsTail, buf, pre
<1>9. ASSUME NEW i \in 1 .. Len(got \o more)  PROVE (got \o more)[i] = from + i - 1
  <2>1. CASE i <= Len(got)
    BY <1>1, <1>6, <1>7, <2>1
  <2>2. CASE ~(i <= Len(got))
    <3> DEFINE j == i - Len(got)
    <3>0. j \in Int /\ j >= 1 /\ j <= Len(buf) - m + 1
      <4>1. i \in Nat /\ i <= Len(got) + (Len(buf) - m + 1)
        BY <1>1, <1>3, <1>5, <1>6
      <4> QED BY <1>1, <1>3, <2>2, <4>1
    <3>1. j \in 1 .. Len(buf) - m + 1 /\ m + j - 1 \in 1 .. Len(buf)
      <4> HIDE DEF j
      <4>1. m \in Nat /\ m >= 1 /\ m <= Len(buf) + 1 /\ Len(buf) \in Nat
        BY <1>1, <1>3
      <4> QED BY <3>0, <4>1
    <3>2. (got \o more)[i] = more[j]
      BY <1>6, <2>2
    <3>3. more[j] = buf[m + j - 1]
      <4> HIDE DEF j
      <4> QED BY <1>5, <3>1
    <3>4. buf[m + j - 1] = pre + (m + j - 1) - 1
      <4> HIDE DEF j
      <4> QED BY <1>8, <3>1
    <3> QED BY <1>0, <1>1, <1>3, <3>2, <3>3, <3>4
  <2> QED BY <2>1, <2>2
<1>10. /\ reader'[g].got = got \o more /\ reader'[g].from = from
       /\ reader'[g].pc = "read" /\ reader'[g].how = reader[g].how
  BY <1>0, <1>4 DEF GetType, got, from
<1>11. reader[g].how # "done"
  BY <1>0 DEF OneReplay
<1> QED BY <1>9, <1>10, <1>11 DEF OneReplay

\* A step of a GET.
LEMMA ReplaySteps ==
    ASSUME Tailed, NEW g \in Readers, OneReplay(g), get(g) \/ Reader(g) \/ ReadStopped(g)
    PROVE  OneReplay(g)'
<1>0. reader \in [Readers -> GetType] /\ (reader[g].pc = "read" => reader[g].session \in Requests)
  BY DEF Tailed, Typed, InHand
<1>1. CASE get(g)
  <2>1. PICK c \in Convs, from \in Offsets :
          reader' = [reader EXCEPT ![g].session = sessions[c], ![g].from = from,
                                   ![g].pc = IF sessions[c] = NoSession THEN "end" ELSE "check"]
    BY <1>1 DEF get
  <2>2. reader'[g].got = reader[g].got /\ reader'[g].how = reader[g].how
    BY <1>0, <2>1, ZenonT(30) DEF GetType
  <2>3. reader[g].got = <<>> /\ reader[g].how # "done"
    BY <1>1 DEF get, OneReplay
  <2>4. Len(<<>>) = 0
    OBVIOUS
  <2>5. \A i \in 1 .. 0 : reader'[g].got[i] = reader'[g].from + i - 1
    OBVIOUS
  <2> QED BY <2>2, <2>3, <2>4, <2>5 DEF OneReplay
<1>2. ASSUME NEW how \in {"refused", "lost", "stopped"}, End(g, how)  PROVE OneReplay(g)'
  <2>0. reader' = [reader EXCEPT ![g].pc = "end", ![g].how = how]
    BY <1>2 DEF End
  <2>1. /\ reader'[g].got = reader[g].got /\ reader'[g].from = reader[g].from
        /\ reader'[g].pc = "end" /\ reader'[g].how # "done"
    BY <1>0, <2>0 DEF GetType
  <2> QED BY <2>1 DEF OneReplay
<1>3. CASE CheckFrom(g) /\ ~End(g, "refused")
  <2>1. reader' = [reader EXCEPT ![g].pc = "read"] /\ reader[g].pc = "check"
    BY <1>3 DEF CheckFrom
  <2>2. /\ reader'[g].got = reader[g].got /\ reader'[g].from = reader[g].from
        /\ reader'[g].pc = "read" /\ reader'[g].how = reader[g].how
    BY <1>0, <2>1 DEF GetType
  <2>3. reader[g].how # "done"
    BY <2>1 DEF OneReplay
  <2> QED BY <2>2, <2>3 DEF OneReplay
<1>4. CASE ReadDone(g)
  <2>1. /\ reader' = [reader EXCEPT ![g].pc = "end", ![g].how = "done"] /\ ses' = ses
        /\ ses[reader[g].session].done /\ reader[g].pc = "read"
        /\ offset(g) >= ses[reader[g].session].prefix_dropped + Len(ses[reader[g].session].buffer)
    BY <1>4 DEF ReadDone, End
  <2>2. /\ reader'[g].got = reader[g].got /\ reader'[g].from = reader[g].from
        /\ reader'[g].pc = "end" /\ reader'[g].session = reader[g].session
    BY <1>0, <2>1 DEF GetType
  <2>3. offset(g)' = offset(g)
    BY <2>2 DEF offset
  <2>4. reader[g].session \in Requests
    BY <1>0, <2>1
  <2>5. total_size(reader[g].session)' = ses[reader[g].session].prefix_dropped + Len(ses[reader[g].session].buffer)
    BY <2>1, <2>2 DEF total_size
  <2> QED BY <2>1, <2>2, <2>3, <2>4, <2>5 DEF OneReplay
<1>5. CASE read_from(g)
  BY <1>5, ReplayReads
<1> QED BY <1>1, <1>2, <1>3, <1>4, <1>5 DEF Reader, CheckFrom, OffsetLost, ReadStopped

\* Readers do not meet.
LEMMA OtherReaders ==
    ASSUME Typed, [Next]_vars, NEW g \in Readers, ~(get(g) \/ Reader(g) \/ ReadStopped(g))
    PROVE  reader'[g] = reader[g]
<1>0. reader \in [Readers -> GetType]
  BY DEF Typed
<1>1. ASSUME NEW h \in Readers, h # g, get(h) \/ Reader(h) \/ ReadStopped(h)
      PROVE  reader'[g] = reader[g]
  BY <1>0, <1>1 DEF get, Reader, CheckFrom, read_from, OffsetLost, ReadDone, ReadStopped, End
<1>2. ASSUME \/ \E r \in Requests : create_or_replace(r) \/ Producer(r) \/ Generation(r) \/ Disconnect(r)
             \/ \E d \in Deletes : evict_and_cancel(d) \/ Deleter(d)
             \/ gc_loop \/ stop_gc \/ FinalizeLive \/ StopHttp \/ UNCHANGED vars
      PROVE  reader' = reader
  BY <1>2 DEF create_or_replace, Producer, CancelPrevious, FinalizePrevious, StopProducing, write, FinalizeEvicted,
     DestroyProducer, Generation, set_next, evict, next_orig, Disconnect, evict_and_cancel, Deleter, CancelDeleted,
     FinalizeDeleted, gc_loop, stop_gc, FinalizeLive, StopHttp, vars
<1> QED BY <1>1, <1>2 DEF Next

LEMMA StepReplayed == Replayed /\ [Next]_vars => Replayed'
<1> SUFFICES ASSUME Replayed, [Next]_vars  PROVE Replayed'
  OBVIOUS
<1>1. Tailed'
  BY StepTailed DEF Replayed
<1>2. ASSUME NEW g \in Readers  PROVE OneReplay(g)'
  <2>1. OneReplay(g)
    BY DEF Replayed, ReadersSoFar, ReplayIsExact, OneReplay
  <2> QED BY <2>1, ReplayWaits, ReplaySteps, OtherReaders DEF Replayed, Tailed
<1>3. (ReadersSoFar /\ ReplayIsExact)'
  BY <1>2 DEF ReadersSoFar, ReplayIsExact, OneReplay
<1> QED BY <1>1, <1>3 DEF Replayed

LEMMA InitReplayed == Init => Replayed
<1> SUFFICES ASSUME Init  PROVE ReadersSoFar /\ ReplayIsExact
  BY InitTailed DEF Replayed
<1>1. ASSUME NEW g \in Readers  PROVE reader[g].got = <<>> /\ reader[g].how = ""
  BY DEF Init
<1>2. Len(<<>>) = 0
  OBVIOUS
<1>3. ASSUME NEW g \in Readers, NEW i \in 1 .. Len(reader[g].got)  PROVE reader[g].got[i] = reader[g].from + i - 1
  <2>1. i \in 1 .. 0
    BY <1>1, <1>2, <1>3
  <2> QED BY <2>1
<1> QED BY <1>1, <1>3 DEF ReadersSoFar, ReplayIsExact

\* A GET gets the bytes from its offset on without a gap or a repetition, in
\* whatever way its reads meet the writes that drop the front, and "done" after
\* the last byte only (read_from, append).
THEOREM SpecReplayIsExact == Spec => []ReplayIsExact
<1>1. Replayed => ReplayIsExact
  BY DEF Replayed
<1> QED BY InitReplayed, StepReplayed, <1>1, PTL DEF Spec


-----------------------------------------------------------------------------
(* A session that can be found holds the whole output.                     *)

InMap(s) == sessions[Conv[s]] = s

\* Who is to end a session took it out of the map; one that is in the map is
\* ended by its own POST only, and this one goes on to its end.
Found(s) ==
    /\ WillFinalize(s) => ~InMap(s) /\ req[s].pc # "new"
    /\ req[s].pc = "new" => ~ses[s].done /\ ~ses[s].cancelled
    /\ InMap(s) => /\ ~ses[s].cancelled /\ req[s].pc # "evicted"
                   /\ ses[s].done => req[s].pc = "end"
                   /\ req[s].pc \in {"destroy", "end"} => ~req[s].more
                   /\ total_size(s) + Len(req[s].chunk) = produced[s]

Findable == Tailed /\ Filed /\ \A s \in Requests : Found(s)

\* A session is ended by who has it in hand, or by its own POST.
LEMMA WhoEnds ==
    ASSUME Typed, [Next]_vars, NEW s \in Requests
    PROVE  \/ ses'[s].done = ses[s].done /\ ses'[s].cancelled = ses[s].cancelled
           \/ WillFinalize(s)
           \/ DestroyProducer(s) /\ ses'[s].cancelled = ses[s].cancelled
<1> DEFINE Same == ses'[s].done = ses[s].done /\ ses'[s].cancelled = ses[s].cancelled
<1>0. ses \in [Requests -> SesType]
  BY DEF Typed
<1>1. /\ \A S : s \notin S => finalize(S)[s] = ses[s]
      /\ \A S : finalize(S)[s].cancelled = ses[s].cancelled
      /\ \A t \in Requests : t # s => cancel(t)[s] = ses[s]
  BY <1>0 DEF finalize, cancel, SesType
<1>2. ASSUME NEW r \in Requests, write(r)  PROVE Same
  <2>1. ses' = append(r, req[r].chunk) /\ req[r].chunk \in Seq(Nat)
    BY <1>2 DEF write, Typed, ReqType
  <2>2. CASE ses[r].done
    BY <2>1, <2>2 DEF append
  <2>3. CASE ~ses[r].done
    <3>1. /\ \A x \in Requests \ {r} : append(r, req[r].chunk)[x] = ses[x]
          /\ append(r, req[r].chunk)[r].done = ses[r].done
          /\ append(r, req[r].chunk)[r].cancelled = ses[r].cancelled
      BY <1>0, <2>1, <2>3, Appended
    <3> QED BY <2>1, <3>1
  <2> QED BY <2>2, <2>3
<1>3. ASSUME NEW r \in Requests, CancelPrevious(r) \/ FinalizePrevious(r) \/ FinalizeEvicted(r)
      PROVE  Same \/ WillFinalize(s)
  <2>1. req[r].pc \in {"cancel", "finalize", "evicted"} /\ req[r].victim \in Requests
    BY <1>3 DEF CancelPrevious, FinalizePrevious, FinalizeEvicted, Typed, InHand
  <2>2. req[r].victim = s => WillFinalize(s)
    BY <2>1 DEF WillFinalize
  <2>3. req[r].victim # s => ses'[s] = ses[s]
    BY <1>1, <1>3, <2>1 DEF CancelPrevious, FinalizePrevious, FinalizeEvicted
  <2> QED BY <2>2, <2>3
<1>4. ASSUME NEW d \in Deletes, Deleter(d)  PROVE Same \/ WillFinalize(s)
  <2>1. del[d].pc \in {"cancel", "finalize"} /\ del[d].victim \in Requests
    BY <1>4 DEF Deleter, CancelDeleted, FinalizeDeleted, Typed, InHand
  <2>2. del[d].victim = s => WillFinalize(s)
    BY <2>1 DEF WillFinalize
  <2>3. del[d].victim # s => ses'[s] = ses[s]
    BY <1>1, <1>4, <2>1 DEF Deleter, CancelDeleted, FinalizeDeleted
  <2> QED BY <2>2, <2>3
<1>5. ASSUME FinalizeLive  PROVE Same \/ WillFinalize(s)
  BY <1>1, <1>5 DEF FinalizeLive, WillFinalize
<1>6. ASSUME NEW r \in Requests, DestroyProducer(r)
      PROVE  Same \/ (DestroyProducer(s) /\ ses'[s].cancelled = ses[s].cancelled)
  <2>1. CASE r = s
    BY <1>1, <1>6, <2>1 DEF DestroyProducer
  <2>2. CASE r # s
    BY <1>1, <1>6, <2>2 DEF DestroyProducer
  <2> QED BY <2>1, <2>2
<1>7. ASSUME \/ \E r \in Requests : \/ create_or_replace(r) \/ StopProducing(r) \/ Generation(r) \/ Disconnect(r)
             \/ \E d \in Deletes : evict_and_cancel(d)
             \/ gc_loop \/ stop_gc \/ StopHttp \/ UNCHANGED vars
             \/ \E g \in Readers : get(g) \/ Reader(g) \/ ReadStopped(g)
      PROVE  Same
  BY <1>7 DEF create_or_replace, StopProducing, Generation, set_next, evict, next_orig, Disconnect,
       evict_and_cancel, gc_loop, stop_gc, StopHttp, vars, get, Reader, CheckFrom, read_from, OffsetLost,
       ReadDone, ReadStopped
<1> QED BY <1>2, <1>3, <1>4, <1>5, <1>6, <1>7 DEF Next, Producer

\* Only its own POST installs a session, once; who takes one in hand takes it
\* out of the map.
LEMMA MapMoves ==
    ASSUME Typed, Filed, [Next]_vars, NEW s \in Requests
    PROVE  /\ InMap(s)' => InMap(s) \/ create_or_replace(s)
           /\ WillFinalize(s)' => WillFinalize(s) \/ (InMap(s) /\ ~InMap(s)')
<1>0. /\ Conv[s] \in Convs /\ s # NoSession /\ NoSession \notin Requests
      /\ \A r \in Requests : Conv[r] \in Convs
      /\ sessions \in [Convs -> Requests \cup {NoSession}]
      /\ del \in [Deletes -> DelType]
      /\ main \in [pc : {"run", "finalize", "down"}, victims : SUBSET Requests]
      /\ \A c \in Convs : sessions[c] = s => Conv[s] = c /\ req[s].pc # "new"
  BY StreamAssumption DEF Typed, Filed
<1> DEFINE G == (InMap(s)' => InMap(s) \/ create_or_replace(s))
                /\ (WillFinalize(s)' => WillFinalize(s) \/ (InMap(s) /\ ~InMap(s)'))
<1>1. ASSUME NEW r \in Requests, create_or_replace(r)  PROVE G
  <2>1. /\ \A x \in Requests : x # r => req'[x] = req[x]
        /\ main' = main /\ del' = del /\ req'[r].victim = sessions[Conv[r]]
    BY <1>1, RequestMoves
  <2>2. sessions' = [sessions EXCEPT ![Conv[r]] = r] /\ req[r].pc = "new"
    BY <1>1 DEF create_or_replace
  <2>3. r # s => (InMap(s)' => InMap(s))
    BY <1>0, <2>2 DEF InMap
  <2>4. WillFinalize(s)' => WillFinalize(s) \/ req'[r].victim = s
    BY <2>1 DEF WillFinalize
  <2>5. sessions[Conv[r]] = s => InMap(s) /\ ~InMap(s)'
    BY <1>0, <2>2 DEF InMap
  <2> QED BY <1>1, <2>1, <2>3, <2>4, <2>5
<1>2. ASSUME NEW r \in Requests, evict(r)  PROVE G
  <2>1. /\ \A x \in Requests : x # r => req'[x] = req[x]
        /\ main' = main /\ del' = del /\ req'[r].victim = sessions[Conv[r]]
    BY <1>2, RequestMoves DEF Generation
  <2>2. sessions' = [sessions EXCEPT ![Conv[r]] = NoSession]
    BY <1>2 DEF evict
  <2>3. InMap(s)' => InMap(s)
    BY <1>0, <2>2 DEF InMap
  <2>4. WillFinalize(s)' => WillFinalize(s) \/ req'[r].victim = s
    BY <2>1 DEF WillFinalize
  <2>5. sessions[Conv[r]] = s => InMap(s) /\ ~InMap(s)'
    BY <1>0, <2>2 DEF InMap
  <2> QED BY <2>1, <2>3, <2>4, <2>5
<1>3. ASSUME NEW r \in Requests, Producer(r) \/ set_next(r) \/ next_orig(r) \/ Disconnect(r)  PROVE G
  <2>1. /\ \A x \in Requests : x # r => req'[x] = req[x]
        /\ main' = main /\ del' = del
    BY <1>3, RequestMoves DEF Generation
  <2>2. sessions' = sessions
    BY <1>3 DEF Producer, CancelPrevious, FinalizePrevious, StopProducing, write, FinalizeEvicted,
         DestroyProducer, set_next, next_orig, Disconnect
  <2>3. CASE CancelPrevious(r)
    <3>1. req[r].pc = "cancel" /\ req'[r].victim = req[r].victim
      BY <2>3, RequestMoves
    <3> QED BY <2>1, <2>2, <3>1 DEF WillFinalize, InMap
  <2>4. CASE ~CancelPrevious(r)
    <3>1. req'[r].pc \notin {"cancel", "finalize", "evicted"}
      <4>0. req \in [Requests -> ReqType]
        BY DEF Typed
      <4>1. CASE FinalizePrevious(r)
        BY <4>0, <4>1 DEF FinalizePrevious, Drop
      <4>2. CASE StopProducing(r)
        BY <4>0, <4>2 DEF StopProducing, Goto
      <4>3. CASE write(r)
        BY <4>0, <4>3 DEF write
      <4>4. CASE FinalizeEvicted(r)
        BY <4>0, <4>4 DEF FinalizeEvicted, Drop
      <4>5. CASE DestroyProducer(r)
        BY <4>0, <4>5 DEF DestroyProducer
      <4>6. CASE set_next(r)
        BY <4>0, <4>6 DEF set_next, Goto
      <4>7. CASE next_orig(r)
        BY <4>0, <4>7 DEF next_orig
      <4>8. CASE Disconnect(r)
        BY <4>0, <4>8 DEF Disconnect, ReqType
      <4> QED BY <1>3, <2>4, <4>1, <4>2, <4>3, <4>4, <4>5, <4>6, <4>7, <4>8 DEF Producer
    <3> QED BY <2>1, <2>2, <3>1 DEF WillFinalize, InMap
  <2> QED BY <2>3, <2>4
<1>4. ASSUME NEW d \in Deletes, evict_and_cancel(d)  PROVE G
  <2>1. PICK c \in Convs :
          /\ sessions' = [sessions EXCEPT ![c] = NoSession]
          /\ del' = [del EXCEPT ![d] = [pc |-> IF sessions[c] = NoSession THEN "end" ELSE "cancel",
                                        victim |-> sessions[c]]]
          /\ main' = main /\ req' = req
    BY <1>4 DEF evict_and_cancel
  <2>2. /\ \A x \in Deletes : x # d => del'[x] = del[x]
        /\ del'[d].victim = sessions[c]
    BY <1>0, <2>1
  <2>3. InMap(s)' => InMap(s)
    BY <1>0, <2>1 DEF InMap
  <2>4. WillFinalize(s)' => WillFinalize(s) \/ sessions[c] = s
    BY <2>1, <2>2 DEF WillFinalize
  <2>5. sessions[c] = s => InMap(s) /\ ~InMap(s)'
    BY <1>0, <2>1 DEF InMap
  <2> QED BY <2>3, <2>4, <2>5
<1>5. ASSUME NEW d \in Deletes, Deleter(d)  PROVE G
  <2>1. /\ \A x \in Deletes : x # d => del'[x] = del[x]
        /\ del'[d].pc \in {"cancel", "finalize"} => del'[d].victim = del[d].victim /\ del[d].pc \in {"cancel", "finalize"}
        /\ main' = main /\ sessions' = sessions /\ req' = req
    BY <1>0, <1>5 DEF Deleter, CancelDeleted, FinalizeDeleted, DelType
  <2> QED BY <2>1 DEF WillFinalize, InMap
<1>6. ASSUME gc_loop  PROVE G
  <2>1. del' = del /\ main' = main /\ req' = req
    BY <1>6 DEF gc_loop
  <2>2. InMap(s)' => InMap(s)
    BY <1>0, <1>6 DEF gc_loop, InMap
  <2> QED BY <2>1, <2>2 DEF WillFinalize
<1>7. ASSUME stop_gc  PROVE G
  <2>1. del' = del /\ req' = req /\ main'.victims = {sessions[c] : c \in Convs} \ {NoSession}
        /\ \A c \in Convs : sessions'[c] = NoSession
    BY <1>7 DEF stop_gc
  <2>2. ~InMap(s)'
    BY <1>0, <2>1 DEF InMap
  <2>3. s \in main'.victims => InMap(s)
    BY <1>0, <2>1 DEF InMap
  <2> QED BY <2>1, <2>2, <2>3 DEF WillFinalize
<1>8. ASSUME FinalizeLive \/ StopHttp \/ UNCHANGED vars \/ \E g \in Readers : get(g) \/ Reader(g) \/ ReadStopped(g)
      PROVE  G
  <2>1. del' = del /\ req' = req /\ sessions' = sessions
    BY <1>8 DEF FinalizeLive, StopHttp, get, Reader, CheckFrom, read_from, OffsetLost, ReadDone, ReadStopped, vars
  <2>2. main'.victims \subseteq main.victims
    BY <1>0, <1>8 DEF FinalizeLive, StopHttp, get, Reader, CheckFrom, read_from, OffsetLost, ReadDone, ReadStopped, vars
  <2> QED BY <2>1, <2>2 DEF WillFinalize, InMap
<1> QED BY <1>1, <1>2, <1>3, <1>4, <1>5, <1>6, <1>7, <1>8 DEF Next, Generation

\* Where a POST whose session is in the map can go.
LEMMA OwnMoves ==
    ASSUME Typed, [Next]_vars, NEW s \in Requests
    PROVE  /\ req'[s].pc = "new" => req[s].pc = "new"
           /\ DestroyProducer(s) => req'[s].pc = "end"
           /\ \/ req'[s].pc = req[s].pc /\ req'[s].more = req[s].more
              \/ create_or_replace(s) /\ req[s].pc = "new" /\ req'[s].pc \in {"handler", "cancel"}
              \/ evict(s)
              \/ req[s].pc = "stream" /\ ses[s].cancelled
              \/ req[s].pc = "write" /\ (req'[s].pc = "stream" \/ (req'[s].pc = "destroy" /\ ~req'[s].more))
              \/ req[s].pc = "evicted"
              \/ DestroyProducer(s) /\ req[s].pc = "destroy" /\ req'[s].pc = "end" /\ req'[s].more = req[s].more
              \/ req[s].pc \in {"cancel", "finalize", "handler", "stream"} /\ req'[s].pc \in {"finalize", "handler", "stream", "write"}
<1> DEFINE Moves ==
             \/ req'[s].pc = req[s].pc /\ req'[s].more = req[s].more
             \/ create_or_replace(s) /\ req[s].pc = "new" /\ req'[s].pc \in {"handler", "cancel"}
             \/ evict(s)
             \/ req[s].pc = "stream" /\ ses[s].cancelled
             \/ req[s].pc = "write" /\ (req'[s].pc = "stream" \/ (req'[s].pc = "destroy" /\ ~req'[s].more))
             \/ req[s].pc = "evicted"
             \/ DestroyProducer(s) /\ req[s].pc = "destroy" /\ req'[s].pc = "end" /\ req'[s].more = req[s].more
             \/ req[s].pc \in {"cancel", "finalize", "handler", "stream"} /\ req'[s].pc \in {"finalize", "handler", "stream", "write"}
<1>0. req \in [Requests -> ReqType] /\ req[s] \in ReqType
  BY DEF Typed
<1>1. ASSUME create_or_replace(s)  PROVE Moves
  BY <1>0, <1>1 DEF create_or_replace
<1>2. ASSUME CancelPrevious(s)  PROVE Moves
  BY <1>0, <1>2 DEF CancelPrevious, Goto
<1>3. ASSUME FinalizePrevious(s)  PROVE Moves
  BY <1>0, <1>3 DEF FinalizePrevious, Drop
<1>4. ASSUME FinalizeEvicted(s)  PROVE Moves
  BY <1>4 DEF FinalizeEvicted
<1>5. ASSUME StopProducing(s)  PROVE Moves
  BY <1>5 DEF StopProducing, should_stop
<1>6. ASSUME write(s)  PROVE Moves
  <2>1. req[s].pc = "write" /\ req' = [req EXCEPT ![s].chunk = <<>>, ![s].pc = IF req[s].more THEN "stream" ELSE "destroy"]
    BY <1>6 DEF write
  <2>2. req'[s].pc = (IF req[s].more THEN "stream" ELSE "destroy") /\ req'[s].more = req[s].more
    BY <1>0, <2>1 DEF ReqType
  <2> QED BY <2>1, <2>2
<1>7. DestroyProducer(s) => req[s].pc = "destroy" /\ req'[s].pc = "end" /\ req'[s].more = req[s].more
  BY <1>0 DEF DestroyProducer, ReqType
<1>8. ASSUME set_next(s)  PROVE Moves
  BY <1>0, <1>8 DEF set_next, Goto
<1>9. ASSUME next_orig(s)  PROVE Moves
  BY <1>0, <1>9 DEF next_orig
<1>10. ASSUME Disconnect(s)  PROVE Moves
  BY <1>0, <1>10 DEF Disconnect, ReqType
<1>11. ASSUME NEW r \in Requests, r # s, create_or_replace(r) \/ Producer(r) \/ Generation(r) \/ Disconnect(r)
       PROVE  req'[s] = req[s]
  BY <1>11, RequestMoves
<1>12. ASSUME \/ \E d \in Deletes : evict_and_cancel(d) \/ Deleter(d)
              \/ gc_loop \/ stop_gc \/ FinalizeLive \/ StopHttp
              \/ \E g \in Readers : get(g) \/ Reader(g) \/ ReadStopped(g)
              \/ UNCHANGED vars
       PROVE  req' = req
  BY <1>12 DEF evict_and_cancel, Deleter, CancelDeleted, FinalizeDeleted, gc_loop, stop_gc, FinalizeLive, StopHttp,
     get, Reader, CheckFrom, read_from, OffsetLost, ReadDone, ReadStopped, vars
<1>13. req'[s].pc = "new" => req[s].pc = "new"
  BY <1>11, <1>12, RequestMoves DEF Next
<1>15. Moves
  BY <1>1, <1>2, <1>3, <1>4, <1>5, <1>6, <1>7, <1>8, <1>9, <1>10, <1>11, <1>12 DEF Next, Producer, Generation
<1> QED BY <1>7, <1>13, <1>15

LEMMA StepFindable == Findable /\ [Next]_vars => Findable'
<1> SUFFICES ASSUME Findable, [Next]_vars  PROVE Findable'
  OBVIOUS
<1>0. Typed /\ Filed /\ Tailed
  BY DEF Findable, Tailed
<1>1. Tailed' /\ Filed'
  BY <1>0, StepTailed, FiledStep
<1>2. ASSUME NEW s \in Requests  PROVE Found(s)'
  <2>0. Found(s)
    BY DEF Findable
  <2>1. /\ InMap(s)' => InMap(s) \/ create_or_replace(s)
        /\ WillFinalize(s)' => WillFinalize(s) \/ (InMap(s) /\ ~InMap(s)')
    BY <1>0, MapMoves
  <2>2. InMap(s) => req[s].pc # "new" /\ Conv[s] \in Convs /\ s # NoSession
    BY <1>0, StreamAssumption DEF Filed, InMap
  <2>3. req[s].pc # "new" => req'[s].pc # "new"
    BY <1>0, OwnMoves
  <2>4. \/ ses'[s].done = ses[s].done /\ ses'[s].cancelled = ses[s].cancelled
        \/ WillFinalize(s)
        \/ DestroyProducer(s) /\ ses'[s].cancelled = ses[s].cancelled
    BY <1>0, WhoEnds
  <2>5. WillFinalize(s)' => ~InMap(s)' /\ req'[s].pc # "new"
    BY <2>0, <2>1, <2>2, <2>3 DEF Found, create_or_replace
  <2>6. req'[s].pc = "new" => ~ses'[s].done /\ ~ses'[s].cancelled
    BY <2>0, <2>3, <2>4 DEF Found, DestroyProducer
  <2>7. CASE InMap(s)'
    <3>1. ~WillFinalize(s) /\ ~ses[s].cancelled /\ ~ses'[s].cancelled
      BY <2>0, <2>1, <2>4, <2>7 DEF Found, create_or_replace
    <3>2. ~evict(s)
      <4>1. evict(s) => ~InMap(s)'
        BY <1>0, StreamAssumption DEF evict, InMap, Typed
      <4> QED BY <2>7, <4>1
    <3>3. /\ req'[s].pc # "evicted"
          /\ req'[s].pc \in {"destroy", "end"} => ~req'[s].more
      BY <1>0, <2>0, <2>1, <2>7, <3>1, <3>2, OwnMoves DEF Found, create_or_replace
    <3>4. ses'[s].done => req'[s].pc = "end"
      <4>1. CASE DestroyProducer(s)
        BY <1>0, <4>1, OwnMoves
      <4>2. CASE ~DestroyProducer(s) /\ ses'[s].done
        <5>1. ses[s].done
          BY <2>4, <3>1, <4>2
        <5>2. InMap(s) /\ req[s].pc = "end"
          BY <2>0, <2>1, <2>7, <5>1 DEF Found, create_or_replace
        <5>. QED
          BY <1>0, <3>2, <4>2, <5>2, OwnMoves DEF create_or_replace
      <4>. QED
        BY <4>1, <4>2
    <3>5. total_size(s)' + Len(req'[s].chunk) = produced'[s]
      <4>1. CASE ~ses'[s].done
        BY <1>1, <4>1 DEF Tailed, ChunkIsNext
      <4>2. CASE ses'[s].done
        <5>1. req'[s].pc = "end"
          BY <3>4, <4>2
        <5>2. req[s].pc \in {"destroy", "end"}
          BY <1>0, <2>0, <2>1, <2>7, <3>1, <3>2, <5>1, OwnMoves DEF Found, create_or_replace
        <5>3. InMap(s) /\ total_size(s) + Len(req[s].chunk) = produced[s]
          BY <2>0, <2>1, <2>7, <5>2 DEF Found, create_or_replace
        <5>4. ~write(s) /\ ~next_orig(s)
          BY <5>2 DEF write, next_orig
        <5>5. req'[s].chunk = req[s].chunk /\ produced'[s] = produced[s]
          BY <1>0, <5>4, ChunkMoves
        <5>6. ses'[s].buffer = ses[s].buffer /\ ses'[s].prefix_dropped = ses[s].prefix_dropped
          BY <1>0, <5>4, BufferMoves
        <5> QED BY <5>3, <5>5, <5>6 DEF total_size
      <4> QED BY <4>1, <4>2
    <3> QED BY <2>5, <2>6, <3>1, <3>3, <3>4, <3>5 DEF Found
  <2> QED BY <2>5, <2>6, <2>7 DEF Found
<1> QED BY <1>1, <1>2 DEF Findable

LEMMA InitFindable == Init => Findable
<1> SUFFICES ASSUME Init  PROVE Findable
  OBVIOUS
<1>1. Tailed /\ Filed
  BY InitTailed, InitEnded DEF Ended
<1>2. ASSUME NEW s \in Requests  PROVE Found(s)
  <2>1. /\ req[s].pc = "new" /\ req[s].victim = NoSession /\ ~ses[s].done /\ ~ses[s].cancelled
        /\ \A r \in Requests : req[r].pc = "new"
        /\ \A d \in Deletes : del[d].pc = "new"
        /\ main.victims = {}
        /\ \A c \in Convs : sessions[c] = NoSession
    BY DEF Init, Fresh
  <2>2. ~InMap(s) /\ ~WillFinalize(s)
    BY <2>1, StreamAssumption DEF InMap, WillFinalize
  <2> QED BY <2>1, <2>2 DEF Found
<1> QED BY <1>1, <1>2 DEF Findable

\* A session one can find by its conversation holds the whole output, also when
\* the client has left: no other thread ends it while it is in the map, and its
\* own POST does so only after the last chunk (on_complete, ~stream_pipe_producer).
THEOREM SpecSurvivesDisconnect == Spec => []SurvivesDisconnect
<1>1. Findable => SurvivesDisconnect
  BY DEF Findable, Found, InMap, SurvivesDisconnect
<1> QED BY InitFindable, StepFindable, <1>1, PTL DEF Spec
=============================================================================
