------------------------------ MODULE TMQSession -----------------------------
(***************************************************************************)
(* One TMQ WebSocket session (controller/ws/tmq/tmq.go): the consumer      *)
(* lifecycle (subscribe, unsubscribe, Close), the request handlers that    *)
(* touch the message buffer, and the auto-release goroutine running        *)
(* beside them.                                                            *)
(*                                                                         *)
(* melody calls the message handler from the session's read loop, so      *)
(* requests run one at a time; h is that handler's program counter.  A     *)
(* handler that drops listLocker (or never takes it) between two uses of   *)
(* the buffer is split into steps at that point, so that autoRelease can   *)
(* run in between.  Handlers that hold listLocker throughout are one step. *)
(* Native calls are atomic: each runs under asyncLocker on the session's   *)
(* native thread and the caller waits for its result.  An error response   *)
(* that changes nothing is not modelled as a step.                         *)
(***************************************************************************)
EXTENDS TMQBuffer

CONSTANTS
    MaxConsumers,        \* bound: native consumers created
    AutoCommitArgs,      \* values of the auto_commit argument a client sends
    AppendCanFail,       \* a client may send a topic tmq_list_append rejects
    ClientCommitOffset,  \* the client sends commit_offset requests
    WriteErrors,         \* a write of the session's write pump may fail
    CommitCanFail,       \* tmq_commit_sync may return an error
    OutCap,              \* bound: binary frames waiting in the output channel;
                         \* 0: the write pump sends each frame as it is queued
    NoObj                \* no struct

ASSUME AutoCommitArgs \subseteq {"unset", "true", "false"}
ASSUME AppendCanFail \in BOOLEAN /\ ClientCommitOffset \in BOOLEAN
ASSUME WriteErrors \in BOOLEAN /\ CommitCanFail \in BOOLEAN

VARIABLES
    consumer,           \* t.consumer; 0 is nil
    unsubscribed,       \* t.unsubscribed
    closed,             \* t.closed
    timerOn,            \* the ticker goroutine started by subscribe runs
    h,                  \* the request handler in progress
    nConsumers,         \* native: consumers created so far
    closedConsumers,    \* native: consumers closed by tmq_consumer_close
    consumerAutoCommit, \* native: enable.auto.commit of t.consumer
    pos,                \* native: next offset poll returns, per partition
    nResults,           \* native: results handed out so far
    readDone,           \* the read loop has ended
    outq,               \* melody's output channel: the binary frames queued
    pumpUp,             \* the write pump goroutine runs
    listHeld,           \* t.listLocker is held by a commit that has returned
    closeHung           \* a Close waits for t.listLocker in cleanupMessages,
                        \* holding t.Lock

sessVars == <<consumer, unsubscribed, closed, timerOn, h, nConsumers,
              closedConsumers, consumerAutoCommit, pos, nResults, readDone,
              outq, pumpUp>>
lockVars == <<listHeld, closeHung>>
vars == <<bufVars, sessVars, lockVars>>

MsgIds == 0..MaxPolls            \* message_id values a client sends
PCs == {"idle", "fetch_check", "fetch_native", "block_send", "raw_native",
        "meta_check", "meta_native", "co_walk", "co_clean", "crashed", "hung", "overflow"}
Idle == [pc |-> "idle", o |-> NoObj, id |-> 0]
Hung == [Idle EXCEPT !.pc = "hung"]      \* blocked on a lock nobody releases

Ready == h.pc = "idle" /\ ~readDone        \* the read loop takes a request

(***************************************************************************)
(* subscribe                                                               *)
(***************************************************************************)
ParseAutoCommit(ac) == IF ac = "unset" THEN isAutoCommit ELSE ac = "true"

\* First subscribe: an option after auto_commit is rejected, or
\* tmq_consumer_new fails; isAutoCommit keeps the value just parsed.
subscribeFails(ac) ==
    /\ UNCHANGED lockVars
    /\ Ready /\ consumer = 0 /\ ~closeHung /\ ac # "unset"
    /\ isAutoCommit' = ParseAutoCommit(ac)
    /\ UNCHANGED <<list, msg, pool, used, topicPartitions, nextTime,
                   messageIndex, live, now>>
    /\ UNCHANGED <<readDone, outq, pumpUp, consumer, unsubscribed, closed, timerOn, h, nConsumers,
                   closedConsumers, consumerAutoCommit, pos, nResults>>

subscribeNew(ac) ==
    /\ UNCHANGED lockVars
    /\ Ready /\ consumer = 0 /\ ~closeHung /\ nConsumers < MaxConsumers
    /\ LET c == nConsumers + 1 IN
       /\ nConsumers' = c
       /\ isAutoCommit' = ParseAutoCommit(ac)
       /\ \/ \* tmq_list_append fails: closes t.consumer, still nil
             /\ AppendCanFail
             /\ UNCHANGED <<consumer, closedConsumers, consumerAutoCommit,
                            timerOn>>
          \/ \* tmq_subscribe fails: closes c
             /\ closedConsumers' = closedConsumers \cup {c}
             /\ UNCHANGED <<consumer, consumerAutoCommit, timerOn>>
          \/ \* success: the ticker goroutine starts if auto-commit is on, and
             \* ends at once if closeCh is already closed
             /\ consumer' = c
             /\ consumerAutoCommit' = IF ac = "unset" THEN TRUE
                                      ELSE ac = "true"
             /\ timerOn' = (isAutoCommit' /\ ~closed)
             /\ UNCHANGED closedConsumers
    /\ UNCHANGED <<list, msg, pool, used, topicPartitions, nextTime,
                   messageIndex, live, now>>
    /\ UNCHANGED <<readDone, outq, pumpUp, unsubscribed, closed, h, pos, nResults>>

\* Subscribe again after unsubscribe, on the consumer kept in t.consumer.
resubscribe ==
    /\ UNCHANGED lockVars
    /\ Ready /\ consumer # 0 /\ ~closeHung /\ unsubscribed
    /\ \/ \* tmq_list_append fails: closes t.consumer, keeps the pointer
          /\ AppendCanFail
          /\ closedConsumers' = closedConsumers \cup {consumer}
          /\ UNCHANGED unsubscribed
       \/ \* tmq_subscribe fails
          UNCHANGED <<closedConsumers, unsubscribed>>
       \/ /\ unsubscribed' = FALSE
          /\ UNCHANGED closedConsumers
    /\ BufIdle
    /\ UNCHANGED <<readDone, outq, pumpUp, consumer, closed, timerOn, h, nConsumers,
                   consumerAutoCommit, pos, nResults>>

(***************************************************************************)
(* poll: the native poll returns nothing, a message of a known type (kept  *)
(* in a pooled struct), or one of an unknown type (error response; the    *)
(* result is never freed).  A consumer that is unsubscribed returns none.  *)
(* addMessage takes the next index before listLocker; a held lock blocks  *)
(* the read loop there.                                                    *)
(***************************************************************************)
poll ==
    /\ UNCHANGED lockVars
    /\ Ready /\ consumer # 0
    /\ \/ BufIdle /\ UNCHANGED <<pos, nResults, h>>
       \/ /\ ~unsubscribed /\ nResults < MaxPolls
          /\ \E p \in Partitions, type \in Types :
             LET r == nResults + 1
                 tp == <<p, pos[p]>>
             IN /\ pos[p] < MaxOffset
                /\ pos' = [pos EXCEPT ![p] = @ + 1]
                /\ nResults' = r
                /\ live' = live \cup {r}
                /\ \/ /\ ~messageTypeIsValid(type)
                      /\ UNCHANGED <<list, msg, pool, used, topicPartitions,
                                     messageIndex, h>>
                   \/ /\ messageTypeIsValid(type) /\ ~listHeld
                      /\ \E o \in Obj : PoolGet(o) /\ addMessage(o, r, type, tp)
                      /\ UNCHANGED h
                   \/ /\ messageTypeIsValid(type) /\ listHeld
                      /\ \E o \in Obj : PoolGet(o) /\ addMessageBlocked(o, r, type, tp)
                      /\ h' = Hung
          /\ UNCHANGED <<nextTime, isAutoCommit, now>>
    /\ UNCHANGED <<readDone, outq, pumpUp, consumer, unsubscribed, closed, timerOn, nConsumers,
                   closedConsumers, consumerAutoCommit>>

(***************************************************************************)
(* The fetch family.  Each looks the message up under listLocker.RLock,    *)
(* drops the lock, and only then checks the type and takes the message's  *)
(* own lock to call the native library with m.cPointer.                    *)
(***************************************************************************)
\* The lookup step shared by the four handlers; "message is nil" otherwise.
Lookup(id, next) ==
    /\ UNCHANGED lockVars
    /\ Ready /\ consumer # 0 /\ ~listHeld
    /\ LET i == getMessage(id) IN
       /\ i # 0
       /\ h' = [h EXCEPT !.pc = next, !.o = list[i], !.id = id]
    /\ BufIdle
    /\ UNCHANGED <<readDone, outq, pumpUp, consumer, unsubscribed, closed, timerOn, nConsumers,
                   closedConsumers, consumerAutoCommit, pos, nResults>>

\* A handler step that only moves h.
HStep(from, to) ==
    /\ UNCHANGED lockVars
    /\ h.pc = from
    /\ h' = IF to = "idle" THEN Idle ELSE [h EXCEPT !.pc = to]
    /\ BufIdle
    /\ UNCHANGED <<readDone, outq, pumpUp, consumer, unsubscribed, closed, timerOn, nConsumers,
                   closedConsumers, consumerAutoCommit, pos, nResults>>

fetch == \E id \in MsgIds : Lookup(id, "fetch_check")

\* A binary frame queued by WriteBinary: the bytes the handler meant to
\* send, the bytes now in the slice, and whether the slice still shares
\* the array of struct o's buffer.
Frame(o, c) == [o |-> o, want |-> c, got |-> c, alias |-> TRUE]

\* The queue after struct o's buffer is Reset and refilled with c: in
\* place, when the array is large enough, which rewrites every queued frame
\* sharing it; or Grow moves the buffer to a new array, and those frames
\* keep their bytes (the sizes that decide it are not modelled).
Rewritten(o, c) ==
    { [i \in DOMAIN outq |->
         IF outq[i].o = o /\ outq[i].alias THEN [outq[i] EXCEPT !.got = c]
         ELSE outq[i]],
      [i \in DOMAIN outq |->
         IF outq[i].o = o THEN [outq[i] EXCEPT !.alias = FALSE] ELSE outq[i]] }

\* session.WriteBinary, a send on the output channel that does not wait:
\* the frame joins the channel and the handler returns; with the channel
\* full, the frame is dropped and the error handler is called next.  With
\* OutCap = 0 the write pump sends each frame before the read loop goes on.
Enqueue(q, f) ==
    \/ OutCap = 0 /\ outq' = q /\ h' = Idle
    \/ OutCap > 0 /\ Len(q) < OutCap /\ outq' = Append(q, f) /\ h' = Idle
    \/ OutCap > 0 /\ Len(q) = OutCap /\ outq' = q
       /\ h' = [h EXCEPT !.pc = "overflow"]

\* m.buffer.Reset(), Grow, and the frame written into it.
WriteBuffer(o, c) ==
    /\ msg' = [msg EXCEPT ![o].buf = c]
    /\ outq' \in Rewritten(o, c)

\* "message type is not data", or go on to the native fetch.
fetchCheck ==
    h.pc = "fetch_check" /\
    \/ ~canGetData(msg[h.o].type) /\ HStep("fetch_check", "idle")
    \/ canGetData(msg[h.o].type) /\ HStep("fetch_check", "fetch_native")

\* Under m.Lock: tmq_fetch_raw_block on m.cPointer.  An error (always, on a
\* nil result) or zero rows leaves the struct alone; a block is copied into
\* m.buffer.
fetchNative ==
    /\ UNCHANGED lockVars
    /\ h.pc = "fetch_native"
    /\ h' = Idle
    /\ \/ BufIdle /\ UNCHANGED outq
       \/ /\ msg[h.o].cp # 0
          /\ WriteBuffer(h.o, [kind |-> "block", id |-> h.id])
          /\ UNCHANGED <<list, pool, used, topicPartitions, nextTime,
                         messageIndex, isAutoCommit, live, now>>
    /\ UNCHANGED <<readDone, pumpUp, consumer, unsubscribed, closed, timerOn, nConsumers,
                   closedConsumers, consumerAutoCommit, pos, nResults>>

fetchBlock == \E id \in MsgIds : Lookup(id, "block_send")

\* Type check, then under m.Lock: "no fetch data", or take m.buffer's bytes
\* and, after m.Unlock, stamp them and queue them with WriteBinary.
fetchBlockSend ==
    /\ UNCHANGED lockVars
    /\ h.pc = "block_send"
    /\ \/ /\ ~canGetData(msg[h.o].type) \/ msg[h.o].buf = NoBuf
          /\ h' = Idle
          /\ UNCHANGED outq
       \/ /\ canGetData(msg[h.o].type) /\ msg[h.o].buf # NoBuf
          /\ Enqueue(outq, Frame(h.o, msg[h.o].buf))
    /\ BufIdle
    /\ UNCHANGED <<readDone, pumpUp, consumer, unsubscribed, closed, timerOn,
                   nConsumers, closedConsumers, consumerAutoCommit, pos,
                   nResults>>

fetchRawMeta == \E id \in MsgIds : Lookup(id, "raw_native")

\* Under m.Lock, with no type check: tmq_get_raw on m.cPointer, then the
\* raw frame is written into m.buffer and WriteBinary queues its bytes.
fetchRawNative ==
    /\ UNCHANGED lockVars
    /\ h.pc = "raw_native"
    /\ \/ BufIdle /\ h' = Idle /\ UNCHANGED outq
       \/ /\ msg[h.o].cp # 0
          /\ LET c == [kind |-> "raw", id |-> h.id] IN
             /\ msg' = [msg EXCEPT ![h.o].buf = c]
             /\ \E q \in Rewritten(h.o, c) :
                  Enqueue(q, Frame(h.o, c))
          /\ UNCHANGED <<list, pool, used, topicPartitions, nextTime,
                         messageIndex, isAutoCommit, live, now>>
    /\ UNCHANGED <<readDone, pumpUp, consumer, unsubscribed, closed, timerOn, nConsumers,
                   closedConsumers, consumerAutoCommit, pos, nResults>>

fetchJsonMeta == \E id \in MsgIds : Lookup(id, "meta_check")

\* "message type is not meta", or go on to the native call.
fetchJsonMetaCheck ==
    h.pc = "meta_check" /\
    \/ ~canGetMeta(msg[h.o].type) /\ HStep("meta_check", "idle")
    \/ canGetMeta(msg[h.o].type) /\ HStep("meta_check", "meta_native")

\* Under m.Lock: tmq_get_json_meta on m.cPointer, copy, free the string.
fetchJsonMetaNative ==
    /\ UNCHANGED lockVars
    /\ h.pc = "meta_native"
    /\ h' = Idle
    /\ BufIdle
    /\ UNCHANGED <<readDone, outq, pumpUp, consumer, unsubscribed, closed, timerOn, nConsumers,
                   closedConsumers, consumerAutoCommit, pos, nResults>>

(***************************************************************************)
(* commit: takes listLocker.  An unknown id is a silent success.  When     *)
(* tmq_commit_sync fails, the handler sends the error and returns without  *)
(* unlocking, so the lock stays held for good.  After it succeeds, every   *)
(* element from the front up to the one found is cleaned and removed.     *)
(***************************************************************************)
\* Mutant of commitRemove: only the element found is cleaned and removed.
commitRemoveTarget(i) ==
    /\ Apply(cleanupMessage(Cur, list[i]))
    /\ list' = RemoveAt(list, i)
    /\ UNCHANGED <<used, nextTime, messageIndex, isAutoCommit, now>>

commitRemove(i) ==
    /\ Apply(CleanupSeq(Cur, SubSeq(list, 1, i)))
    /\ list' = SubSeq(list, i + 1, Len(list))
    /\ UNCHANGED <<used, nextTime, messageIndex, isAutoCommit, now>>

commit ==
    /\ Ready /\ consumer # 0 /\ ~listHeld
    /\ \E id \in MsgIds :
       LET i == getMessage(id) IN
       /\ i # 0
       /\ \/ /\ CommitCanFail /\ listHeld' = TRUE
             /\ BufIdle
          \/ commitRemove(i) /\ UNCHANGED listHeld
    /\ UNCHANGED closeHung
    /\ UNCHANGED <<readDone, outq, pumpUp, consumer, unsubscribed, closed, timerOn, h, nConsumers,
                   closedConsumers, consumerAutoCommit, pos, nResults>>

(***************************************************************************)
(* commit_offset: no listLocker at all.  After tmq_commit_offset_sync      *)
(* succeeds, getMessageByTopicPartition reads the index entry, then walks  *)
(* the list for that id and dereferences what it finds (a nil element     *)
(* panics the goroutine serving the connection), then cleanupMessage      *)
(* cleans the struct without removing it from the list.                    *)
(***************************************************************************)
commitOffset ==
    /\ UNCHANGED lockVars
    /\ Ready /\ consumer # 0 /\ ClientCommitOffset
    /\ \E tp \in TPs :
          \/ UNCHANGED h                   \* native error, or no entry
          \/ /\ topicPartitions[tp] # 0
             /\ h' = [h EXCEPT !.pc = "co_walk", !.id = topicPartitions[tp]]
    /\ BufIdle
    /\ UNCHANGED <<readDone, outq, pumpUp, consumer, unsubscribed, closed, timerOn, nConsumers,
                   closedConsumers, consumerAutoCommit, pos, nResults>>

\* t.getMessage(idx).Value
commitOffsetWalk ==
    /\ UNCHANGED lockVars
    /\ h.pc = "co_walk"
    /\ LET i == getMessage(h.id) IN
       h' = IF i = 0 THEN [h EXCEPT !.pc = "crashed"]
            ELSE [h EXCEPT !.pc = "co_clean", !.o = list[i]]
    /\ BufIdle
    /\ UNCHANGED <<readDone, outq, pumpUp, consumer, unsubscribed, closed, timerOn, nConsumers,
                   closedConsumers, consumerAutoCommit, pos, nResults>>

\* t.cleanupMessage(message); the list still holds the struct.
commitOffsetClean ==
    /\ UNCHANGED lockVars
    /\ h.pc = "co_clean"
    /\ h' = Idle
    /\ Apply(cleanupMessage(Cur, h.o))
    /\ UNCHANGED <<list, used, nextTime, messageIndex, isAutoCommit, now>>
    /\ UNCHANGED <<readDone, outq, pumpUp, consumer, unsubscribed, closed, timerOn, nConsumers,
                   closedConsumers, consumerAutoCommit, pos, nResults>>

(***************************************************************************)
(* unsubscribe, offset seek, Close                                         *)
(***************************************************************************)
\* Mutant of unsubscribe: the id counter restarts but the buffered
\* messages are not cleaned.
unsubscribeKeepMessages ==
    /\ UNCHANGED lockVars
    /\ Ready /\ consumer # 0 /\ ~closeHung
    /\ \/ BufIdle /\ UNCHANGED unsubscribed
       \/ /\ unsubscribed' = TRUE
          /\ messageIndex' = 0
          /\ UNCHANGED <<list, msg, pool, used, topicPartitions, nextTime,
                         isAutoCommit, live, now>>
    /\ UNCHANGED <<readDone, outq, pumpUp, consumer, closed, timerOn, h, nConsumers, closedConsumers,
                   consumerAutoCommit, pos, nResults>>

\* tmq_unsubscribe, then (on success) cleanupMessages and the id counter
\* restarts.
unsubscribe ==
    /\ UNCHANGED lockVars
    /\ Ready /\ consumer # 0 /\ ~closeHung
    /\ \/ BufIdle /\ UNCHANGED unsubscribed       \* tmq_unsubscribe fails
       \/ /\ ~listHeld /\ cleanupMessages
          /\ unsubscribed' = TRUE
          /\ messageIndex' = 0
          /\ UNCHANGED <<used, isAutoCommit, now>>
    /\ UNCHANGED <<readDone, outq, pumpUp, consumer, closed, timerOn, h, nConsumers, closedConsumers,
                   consumerAutoCommit, pos, nResults>>

\* tmq_offset_seek moves the consumer's position in one partition.
offsetSeek ==
    /\ UNCHANGED lockVars
    /\ Ready /\ consumer # 0
    /\ \E p \in Partitions, off \in 0..MaxOffset - 1 :
          pos' = [pos EXCEPT ![p] = off]
    /\ BufIdle
    /\ UNCHANGED <<readDone, outq, pumpUp, consumer, unsubscribed, closed, timerOn, h, nConsumers,
                   closedConsumers, consumerAutoCommit, nResults>>

\* TMQ.Close, under t.Lock: nothing if t.closed; else set it, close closeCh
\* (the ticker goroutine ends), clean every message, then unsubscribe if
\* subscribed and close the consumer.  With listLocker held, Close stops in
\* cleanupMessages, holding t.Lock, and the consumer is never closed.
DoClose ==
    /\ closed' = TRUE
    /\ timerOn' = FALSE
    /\ \/ /\ ~listHeld
          /\ cleanupMessages
          /\ closedConsumers' = IF consumer # 0 THEN closedConsumers \cup {consumer}
                                ELSE closedConsumers
          /\ UNCHANGED <<used, messageIndex, isAutoCommit, now, closeHung>>
       \/ /\ listHeld
          /\ closeHung' = TRUE
          /\ UNCHANGED <<bufVars, closedConsumers>>
    /\ UNCHANGED <<consumer, unsubscribed, nConsumers, consumerAutoCommit,
                   pos, nResults, listHeld>>

\* Close from the read loop (HandleClose, HandleDisconnect, HandleError
\* of a failed read): no frame is read after it.
Close ==
    /\ Ready
    /\ readDone' = TRUE
    /\ \/ ~closed /\ DoClose /\ h' = IF listHeld THEN Hung ELSE h
       \/ closed /\ UNCHANGED <<bufVars, consumer, unsubscribed, closed, timerOn,
                     h, nConsumers, closedConsumers, consumerAutoCommit, pos,
                     nResults, lockVars>>
    /\ UNCHANGED <<outq, pumpUp>>

\* melody's write pump sends the frame at the head of the output channel,
\* reading the bytes of its slice at that moment.
WritePump ==
    /\ UNCHANGED lockVars
    /\ pumpUp /\ outq # <<>>
    /\ outq' = Tail(outq)
    /\ BufIdle
    /\ UNCHANGED <<readDone, pumpUp, consumer, unsubscribed, closed, timerOn, h,
                   nConsumers, closedConsumers, consumerAutoCommit, pos,
                   nResults>>

\* A write of the write pump fails: it calls HandleError, which runs
\* Close beside the read loop, and exits.  A handler may be in progress,
\* and the read loop goes on reading frames (HandleMessage checks only
\* tmqM.IsClosed()).
ErrorClose ==
    /\ WriteErrors /\ pumpUp /\ h.pc # "crashed"
    /\ pumpUp' = FALSE
    /\ \/ ~closed /\ DoClose
       \/ closed /\ UNCHANGED <<bufVars, consumer, unsubscribed, closed, timerOn,
                     nConsumers, closedConsumers, consumerAutoCommit, pos,
                     nResults, lockVars>>
    /\ UNCHANGED <<readDone, outq, h>>

\* ErrMessageBufferFull: HandleError runs Close on the read loop, which
\* stops there if Close cannot get t.Lock or listLocker.
WriteOverflow ==
    /\ h.pc = "overflow"
    /\ \/ ~closed /\ DoClose
       \/ closed /\ UNCHANGED <<bufVars, consumer, unsubscribed, closed, timerOn,
                     nConsumers, closedConsumers, consumerAutoCommit, pos,
                     nResults, lockVars>>
    /\ h' = IF (~closed /\ listHeld) \/ closeHung THEN Hung ELSE Idle
    /\ UNCHANGED <<readDone, outq, pumpUp>>

\* A request reaches a lock that is never released, and the read loop
\* blocks for good: fetch, fetch_block, fetch_raw, fetch_json_meta, commit
\* and a successful unsubscribe wait on listLocker held by a failed commit;
\* subscribe and unsubscribe wait on t.Lock held by a hung Close.
Block ==
    /\ Ready
    /\ \/ listHeld /\ consumer # 0
       \/ closeHung
    /\ h' = Hung
    /\ UNCHANGED <<bufVars, lockVars>>
    /\ UNCHANGED <<readDone, outq, pumpUp, consumer, unsubscribed, closed, timerOn,
                   nConsumers, closedConsumers, consumerAutoCommit, pos, nResults>>

(***************************************************************************)
(* The ticker goroutine and the clock                                      *)
(***************************************************************************)
\* Mutant of AutoRelease: the timer is not Reset after its first run, so
\* the goroutine blocks on the channel and never sweeps again.
AutoReleaseNoReset ==
    /\ UNCHANGED lockVars
    /\ timerOn /\ h.pc # "crashed" /\ ~listHeld
    /\ autoRelease
    /\ timerOn' = FALSE
    /\ UNCHANGED <<readDone, outq, pumpUp, consumer, unsubscribed, closed, h, nConsumers,
                   closedConsumers, consumerAutoCommit, pos, nResults>>

\* One run of the ticker goroutine: the timer fires, autoRelease runs, the
\* timer is Reset; the loop ends when Close closes closeCh.
AutoRelease ==
    /\ UNCHANGED lockVars
    /\ timerOn /\ h.pc # "crashed" /\ ~listHeld
    /\ autoRelease
    /\ UNCHANGED <<readDone, outq, pumpUp, consumer, unsubscribed, closed, timerOn, h, nConsumers,
                   closedConsumers, consumerAutoCommit, pos, nResults>>

Clock ==
    /\ UNCHANGED lockVars
    /\ h.pc # "crashed"
    /\ Tick
    /\ UNCHANGED <<readDone, outq, pumpUp, consumer, unsubscribed, closed, timerOn, h, nConsumers,
                   closedConsumers, consumerAutoCommit, pos, nResults>>

(***************************************************************************)
(* The specification                                                       *)
(***************************************************************************)
Init ==
    /\ BufInit
    /\ consumer = 0
    /\ unsubscribed = FALSE
    /\ closed = FALSE
    /\ timerOn = FALSE
    /\ h = Idle
    /\ nConsumers = 0
    /\ closedConsumers = {}
    /\ consumerAutoCommit = FALSE
    /\ pos = [p \in Partitions |-> 0]
    /\ nResults = 0
    /\ readDone = FALSE
    /\ outq = <<>>
    /\ pumpUp = TRUE
    /\ listHeld = FALSE
    /\ closeHung = FALSE

Next ==
    \/ \E ac \in AutoCommitArgs : subscribeFails(ac) \/ subscribeNew(ac)
    \/ resubscribe
    \/ poll
    \/ fetch \/ fetchCheck \/ fetchNative
    \/ fetchBlock \/ fetchBlockSend
    \/ fetchRawMeta \/ fetchRawNative
    \/ fetchJsonMeta \/ fetchJsonMetaCheck \/ fetchJsonMetaNative
    \/ commit
    \/ commitOffset \/ commitOffsetWalk \/ commitOffsetClean
    \/ unsubscribe
    \/ offsetSeek
    \/ Close \/ ErrorClose \/ WritePump \/ WriteOverflow
    \/ Block
    \/ AutoRelease
    \/ Clock

Spec == Init /\ [][Next]_vars

\* The ticker goroutine re-arms its timer after every run until closeCh is
\* closed, and the wall clock advances; the client is not assumed to act.
Fairness == WF_vars(AutoRelease) /\ WF_vars(Clock)

FairSpec == Spec /\ Fairness

(***************************************************************************)
(* Properties                                                              *)
(***************************************************************************)
InBuffer(o) == \E i \in DOMAIN list : list[i] = o

\* The buffer seen through TMQBufferAbstract: each list element as its
\* message id and native result, the unfreed results, and messageIndex.
Abs == INSTANCE TMQBufferAbstract
         WITH queue <- [i \in DOMAIN list |->
                          [id |-> msg[list[i]].index, res |-> msg[list[i]].cp]],
              held <- live,
              lastId <- messageIndex,
              Res <- 1..MaxPolls

Bufs == {NoBuf} \cup [kind : {"block", "raw"}, id : MsgIds]

MsgRec == [index : MsgIds, cp : 0..MaxPolls, type : {0} \cup Types,
           tp : TPs \cup {ZeroTP}, timeout : 0..(MaxTime + Interval),
           buf : Bufs]

TypeOK ==
    /\ list \in Seq(Obj)
    /\ msg \in [Obj -> MsgRec]
    /\ DOMAIN pool \subseteq Obj
    /\ topicPartitions \in [TPs -> MsgIds]
    /\ messageIndex \in MsgIds
    /\ live \subseteq 1..MaxPolls
    /\ consumer \in 0..MaxConsumers
    /\ h \in [pc : PCs, o : Obj \cup {NoObj}, id : MsgIds]
    /\ outq \in Seq([o : Obj, want : Bufs, got : Bufs, alias : BOOLEAN])

BufferedResults == {msg[list[i]].cp : i \in DOMAIN list}

\* Every native result the consumer handed out and the session has not
\* freed is still held by a message in the buffer, so a commit, the
\* auto-release sweep, unsubscribe or Close will free it (poll, the
\* tmqMessagePool round trip of cleanupMessage, addMessage).
NoResultLeak == live \subseteq BufferedResults

\* A successful commit of message k removes exactly the messages polled up
\* to k: what stays has an id above k, and nothing with an id above k goes
\* (commit's loop over t.messages; the spec's "after commit(k) every
\* message has id > k").
CommitRemovesPrefix ==
    [][\A id \in MsgIds :
         (Ready /\ consumer # 0 /\ getMessage(id) # 0
            /\ commitRemove(getMessage(id)))
         => /\ \A i \in DOMAIN list' : msg'[list'[i]].index > id
            /\ \A i \in DOMAIN list :
                 msg[list[i]].index > id => \E j \in DOMAIN list' : list'[j] = list[i]
      ]_vars

\* Every topicPartitions entry names a buffered message with that
\* topic/vgroup/offset, so getMessageByTopicPartition never dereferences
\* the nil element of a failed list walk (addMessage, cleanupMessage).
IndexResolves ==
    \A tp \in TPs : topicPartitions[tp] # 0 =>
        \E i \in DOMAIN list : /\ msg[list[i]].index = topicPartitions[tp]
                               /\ msg[list[i]].tp = tp

\* A sweep of the auto-release goroutine leaves no expired message behind,
\* although it stops at the first message still in time and then skips
\* whole ticks while now is before the cached t.nextTime.
SweepLeavesNoExpired ==
    [][AutoRelease => \A i \in DOMAIN list' : ~Expired(Cur', list'[i])]_vars

\* No struct keeps a native result that was already freed, so no later
\* cleanupMessage frees it twice and no fetch reads freed memory, even
\* when cleanupMessage runs twice on one struct.
NoDanglingResult == \A o \in Obj : msg[o].cp \in live \cup {0}

\* Every native call on a consumer (subscribe, poll, commit, seek,
\* unsubscribe, close) targets a consumer that exists and is not closed.
ConsumerCallsOnOpen ==
    [][(\/ resubscribe \/ poll \/ commit \/ commitOffset \/ unsubscribe
        \/ offsetSeek \/ (Close /\ consumer # 0))
       => consumer \notin closedConsumers]_vars

AutoReleaseMatchesConsumer ==
    consumer # 0 /\ ~closed => (timerOn <=> consumerAutoCommit)

\* The native call of fetch, fetch_raw and fetch_json_meta reads the
\* result of the message the handler looked up: the struct still carries
\* that message id and a live result, not the nil left by a cleanup in
\* between (lookup under RLock, unlock, then m.Lock and the call).
FetchReadsLookedUpResult ==
    [][(fetchNative \/ fetchRawNative \/ fetchJsonMetaNative)
       => msg[h.o].index = h.id /\ msg[h.o].cp \in live]_vars

\* The buffer implements a FIFO of freshly numbered messages, each owning
\* its result: poll appends id messageIndex+1 with a result nobody holds,
\* commit and the auto-release sweep drop a front part and free exactly the
\* results they drop, unsubscribe and Close empty it (addMessage, commit,
\* autoRelease, cleanupMessages through the pool).
BufferRefinement == Abs!Spec

\* While the session is open and its consumer commits by itself, every
\* message that has passed its deadline is eventually released by the
\* ticker goroutine, whatever the client does or stops doing (the
\* goroutine of subscribe, t.ticker.Reset, the cached t.nextTime).
ExpiredEventuallyReleased ==
    \A o \in Obj :
        (consumer # 0 /\ ~closed /\ consumerAutoCommit /\ InBuffer(o)
           /\ Expired(Cur, o))
        ~> ~InBuffer(o)

\* Every binary frame fetch_block or fetch_raw queued holds, until the
\* write pump sends it, the bytes the handler meant to send: no later
\* fetch or fetch_raw into the same struct's buffer (the same message, or
\* the struct reused from the pool for another) rewrites them
\* (session.WriteBinary of a slice of message.buffer).
QueuedFramesIntact ==
    pumpUp => \A i \in DOMAIN outq : outq[i].got = outq[i].want

\* commit_offset never panics the connection's goroutine on a nil list
\* element.
CommitOffsetNeverCrashes == h.pc # "crashed"
=============================================================================
