------------------------------ MODULE TMQBuffer ------------------------------
(***************************************************************************)
(* The message buffer of one TMQ WebSocket session (controller/ws/tmq,     *)
(* type TMQ): the list of polled messages, the TMQMessage structs that     *)
(* tmqMessagePool recycles, the (topic, vgroup, offset) -> message id      *)
(* index topicPartitions, the native poll results the session still holds  *)
(* and the auto-release sweep run by the ticker goroutine.                 *)
(*                                                                         *)
(* A message struct is an element of Obj.  The list holds structs, not     *)
(* copies: the same struct may sit in the list twice, and a struct may be  *)
(* in the list and in the pool at once, exactly as pointers can in Go.     *)
(* A native result is a number 1..MaxPolls; 0 is the nil pointer.          *)
(***************************************************************************)
EXTENDS Naturals, Sequences, SequencesExt, BagsExt

CONSTANTS
    Obj,          \* TMQMessage structs the pool can allocate (model values)
    Partitions,   \* (topic, vgroup) pairs, as numbers 1..n
    MaxOffset,    \* a partition holds offsets 0..MaxOffset-1
    Types,        \* message types the native poll returns
    Interval,     \* messageTimeoutInterval, in clock ticks
    MaxPolls,     \* bound: native results the consumer hands out
    MaxTime       \* bound: the clock stops at MaxTime

ASSUME Partitions \subseteq Nat \ {0} /\ Interval \in Nat \ {0}

\* common.TMQ_RES_DATA, TMQ_RES_TABLE_META, TMQ_RES_METADATA
DATA == 1
TABLE_META == 2
METADATA == 3

TPs == Partitions \X (0..MaxOffset - 1)
ZeroTP == <<0, 0>>               \* topic "", vgID 0, offset 0 of a new struct

VARIABLES
    list,            \* t.messages, front first
    msg,             \* msg[o]: the fields of struct o
    pool,            \* tmqMessagePool, a bag of structs
    used,            \* structs ever allocated by the pool's New
    topicPartitions, \* t.topicPartitions; 0 means no entry
    nextTime,        \* t.nextTime; 0 is zeroTime
    messageIndex,    \* t.messageIndex
    isAutoCommit,    \* t.isAutoCommit
    live,            \* native results polled and not yet freed
    now              \* the wall clock, in ticks; starts after zeroTime

bufVars == <<list, msg, pool, used, topicPartitions, nextTime, messageIndex,
             isAutoCommit, live, now>>

\* m.buffer, abstracted to what its bytes hold: nothing, or the block or
\* raw-meta frame written by fetch or fetch_raw for a message id.
NoBuf == [kind |-> "none", id |-> 0]

NewMsg == [index |-> 0, cp |-> 0, type |-> 0, tp |-> ZeroTP, timeout |-> 0,
           buf |-> NoBuf]

canGetMeta(type) == type \in {TABLE_META, METADATA}
canGetData(type) == type \in {DATA, METADATA}
messageTypeIsValid(type) == type \in {DATA, TABLE_META, METADATA}

\* getMessage: position of the first element whose struct has this index.
getMessage(index) == SelectInSeq(list, LAMBDA o : msg[o].index = index)

(***************************************************************************)
(* The buffer-owned state as a record, so that the loops of commit,        *)
(* cleanupMessages and autoRelease can be folded over the list, each       *)
(* cleanup seeing the effects of the ones before it.                       *)
(***************************************************************************)
Cur == [msg |-> msg, pool |-> pool, tps |-> topicPartitions, live |-> live]

Apply(S) ==
    /\ msg' = S.msg
    /\ pool' = S.pool
    /\ topicPartitions' = S.tps
    /\ live' = S.live

\* addTopicPartition(tp, id): t.topicPartitions[tp] = id, overwriting.
addTopicPartition(tps, tp, id) == [tps EXCEPT ![tp] = id]

\* cleanTopicPartitionByMessage: delete the entry under m's topic, vgroup
\* and offset, whichever id it holds.
cleanTopicPartitionByMessage(tps, m) ==
    [tp \in TPs |-> IF tp = m.tp THEN 0 ELSE tps[tp]]

\* Mutants of cleanupMessage: the native result is not freed; the index
\* entry is not deleted; m.cPointer is freed but not set to nil.
cleanupMessageNoFree(S, o) ==
    LET m == S.msg[o] IN
    [msg  |-> [S.msg EXCEPT ![o] = [m EXCEPT !.cp = 0, !.buf = NoBuf,
                                    !.timeout = 0, !.index = 0, !.type = 0]],
     pool |-> BagAdd(S.pool, o),
     tps  |-> cleanTopicPartitionByMessage(S.tps, m),
     live |-> S.live]

cleanupMessageKeepIndex(S, o) ==
    LET m == S.msg[o] IN
    [msg  |-> [S.msg EXCEPT ![o] = [m EXCEPT !.cp = 0, !.buf = NoBuf,
                                    !.timeout = 0, !.index = 0, !.type = 0]],
     pool |-> BagAdd(S.pool, o),
     tps  |-> S.tps,
     live |-> IF m.cp # 0 THEN S.live \ {m.cp} ELSE S.live]

cleanupMessageKeepCp(S, o) ==
    LET m == S.msg[o] IN
    [msg  |-> [S.msg EXCEPT ![o] = [m EXCEPT !.buf = NoBuf,
                                    !.timeout = 0, !.index = 0, !.type = 0]],
     pool |-> BagAdd(S.pool, o),
     tps  |-> cleanTopicPartitionByMessage(S.tps, m),
     live |-> IF m.cp # 0 THEN S.live \ {m.cp} ELSE S.live]

\* cleanupMessage(m): drop m's index entry (by its topic/vgroup/offset,
\* which are never reset), free its native result if it has one, zero the
\* other fields and put the struct back in the pool.  It does not remove m
\* from the list: each caller does that, or not.
cleanupMessage(S, o) ==
    LET m == S.msg[o] IN
    [msg   |-> [S.msg EXCEPT ![o] = [m EXCEPT !.cp = 0, !.buf = NoBuf,
                                     !.timeout = 0, !.index = 0, !.type = 0]],
     pool  |-> BagAdd(S.pool, o),
     tps   |-> cleanTopicPartitionByMessage(S.tps, m),
     live  |-> IF m.cp # 0 THEN S.live \ {m.cp} ELSE S.live]

\* Cleans the structs of a run of list elements, front to back.
CleanupSeq(S, seq) == FoldLeft(cleanupMessage, S, seq)

\* cleanupMessages: used by unsubscribe and Close.
cleanupMessages ==
    /\ Apply(CleanupSeq(Cur, list))
    /\ list' = <<>>
    /\ nextTime' = 0

\* tmqMessagePool.Get(): a pooled struct, or a new one from New.
PoolGet(o) ==
    \/ /\ BagIn(o, pool)
       /\ pool' = BagRemove(pool, o)
       /\ UNCHANGED used
    \/ /\ o \notin used
       /\ used' = used \cup {o}
       /\ UNCHANGED pool

\* Mutant of addMessage: the index is taken by a second atomic add.
addMessageTwice(o, r, type, tp) ==
    LET index == messageIndex + 2 IN
    /\ messageIndex' = index
    /\ msg' = [msg EXCEPT ![o] = [@ EXCEPT !.index = index, !.cp = r,
                  !.type = type, !.tp = tp,
                  !.timeout = IF isAutoCommit THEN now + Interval ELSE @]]
    /\ list' = Append(list, o)
    /\ topicPartitions' = addTopicPartition(topicPartitions, tp, index)

\* The part of poll that fills the struct, then addMessage: the next index,
\* append, index entry, and a release deadline when auto-commit is on.
addMessage(o, r, type, tp) ==
    LET index == messageIndex + 1 IN
    /\ messageIndex' = index
    /\ msg' = [msg EXCEPT ![o] = [@ EXCEPT !.index = index, !.cp = r,
                  !.type = type, !.tp = tp,
                  !.timeout = IF isAutoCommit THEN now + Interval ELSE @]]
    /\ list' = Append(list, o)
    /\ topicPartitions' = addTopicPartition(topicPartitions, tp, index)

\* The part of addMessage before t.listLocker.Lock(): the struct is filled
\* and numbered, but never appended.
addMessageBlocked(o, r, type, tp) ==
    LET index == messageIndex + 1 IN
    /\ messageIndex' = index
    /\ msg' = [msg EXCEPT ![o] = [@ EXCEPT !.index = index, !.cp = r,
                  !.type = type, !.tp = tp]]
    /\ UNCHANGED <<list, topicPartitions>>

Expired(S, o) == now > S.msg[o].timeout          \* now.After(m.timeout)

\* Mutant of the sweep: it breaks after the first message it releases and
\* caches the deadline of the next one, expired or not.
SweepFirstOnly(S, rest) ==
    IF rest = <<>> THEN [st |-> S, rest |-> rest, next |-> 0]
    ELSE IF Expired(S, Head(rest))
         THEN [st |-> cleanupMessage(S, Head(rest)), rest |-> Tail(rest),
               next |-> IF Tail(rest) = <<>> THEN 0
                        ELSE S.msg[Head(Tail(rest))].timeout]
         ELSE [st |-> S, rest |-> rest, next |-> S.msg[Head(rest)].timeout]

\* The loop of autoRelease: clean expired elements from the front, stop at
\* the first live one and remember its deadline, or reach the end.
RECURSIVE Sweep(_, _)
Sweep(S, rest) ==
    IF rest = <<>> THEN [st |-> S, rest |-> rest, next |-> 0]
    ELSE IF Expired(S, Head(rest))
         THEN Sweep(cleanupMessage(S, Head(rest)), Tail(rest))
         ELSE [st |-> S, rest |-> rest, next |-> S.msg[Head(rest)].timeout]

\* autoRelease, one tick of the ticker goroutine that changes something.
autoRelease ==
    /\ Len(list) > 0
    /\ now > nextTime
    /\ LET r == Sweep(Cur, list) IN
       /\ Apply(r.st)
       /\ list' = r.rest
       /\ nextTime' = r.next
    /\ UNCHANGED <<used, messageIndex, isAutoCommit, now>>

\* The clock advances (bounded).
Tick ==
    /\ now < MaxTime
    /\ now' = now + 1
    /\ UNCHANGED <<list, msg, pool, used, topicPartitions, nextTime,
                   messageIndex, isAutoCommit, live>>

\* A step that leaves the buffer alone.
BufIdle ==
    UNCHANGED <<list, msg, pool, used, topicPartitions, nextTime,
                   messageIndex, isAutoCommit, live, now>>

BufInit ==
    /\ list = <<>>
    /\ msg = [o \in Obj |-> NewMsg]
    /\ pool = EmptyBag
    /\ used = {}
    /\ topicPartitions = [tp \in TPs |-> 0]
    /\ nextTime = 0
    /\ messageIndex = 0
    /\ isAutoCommit = TRUE
    /\ live = {}
    /\ now = 1
=============================================================================
