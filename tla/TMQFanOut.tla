------------------------------ MODULE TMQFanOut ------------------------------
(***************************************************************************)
(* One committed or position request of a TMQ session (TMQ.committed,      *)
(* TMQ.position in controller/ws/tmq/tmq.go; the two handlers are the same *)
(* code apart from the native call and the reply's name).                  *)
(*                                                                         *)
(* The handler starts one goroutine per (topic, vgroup) pair.  Each takes  *)
(* asyncLocker, makes the native call and sends its result on one of two   *)
(* buffered channels: errCh for an error, topicVgIDCh for an offset        *)
(* tagged with its input index.  A closer goroutine waits for all of them  *)
(* and closes both channels.  The handler ranges over errCh and returns on *)
(* the first error; otherwise it ranges over topicVgIDCh, sorts by index   *)
(* and replies.  After the handler returns, the session's read loop may    *)
(* take the next frame, which may be the close that closes the consumer.   *)
(***************************************************************************)
EXTENDS Naturals, Integers, Sequences, TLC

CONSTANTS
    N,               \* len(req.TopicVgroupIDs)
    Results,         \* values the native committed/position call returns
    OffsetInvalid,   \* the "no offset" value, reported as an offset
    Op,              \* "committed" or "position"
    NoRes            \* no result yet (a model value)

ASSUME N \in Nat \ {0} /\ Results \subseteq Int /\ OffsetInvalid \in Results
ASSUME Op \in {"committed", "position"}

Idx == 1..N

VARIABLES
    tpc,          \* tpc[i]: goroutine i "wait"s for the call, "send"s, is "done"
    res,          \* res[i]: what the native call of goroutine i returned
    errCh,        \* errCh, in send order
    offCh,        \* topicVgIDCh, in send order
    errClosed,    \* close(errCh) done by the closer goroutine
    offClosed,    \* close(topicVgIDCh) done by the closer goroutine
    hpc,          \* the handler: "drain" (range errCh), "collect", "replied"
    reply,        \* the response written to the session
    consumerOpen  \* t.consumer is open (Close not yet run)

vars == <<tpc, res, errCh, offCh, errClosed, offClosed, hpc, reply,
          consumerOpen>>

\* res < 0 && res != OffsetInvalid
IsError(r) == r < 0 /\ r # OffsetInvalid

\* Mutant of ErrCode: the native code is sent as it is.
ErrCodeUnmasked(c) == c

\* wsTMQErrorMsg: Code: code & 0xffff, the low 16 bits of the two's
\* complement (x % 65536 is non-negative for negative x as well).
ErrCode(c) == c % 65536

\* Mutant of ChanCap: channels of capacity one.
ChanCapOne == 1

\* make(chan ..., len(req.TopicVgroupIDs)): a send blocks when full.
ChanCap == N

\* Offsets.Less, the order sort.Sort puts the collected offsets in.
Less(a, b) == a.idx < b.idx

\* The name the success reply carries: TMQPosition in both handlers (the
\* committed handler's reply is mislabelled).
committedOkAction == "position"
positionOkAction == "position"
OkAction == IF Op = "committed" THEN committedOkAction ELSE positionOkAction

NoReply == [kind |-> "none", action |-> "none", code |-> 0, offsets |-> <<>>]

Init ==
    /\ tpc = [i \in Idx |-> "wait"]
    /\ res = [i \in Idx |-> NoRes]
    /\ errCh = <<>> /\ offCh = <<>>
    /\ errClosed = FALSE /\ offClosed = FALSE
    /\ hpc = "drain"
    /\ reply = NoReply
    /\ consumerOpen = TRUE

\* Goroutine i, under asyncLocker: the native call on t.consumer and the
\* wait for its result.
Call(i) ==
    /\ tpc[i] = "wait"
    /\ \E r \in Results : res' = [res EXCEPT ![i] = r]
    /\ tpc' = [tpc EXCEPT ![i] = "send"]
    /\ UNCHANGED <<errCh, offCh, errClosed, offClosed, hpc, reply, consumerOpen>>

\* Goroutine i, after asyncLocker.Unlock: the send of an error or of
\* (idx, offset), which blocks while the channel is full; then wait.Done.
Send(i) ==
    /\ tpc[i] = "send"
    /\ IF IsError(res[i])
       THEN Len(errCh) < ChanCap /\ errCh' = Append(errCh, res[i])
            /\ UNCHANGED offCh
       ELSE Len(offCh) < ChanCap
            /\ offCh' = Append(offCh, [idx |-> i, offset |-> res[i]])
            /\ UNCHANGED errCh
    /\ tpc' = [tpc EXCEPT ![i] = "done"]
    /\ UNCHANGED <<res, errClosed, offClosed, hpc, reply, consumerOpen>>

\* The closer goroutine: waitGroup.Wait, close(errCh), close(topicVgIDCh).
CloseChannels ==
    /\ \A i \in Idx : tpc[i] = "done"
    /\ ~errClosed
    /\ errClosed' = TRUE /\ offClosed' = TRUE
    /\ UNCHANGED <<tpc, res, errCh, offCh, hpc, reply, consumerOpen>>

\* for err := range errCh: the first error is the reply.
DrainError ==
    /\ hpc = "drain" /\ errCh # <<>>
    /\ errCh' = Tail(errCh)
    /\ reply' = [NoReply EXCEPT !.kind = "error", !.action = Op,
                                !.code = ErrCode(Head(errCh))]
    /\ hpc' = "replied"
    /\ UNCHANGED <<tpc, res, offCh, errClosed, offClosed, consumerOpen>>

\* errCh closed and empty: go on to the offsets.
DrainDone ==
    /\ hpc = "drain" /\ errCh = <<>> /\ errClosed
    /\ hpc' = "collect"
    /\ UNCHANGED <<tpc, res, errCh, offCh, errClosed, offClosed, reply,
                   consumerOpen>>

\* The offsets of the collected results, sorted by input index.
SortedOffsets(s) ==
    LET sorted == SortSeq(s, Less) IN [k \in DOMAIN sorted |-> sorted[k].offset]

\* for topicVgID := range topicVgIDCh until it is closed, sort, reply.
Collect ==
    /\ hpc = "collect" /\ offClosed
    /\ offCh' = <<>>
    /\ reply' = [NoReply EXCEPT !.kind = "ok", !.action = OkAction,
                                !.offsets = SortedOffsets(offCh)]
    /\ hpc' = "replied"
    /\ UNCHANGED <<tpc, res, errCh, errClosed, offClosed, consumerOpen>>

\* The read loop, free again after the handler returned, takes a close
\* frame: TMQ.Close unsubscribes and closes the consumer.
SessionClose ==
    /\ hpc = "replied" /\ consumerOpen
    /\ consumerOpen' = FALSE
    /\ UNCHANGED <<tpc, res, errCh, offCh, errClosed, offClosed, hpc, reply>>

Next ==
    \/ \E i \in Idx : Call(i) \/ Send(i)
    \/ CloseChannels
    \/ DrainError \/ DrainDone \/ Collect
    \/ SessionClose

Spec == Init /\ [][Next]_vars

\* Goroutines are scheduled by the Go runtime, and a native call returns
\* while the consumer is open.  After Close has destroyed the session's
\* native thread and put its handler back in the pool, a straggler's call
\* need not return, so nothing is assumed of it; nor is the client's close.
Fairness ==
    /\ \A i \in Idx : WF_vars(consumerOpen /\ Call(i)) /\ WF_vars(Send(i))
    /\ WF_vars(CloseChannels)
    /\ WF_vars(DrainError) /\ WF_vars(DrainDone) /\ WF_vars(Collect)

FairSpec == Spec /\ Fairness
-----------------------------------------------------------------------------
\* Every request gets its reply, and every goroutine whose native call has
\* returned ends: no send blocks forever on a full channel after the
\* handler has returned on the first error, closed session or not.
FanOutCompletes ==
    /\ <>(reply.kind # "none")
    /\ \A i \in Idx : tpc[i] = "send" ~> tpc[i] = "done"

\* The request seen as TMQFanOutAbstract: the native results and the reply.
Abs == INSTANCE TMQFanOutAbstract
         WITH answer <- res,
              resp <- [kind |-> reply.kind, code |-> reply.code,
                       offsets |-> reply.offsets]

\* The request keeps the promise of spec 4.13 and 6.4: one response, either
\* the low 16 bits of the code of a pair whose call failed (the first error
\* the handler drains, through wsTMQErrorMsg), or, once every call has
\* succeeded, the offsets in the caller's order.
FanOutRefinement == Abs!Spec

\* No goroutine of the request calls into the consumer after the session
\* closed it.
TasksCallOpenConsumer ==
    [][\A i \in Idx : Call(i) => consumerOpen]_vars

=============================================================================
