-------------------------- MODULE TMQBufferAbstract --------------------------
(***************************************************************************)
(* What the message buffer of a TMQ session promises (spec 4.2), with no  *)
(* structs, pool, index or clock: a queue of messages, each an id and the  *)
(* native result it owns.  A poll appends the next id with a new result;  *)
(* a commit or an auto-release sweep drops a front part of the queue and  *)
(* frees exactly the results it drops; unsubscribe and close drop all,    *)
(* and unsubscribe also restarts the ids.                                  *)
(***************************************************************************)
LOCAL INSTANCE Naturals
LOCAL INSTANCE Sequences

CONSTANT Res          \* the native results that can be handed out

VARIABLES
    queue,   \* the buffered messages, front first: [id, res]
    held,    \* results handed out and not yet freed
    lastId   \* the id given to the last message

Owned(s) == {s[i].res : i \in DOMAIN s}

Init == queue = <<>> /\ held = {} /\ lastId = 0

\* A poll: the next id, with a result nobody holds.
Add == \E r \in Res \ held :
         /\ queue' = Append(queue, [id |-> lastId + 1, res |-> r])
         /\ held' = held \cup {r}
         /\ lastId' = lastId + 1

\* A commit or a sweep: the first n messages go and their results are freed.
Release == \E n \in 1..Len(queue) :
             /\ queue' = SubSeq(queue, n + 1, Len(queue))
             /\ held' = held \ Owned(SubSeq(queue, 1, n))
             /\ UNCHANGED lastId

\* Close (keeps the counter) or unsubscribe (restarts it).
Clear == /\ queue' = <<>>
         /\ held' = held \ Owned(queue)
         /\ lastId' \in {lastId, 0}

Spec == Init /\ [][Add \/ Release \/ Clear]_<<queue, held, lastId>>

=============================================================================
