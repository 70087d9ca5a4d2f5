-------------------------- MODULE TMQFanOutAbstract --------------------------
(***************************************************************************)
(* What a committed or position request promises (spec 4.13 and 6.4),     *)
(* with no goroutines, channels or sort: each (topic, vgroup) pair gets    *)
(* one answer from the consumer library, and the request is answered once: *)
(* with the error of a pair whose call failed, its code cut to the low 16  *)
(* bits, or, when every call succeeded, with every pair's offset in the   *)
(* caller's order.                                                         *)
(***************************************************************************)
LOCAL INSTANCE Integers

CONSTANTS N, Results, OffsetInvalid, NoRes

VARIABLES
    answer,   \* answer[i]: what the library answered for pair i, or NoRes
    resp      \* the response: kind "none", "error" or "ok", code, offsets

Pairs == 1..N

\* A negative answer is an error, except the "no offset" value.
Failure(r) == r # NoRes /\ r < 0 /\ r # OffsetInvalid

\* The code an error response carries: native_code & 0xFFFF.
LowBits(c) == c % 65536

NoResp == [kind |-> "none", code |-> 0, offsets |-> <<>>]

Init == answer = [i \in Pairs |-> NoRes] /\ resp = NoResp

\* The library answers for pair i.
Answer(i) ==
    /\ answer[i] = NoRes
    /\ \E r \in Results : answer' = [answer EXCEPT ![i] = r]
    /\ UNCHANGED resp

\* Some pair has failed: the request is answered with that error.
RespondError ==
    /\ resp = NoResp
    /\ \E i \in Pairs :
          /\ Failure(answer[i])
          /\ resp' = [NoResp EXCEPT !.kind = "error",
                                    !.code = LowBits(answer[i])]
    /\ UNCHANGED answer

\* Every pair has succeeded: the offsets in the caller's order.
RespondOk ==
    /\ resp = NoResp
    /\ \A i \in Pairs : answer[i] # NoRes /\ ~Failure(answer[i])
    /\ resp' = [NoResp EXCEPT !.kind = "ok", !.offsets = answer]
    /\ UNCHANGED answer

Next == (\E i \in Pairs : Answer(i)) \/ RespondError \/ RespondOk

\* What may happen; that the request is answered is stated of the
\* implementation, whose pairs need not all be answered once the session
\* has closed the consumer.
Spec == Init /\ [][Next]_<<answer, resp>>

=============================================================================
