---------------------------- MODULE RequestReply ----------------------------
(***************************************************************************)
(* What an actor that serves requests promises to those who ask: a request *)
(* is answered only after it was sent, and never twice.                    *)
(***************************************************************************)
CONSTANT Requests

VARIABLES
    sent,
    replies    \* how often a request was answered

Init == sent = {} /\ replies = [r \in Requests |-> 0]

Send(r) ==
    /\ r \notin sent
    /\ sent' = sent \cup {r}
    /\ UNCHANGED replies

Answer(r) ==
    /\ r \in sent /\ replies[r] = 0
    /\ replies' = [replies EXCEPT ![r] = 1]
    /\ UNCHANGED sent

Next == \E r \in Requests : Send(r) \/ Answer(r)

Spec == Init /\ [][Next]_<<sent, replies>>
=============================================================================
