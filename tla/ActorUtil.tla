------------------------------ MODULE ActorUtil ------------------------------
(***************************************************************************)
(* What the actors share (internal/util/actorutil): the stash, which puts  *)
(* messages aside and sends them again to the end of the mailbox, and the  *)
(* stack of behaviours of an actor with states.                            *)
(***************************************************************************)
EXTENDS Integers, Sequences

\* Some message of the queue has one of these types.
InQueue(queue, types) == \E i \in DOMAIN queue : queue[i].type \in types

(* Stash *)

Stashed(stash, m) == Append(stash, m)

UnstashedAll(mailbox, stash) == mailbox \o stash

UnstashedOldest(mailbox, stash) ==
    IF stash = <<>> THEN mailbox ELSE Append(mailbox, Head(stash))
WithoutOldest(stash) == SubSeq(stash, 2, Len(stash))

(* Behaviours, the bottom of the stack first *)

\* Become drops every behaviour of the stack, stacked ones included.
Become(stack, s) == <<s>>

BecomeStacked(stack, s) == Append(stack, s)

UnbecomeStacked(stack) == SubSeq(stack, 1, Len(stack) - 1)
=============================================================================
