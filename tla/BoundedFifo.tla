---------------------------- MODULE BoundedFifo ----------------------------
(***************************************************************************)
(* What block_queue promises to its callers: a first-in first-out queue of *)
(* at most Max items.  An item that is pushed goes to the tail, and pop    *)
(* hands the item at the head to one consumer.                             *)
(***************************************************************************)
EXTENDS Naturals, Sequences

CONSTANTS Items, NoItem, Consumers, Max

VARIABLES
  queue,
  popped   \* popped[c]: what the last pop of c handed out

Push(x) ==
  /\ Len(queue) < Max
  /\ queue' = Append(queue, x)
  /\ UNCHANGED popped

Pop(c) ==
  /\ queue # <<>>
  /\ popped' = [popped EXCEPT ![c] = Head(queue)]
  /\ queue' = Tail(queue)

Clear ==
  /\ queue' = <<>>
  /\ UNCHANGED popped

Init == queue = <<>> /\ popped = [c \in Consumers |-> NoItem]

Next ==
  \/ \E x \in Items : Push(x)
  \/ \E c \in Consumers : Pop(c)
  \/ Clear

Spec == Init /\ [][Next]_<<queue, popped>>
=============================================================================
