------------------------------ MODULE LossyFifo ------------------------------
(***************************************************************************)
(* What a BoundedQueue promises to its users, without locks, waiters or    *)
(* notifications: a first-in first-out channel with a bounded backlog that *)
(* may be shut.  When the channel is lossy and full, sending gives up the  *)
(* oldest unread item.  `ended' says that some reader was told that no     *)
(* item will ever come again.                                              *)
(***************************************************************************)
EXTENDS Naturals, Sequences

CONSTANT Items

VARIABLES bound,     \* the largest backlog, fixed
          lossy,     \* whether a full channel evicts its oldest item, fixed
          sent,      \* every item accepted, in order
          next,      \* index in sent of the next item to be read
          received,  \* every item read, in order
          shut,      \* no item is accepted any more
          ended      \* a reader was told that the channel is exhausted

fifoVars == <<bound, lossy, sent, next, received, shut, ended>>

Backlog == Len(sent) + 1 - next

Init == /\ bound \in Nat \ {0}
        /\ lossy \in BOOLEAN
        /\ sent = <<>>
        /\ next = 1
        /\ received = <<>>
        /\ shut = FALSE
        /\ ended = FALSE

\* An open channel accepts an item when there is room, or when it is lossy:
\* the oldest unread item then makes room.
Send(x) == /\ ~shut
           /\ \/ Backlog < bound /\ next' = next
              \/ Backlog = bound /\ lossy /\ next' = next + 1
           /\ sent' = Append(sent, x)
           /\ UNCHANGED <<bound, lossy, received, shut, ended>>

Receive == /\ next <= Len(sent)
           /\ received' = Append(received, sent[next])
           /\ next' = next + 1
           /\ UNCHANGED <<bound, lossy, sent, shut, ended>>

Shut == /\ ~shut
        /\ shut' = TRUE
        /\ UNCHANGED <<bound, lossy, sent, next, received, ended>>

\* Exhaustion is reported only by a shut channel that was drained.
End == /\ shut
       /\ next > Len(sent)
       /\ ended' = TRUE
       /\ UNCHANGED <<bound, lossy, sent, next, received, shut>>

Next == (\E x \in Items : Send(x)) \/ Receive \/ Shut \/ End

Spec == Init /\ [][Next]_fifoVars
==============================================================================
