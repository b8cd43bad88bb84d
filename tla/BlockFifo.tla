------------------------------ MODULE BlockFifo ------------------------------
(***************************************************************************)
(* What a shared-memory queue of AsyncServ promises the two processes that *)
(* share it: a first-in first-out channel of blocks.  The writer offers    *)
(* one block at a time, which is accepted whole or refused; the reader is  *)
(* lent the oldest accepted block and may look at it until it gives it     *)
(* back.  ShmQueue, the byte ring of shmq.c, implements this module.       *)
(***************************************************************************)
EXTENDS Sequences

CONSTANTS Msg,      \* the blocks that may be offered
          NoMsg     \* stands for "no block"

VARIABLES offered,  \* the block shmq_push is working on, NoMsg between calls
          queue,    \* the blocks accepted and not yet lent, oldest first
          lent      \* the block the reader looks at, NoMsg when it has none

vars == <<offered, queue, lent>>

Init == offered = NoMsg /\ queue = <<>> /\ lent = NoMsg

Offer == /\ offered = NoMsg
         /\ offered' \in Msg
         /\ UNCHANGED <<queue, lent>>

Accept == /\ offered # NoMsg
          /\ queue' = Append(queue, offered)
          /\ offered' = NoMsg
          /\ UNCHANGED lent

Refuse == /\ offered # NoMsg
          /\ offered' = NoMsg
          /\ UNCHANGED <<queue, lent>>

Lend == /\ lent = NoMsg
        /\ queue # <<>>
        /\ lent' = Head(queue)
        /\ queue' = Tail(queue)
        /\ UNCHANGED offered

GiveBack == /\ lent # NoMsg
            /\ lent' = NoMsg
            /\ UNCHANGED <<offered, queue>>

Next == Offer \/ Accept \/ Refuse \/ Lend \/ GiveBack

Spec == Init /\ [][Next]_vars
==============================================================================
