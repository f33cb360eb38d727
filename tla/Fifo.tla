-------------------------------- MODULE Fifo --------------------------------
(***************************************************************************)
(* What mptl::fifo (include/fifo.hpp) promises its two users: a bounded    *)
(* first-in first-out queue.  A block goes in whole or not at all, an      *)
(* element comes out once, in order, and reset() empties the queue.        *)
(***************************************************************************)
EXTENDS Naturals, Sequences

CONSTANTS Data,      \* the elements
          Blocks,    \* the blocks a producer may hand over in one call
          Capacity   \* the elements the queue holds at most

VARIABLES queue,     \* the published elements, oldest first
          popped     \* the elements the last successful pop() returned: <<>> or <<d>>

vars == <<queue, popped>>

Init == queue = <<>> /\ popped = <<>>

Put(b) == /\ Len(queue) + Len(b) <= Capacity
          /\ queue' = queue \o b
          /\ UNCHANGED popped

Get == /\ queue # <<>>
       /\ popped' = <<Head(queue)>>
       /\ queue' = Tail(queue)

Clear == queue' = <<>> /\ UNCHANGED popped

Next == (\E b \in Blocks : Put(b)) \/ Get \/ Clear

Spec == Init /\ [][Next]_vars
=============================================================================
