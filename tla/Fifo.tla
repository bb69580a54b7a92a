-------------------------------- MODULE Fifo --------------------------------
(***************************************************************************)
(* What a queue of queue.c promises its users: items come out in the order *)
(* in which they went in, those sent to the front first, and there are     *)
(* never more than it has room for.                                        *)
(***************************************************************************)
EXTENDS Naturals, Sequences

CONSTANT Items
VARIABLES capacity, contents, delivered  \* what the last receive or peek got

vars == <<capacity, contents, delivered>>

Init ==
  /\ capacity \in Nat \ {0}
  /\ contents \in Seq(Items) /\ Len(contents) <= capacity

HasRoom == Len(contents) < capacity

SendToBack(item) ==
  HasRoom /\ contents' = Append(contents, item) /\ UNCHANGED <<capacity, delivered>>

SendToFront(item) ==
  HasRoom /\ contents' = <<item>> \o contents /\ UNCHANGED <<capacity, delivered>>

\* For queues of one item only: it replaces the item there is.
Overwrite(item) ==
  capacity = 1 /\ contents' = <<item>> /\ UNCHANGED <<capacity, delivered>>

Peek ==
  contents # << >> /\ delivered' = Head(contents) /\ UNCHANGED <<capacity, contents>>

Receive ==
  /\ contents # << >>
  /\ delivered' = Head(contents) /\ contents' = Tail(contents)
  /\ UNCHANGED capacity

Reset == contents' = << >> /\ UNCHANGED <<capacity, delivered>>

Next ==
  \/ \E item \in Items : SendToBack(item) \/ SendToFront(item) \/ Overwrite(item)
  \/ Peek \/ Receive \/ Reset

Spec == Init /\ [][Next]_vars
=============================================================================
