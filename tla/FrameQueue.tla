----------------------------- MODULE FrameQueue -----------------------------
(***************************************************************************)
(* What the frame ring promises its two users: a bounded queue that takes  *)
(* newer frames only, refuses a frame by ignoring it, and gives every      *)
(* frame it took exactly once, oldest first.  Once the queue is given up   *)
(* nothing is promised.                                                    *)
(***************************************************************************)
EXTENDS Integers, Sequences

CONSTANTS Capacity, Frames

VARIABLES queue, taken, open

vars == <<queue, taken, open>>

Init == queue = <<>> /\ taken = 0 /\ open = TRUE

Newest == IF queue = <<>> THEN taken ELSE queue[Len(queue)]

Put ==
  /\ open
  /\ Len(queue) < Capacity
  /\ \E f \in Frames : f > Newest /\ queue' = Append(queue, f)
  /\ UNCHANGED <<taken, open>>

Get ==
  /\ open
  /\ queue # <<>>
  /\ taken' = Head(queue)
  /\ queue' = Tail(queue)
  /\ UNCHANGED open

(* The queue is given up, or is used after that. *)
Abandon ==
  /\ open' = FALSE
  /\ queue' \in Seq(Frames \cup {0})
  /\ taken' \in Frames \cup {0}

Next == Put \/ Get \/ Abandon

Spec == Init /\ [][Next]_vars

=============================================================================
