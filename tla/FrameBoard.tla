----------------------------- MODULE FrameBoard ------------------------------
(***************************************************************************)
(* What the global picture buffer of mjpg-streamer-lite promises its       *)
(* readers: while the writer is there each copy a reader makes is the      *)
(* newest complete picture, pictures are numbered as they are shown and    *)
(* none is shown twice.  Frames a reader does not come for are not kept.   *)
(* Once the board is given up nothing is promised.                         *)
(***************************************************************************)
EXTENDS Integers

CONSTANTS Readers, Garbage

VARIABLES shown, open, seen

boardVars == <<shown, open, seen>>

BoardInit == shown = 0 /\ open = TRUE /\ seen = [r \in Readers |-> 0]

Publish ==
  /\ open
  /\ shown' = shown + 1
  /\ UNCHANGED <<open, seen>>

See(r) ==
  /\ open
  /\ seen' = [seen EXCEPT ![r] = shown]
  /\ UNCHANGED <<shown, open>>

(* The board is given up, or is used after that. *)
Abandon ==
  /\ open' = FALSE
  /\ shown' \in {shown, shown + 1}
  /\ seen' \in [Readers -> 0 .. shown' \cup Garbage]

BoardNext == Publish \/ Abandon \/ \E r \in Readers : See(r)

BoardSpec == BoardInit /\ [][BoardNext]_boardVars

=============================================================================
