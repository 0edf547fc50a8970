--------------------------- MODULE MCMjpgStreamer ----------------------------
(* One plugin that copies pictures, one client and two pictures.           *)
EXTENDS MjpgStreamer

(* What the threads do with a destroyed mutex, of which nothing is said,   *)
(* is followed only where no picture was shown before.                     *)
Window == destroyed => published = 0

=============================================================================
