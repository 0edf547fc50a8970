----------------------------- MODULE MCRingFifo -----------------------------
(* RingFifo for TLC, and the queue it implements. *)
EXTENDS RingFifo

(* The ring refines the bounded frame queue up to its first overrun or     *)
(* underrun: a put takes effect when iput moves, a get when iget does      *)
(* (ringfifo.c, HisiPutH264DataToBuffer and ringget), a frame refused by a *)
(* full count changes nothing, and lost updates of n alone do not break it.*)
AbstractQueue == INSTANCE FrameQueue
  WITH Capacity <- NMAX, Frames <- FrameIds,
       queue <- Queue, taken <- taken, open <- stray = "no"
ImplementsQueue == AbstractQueue!Spec

=============================================================================
