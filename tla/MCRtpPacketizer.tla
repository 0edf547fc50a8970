-------------------------- MODULE MCRtpPacketizer --------------------------
(* RtpPacketizer for TLC. *)
EXTENDS RtpPacketizer

(* With two payload bytes to a packet: one packet that is not full, one    *)
(* that is, two, two full ones, and three.                                 *)
MCSizes == 2 .. 6

=============================================================================
