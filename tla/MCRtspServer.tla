---------------------------- MODULE MCRtspServer ----------------------------
(* RtspServer for TLC. *)
EXTENDS RtspServer, TLC

(* Connections are interchangeable, and so are RTP_session structures. *)
Symmetry == Permutations(Clients) \cup Permutations(RtpIds)

=============================================================================
