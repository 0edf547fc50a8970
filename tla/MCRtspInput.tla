---------------------------- MODULE MCRtspInput -----------------------------
(* RtspInput for TLC: one kind of message for each branch of the parser,   *)
(* among them one that announces a byte less than its header has.          *)
EXTENDS RtspInput

MCLayout ==
  [short |-> <<"line", "CSeq", "cr", "lf">>,
   long  |-> <<"line", "CSeq", "other", "Session", "cr", "lf">>,
   body  |-> <<"line", "CSeq", "Content-Length", "cr", "lf", "body", "nul">>,
   wrong |-> <<"line", "CSeq", "Content-Length", "cr", "lf">>,
   bad   |-> <<"line", "other", "cr", "lf">>,
   data  |-> <<"$", "body">>]
MCKinds == DOMAIN MCLayout
MCAnnounces ==
  [short |-> 0, long |-> 0, body |-> 1, wrong |-> -1, bad |-> 0, data |-> 1]

=============================================================================
