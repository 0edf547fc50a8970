----------------------------- MODULE RtspInput ------------------------------
(***************************************************************************)
(* The input buffer of one RTSP connection (hisi-rtsp/src/rtspservice.c):  *)
(* RtspServer reads what TCP delivers behind the in_size bytes it has, and *)
(* RTSP_handler cuts messages off the front until in_size is 0.            *)
(*                                                                         *)
(* The text is a sequence of cells: a line of a header, the "\r" and the   *)
(* "\n" of the empty line that ends it, a byte of a body, a trailing NUL,  *)
(* or the four bytes that introduce interleaved RTP data.  A cell names    *)
(* its message and its place in it.  TCP cuts the stream between any two   *)
(* cells; that it may also cut a line of a header, or the introduction, is *)
(* left out.  A body does not begin with "\r" or "\n".                     *)
(*                                                                         *)
(* RtspServer models what a request does; here a request is validated,     *)
(* answered and discarded.  The model stops where in_size has wrapped      *)
(* below 0: the code goes on reading behind the buffer.                    *)
(***************************************************************************)
EXTENDS Integers, Sequences, FiniteSets

CONSTANTS
  Kinds,            \* the kinds of messages the client sends
  Layout,           \* the parts each kind consists of
  Announces,        \* the length a Content-Length or the "$" of it announces
  MaxMsgs,          \* bound: messages of a behaviour
  RTSP_BUFFERSIZE,  \* cells in_buffer holds (4096 bytes in the code)
  SizeMod,          \* values of in_size, which is unsigned (2^32 in the code)
  OutReplies        \* replies out_buffer holds (8192 bytes in the code)

HeaderParts == {"line", "CSeq", "Session", "Content-Length", "other"}
Parts == HeaderParts \cup {"cr", "lf", "body", "nul", "$"}

(* What a message is: lines up to an empty one, a body if a Content-Length *)
(* is among them, and NULs behind these; or the introduction of            *)
(* interleaved data and its bytes.                                         *)
Request(parts, e, b) ==
  /\ parts[1] = "line" /\ parts[e] = "cr" /\ parts[e + 1] = "lf"
  /\ \A i \in 1 .. e - 1 : parts[i] \in HeaderParts
  /\ \A i \in e + 2 .. b : parts[i] = "body"
  /\ b > e + 1 => \E i \in 1 .. e - 1 : parts[i] = "Content-Length"
  /\ \A i \in b + 1 .. Len(parts) : parts[i] = "nul"
Interleaved(parts) ==
  parts[1] = "$" /\ \A i \in 2 .. Len(parts) : parts[i] = "body"
BodyLen(kind) == Cardinality({i \in 1 .. Len(Layout[kind]) :
                                Layout[kind][i] = "body"})

ASSUME InputAssumption ==
  /\ Layout \in [Kinds -> Seq(Parts) \ {<<>>}]
  /\ \A kind \in Kinds :
       \/ Interleaved(Layout[kind]) /\ Announces[kind] \in Nat
       \/ \E e \in 2 .. Len(Layout[kind]) :
            \E b \in e + 1 .. Len(Layout[kind]) : Request(Layout[kind], e, b)
  /\ Announces \in [Kinds -> Int]
  /\ MaxMsgs \in Nat
  /\ RTSP_BUFFERSIZE \in Nat \ {0}
  /\ SizeMod \in Nat /\ SizeMod > RTSP_BUFFERSIZE + 1
  /\ OutReplies \in Nat

VARIABLES
  sent,       \* the kinds of the messages the client has sent
  wire,       \* cells sent and not yet read
  in_buffer,  \* the whole buffer, what lies behind in_size included
  in_size,
  out,        \* out_buffer: the messages whose replies wait in it
  pc,         \* main thread: "select", "handler", or the client is "gone"
  fault,
  used,       \* history: the last request, and whose headers it was given
  answers,    \* history: how often each message was handled, up to twice
  replied,    \* history: the replies written to the socket
  whole       \* history: every read ended at the end of a message

vars == <<sent, wire, in_buffer, in_size, out, pc, fault, used, answers,
          replied, whole>>

Msgs == 1 .. MaxMsgs
Text(m, kind) == [i \in 1 .. Len(Layout[kind]) |-> [msg |-> m, pos |-> i]]
Zero == [msg |-> 0, pos |-> 0]
Part(c) == IF c = Zero THEN "nul" ELSE Layout[sent[c.msg]][c.pos]

(* The client has announced the lengths of what it sent. *)
AllHonest == \A m \in 1 .. Len(sent) : Announces[sent[m]] = BodyLen(sent[m])

Init ==
  /\ sent = <<>>
  /\ wire = <<>>
  /\ in_buffer = [i \in 1 .. RTSP_BUFFERSIZE |-> Zero]
  /\ in_size = 0
  /\ out = <<>>
  /\ pc = "select"
  /\ fault = "none"
  /\ used = [msg |-> 0, CSeq |-> 0, Session |-> 0]
  /\ answers = [m \in Msgs |-> 0]
  /\ replied = <<>>
  /\ whole = TRUE

-----------------------------------------------------------------------------
(* What the parsers see. *)

PartAt(i) == Part(in_buffer[i])
Least(S) == CHOOSE i \in S : \A j \in S : i <= j

(* A C string ends at the first NUL; "$" is followed by a length whose     *)
(* high byte is 0 for every short packet.  in_size does not end it.        *)
StrEnds == {i \in 1 .. RTSP_BUFFERSIZE : PartAt(i) \in {"nul", "$"}}
StrLen == Least(StrEnds \cup {RTSP_BUFFERSIZE + 1}) - 1

(* Mutant: the last such header. *)
LastHeader(part) ==
  LET found == {i \in 1 .. StrLen : PartAt(i) = part}
  IN  IF found = {} THEN 0
      ELSE in_buffer[CHOOSE i \in found : \A j \in found : i >= j].msg

(* strstr: the message of the first such header in the string, or 0. *)
Header(part) ==
  LET found == {i \in 1 .. StrLen : PartAt(i) = part}
  IN  IF found = {} THEN 0 ELSE in_buffer[Least(found)].msg

(* RTSP_validate_method: a request line, which sscanf finds behind "\r"    *)
(* and "\n", the beginning of a header behind it, and "CSeq" anywhere.     *)
ValidMethod ==
  /\ \E f \in 1 .. StrLen :
       /\ PartAt(f) = "line" /\ \A i \in 1 .. f - 1 : PartAt(i) \in {"cr", "lf"}
       /\ \E i \in f + 1 .. StrLen : PartAt(i) \notin {"cr", "lf"}
  /\ Header("CSeq") # 0

(* The message it finds there. *)
Addressed ==
  LET text == {i \in 1 .. in_size : PartAt(i) \notin {"cr", "lf"}}
  IN  in_buffer[IF text = {} THEN 1 ELSE Least(text)].msg

(* RTSP_full_msg_rcvd: the length of the first message, or 0 where the     *)
(* code returns RTSP_not_full or ERR_GENERIC.  A line is never empty       *)
(* (strcspn > 0), and no NUL is in it.  Three terminators end the header: *)
(* its last "\n" counts if it is there, and is not missed if it is not.    *)
Stops == {i \in 1 .. in_size : PartAt(i) \in {"cr", "nul", "$"}}
NoHeader ==
  \/ PartAt(1) \in {"cr", "lf", "nul"}
  \/ Stops = {}
  \/ PartAt(Least(Stops)) # "cr"
HeaderLen ==
  LET h == Least(Stops)
  IN  IF h < in_size /\ PartAt(h + 1) = "lf" THEN h + 1 ELSE h

(* The first Content-Length counts, whatever sscanf finds behind it.       *)
AnnouncedAt(i) == Announces[sent[in_buffer[i].msg]]
Announced(h) ==
  LET lengths == {i \in 2 .. h : PartAt(i) = "Content-Length"}
  IN  IF lengths = {} THEN 0 ELSE AnnouncedAt(Least(lengths))
Total == LET h == HeaderLen IN h + Announced(h)
TrailingNuls(len) ==
  Cardinality({i \in len + 1 .. in_size :
                 \A j \in len + 1 .. i : PartAt(j) = "nul"})

(* Mutant: the body is not counted. *)
FullMsgNoBody ==
  IF PartAt(1) = "$"
    THEN IF AnnouncedAt(1) <= in_size THEN 1 + AnnouncedAt(1) ELSE 0
  ELSE IF NoHeader THEN 0
  ELSE LET total == Total
       IN  IF total \in 0 .. in_size THEN HeaderLen ELSE 0

(* Mutant: trailing NULs are left for the next message. *)
FullMsgNuls ==
  IF PartAt(1) = "$"
    THEN IF AnnouncedAt(1) <= in_size THEN 1 + AnnouncedAt(1) ELSE 0
  ELSE IF NoHeader THEN 0
  ELSE LET total == Total
       IN  IF total \in 0 .. in_size THEN total ELSE 0

(* Mutant: an interleaved packet is complete only with one byte more. *)
FullMsgMore ==
  IF PartAt(1) = "$"
    THEN IF AnnouncedAt(1) + 1 < in_size THEN 1 + AnnouncedAt(1) ELSE 0
  ELSE IF NoHeader THEN 0
  ELSE LET total == Total
       IN  IF total \in 0 .. in_size THEN total + TrailingNuls(total) ELSE 0

RTSP_full_msg_rcvd ==
  IF PartAt(1) = "$"
    THEN IF AnnouncedAt(1) <= in_size THEN 1 + AnnouncedAt(1) ELSE 0
  ELSE IF NoHeader THEN 0
  ELSE LET total == Total
       IN  IF total \in 0 .. in_size THEN total + TrailingNuls(total) ELSE 0

-----------------------------------------------------------------------------
(* The client and TCP. *)

Send(kind) ==
  /\ pc # "gone" /\ fault = "none" /\ Len(sent) < MaxMsgs
  /\ sent' = Append(sent, kind)
  /\ wire' = wire \o Text(Len(sent) + 1, kind)
  /\ UNCHANGED <<in_buffer, in_size, out, pc, fault, used, answers, replied,
                 whole>>

(* recv returns 0, or select or recv fails: ScheduleConnections frees the  *)
(* RTSP_buffer and what waits in it, a 500 included.                       *)
Close ==
  /\ pc = "select" /\ fault = "none"
  /\ pc' = "gone"
  /\ UNCHANGED <<sent, wire, in_buffer, in_size, out, fault, used, answers,
                 replied, whole>>

-----------------------------------------------------------------------------
(* The main thread. *)

AtEnd(n) == n = Len(wire) \/ wire[n + 1].msg # wire[n].msg

(* tcp_read and memcpy.  The check in_size + n > RTSP_BUFFERSIZE never      *)
(* fires: in_size is 0 whenever RTSP_handler has returned, and tcp_read    *)
(* asks for RTSP_BUFFERSIZE bytes.                                         *)
Read(n) ==
  /\ pc = "select" /\ fault = "none"
  /\ n <= RTSP_BUFFERSIZE /\ in_size + n <= RTSP_BUFFERSIZE
  /\ in_buffer' = [i \in 1 .. RTSP_BUFFERSIZE |->
                     IF i \in in_size + 1 .. in_size + n
                       THEN wire[i - in_size] ELSE in_buffer[i]]
  /\ in_size' = in_size + n
  /\ wire' = SubSeq(wire, n + 1, Len(wire))
  /\ pc' = "handler"
  /\ whole' = (whole /\ AtEnd(n))
  /\ UNCHANGED <<sent, out, fault, used, answers, replied>>

(* Mutant: bwrite does not look at the room left. *)
QueuedUnchecked(m) == Append(out, m)

(* bwrite drops a reply out_buffer has no room for. *)
Queued(m) == IF Len(out) < OutReplies THEN Append(out, m) ELSE out

(* 400, or the state machine, which leaves some requests unanswered        *)
(* (OPTIONS and SETUP while playing, anything after TEARDOWN).             *)
Answer(m) ==
  /\ IF ValidMethod
       THEN /\ out' \in {out, Queued(m)}
            /\ used' = [msg |-> m, CSeq |-> Header("CSeq"),
                        Session |-> Header("Session")]
       ELSE out' = Queued(m) /\ UNCHANGED used
  /\ answers' = [answers EXCEPT ![m] = IF @ = 2 THEN 2 ELSE @ + 1]

(* RTSP_remove_msg: in_size, which is unsigned, may wrap.  The text moves  *)
(* down unless nothing is left, and then the old text stays.               *)
RTSP_remove_msg(len) ==
  /\ in_size' = IF len > in_size THEN in_size - len + SizeMod ELSE in_size - len
  /\ fault' = IF len > in_size THEN "in_size wraps" ELSE fault
  /\ in_buffer' = IF in_size' = 0 \/ len = 0 THEN in_buffer
                  ELSE [i \in 1 .. RTSP_BUFFERSIZE |->
                          IF i + len <= RTSP_BUFFERSIZE
                            THEN in_buffer[i + len] ELSE Zero]

(* Mutant: a request that is refused is not discarded. *)
HandleKeepingBad ==
  /\ pc = "handler" /\ fault = "none" /\ in_size > 0
  /\ Answer(Addressed)
  /\ IF ValidMethod THEN RTSP_remove_msg(RTSP_full_msg_rcvd)
     ELSE UNCHANGED <<in_buffer, in_size, fault>>
  /\ UNCHANGED <<sent, wire, pc, replied, whole>>

(* One turn of RTSP_handler's loop. *)
Handle ==
  /\ pc = "handler" /\ fault = "none" /\ in_size > 0
  /\ Answer(Addressed)
  /\ \E len \in {RTSP_full_msg_rcvd} : RTSP_remove_msg(len)
  /\ UNCHANGED <<sent, wire, pc, replied, whole>>

(* Mutant: out_size is not reset after the write. *)
ReturnUnsent ==
  /\ pc = "handler" /\ in_size = 0
  /\ replied' = replied \o out
  /\ pc' = "select"
  /\ UNCHANGED <<sent, wire, in_buffer, in_size, out, fault, used, answers,
                 whole>>

(* The loop ends; tcp_write sends the replies. *)
Return ==
  /\ pc = "handler" /\ in_size = 0
  /\ replied' = replied \o out
  /\ out' = <<>>
  /\ pc' = "select"
  /\ UNCHANGED <<sent, wire, in_buffer, in_size, fault, used, answers, whole>>

(* tcp_write fails: send_reply queues a 500 that nobody will send, and     *)
(* ScheduleConnections closes the connection.  (Without MSG_NOSIGNAL a     *)
(* send to a client that has left may end the process as well.)            *)
ReturnFails ==
  /\ pc = "handler" /\ in_size = 0 /\ out # <<>>
  /\ pc' = "gone"
  /\ UNCHANGED <<sent, wire, in_buffer, in_size, out, fault, used, answers,
                 replied, whole>>

Main == Handle \/ Return \/ ReturnFails
Recv == \E n \in 1 .. Len(wire) : Read(n)

Next == (\E kind \in Kinds : Send(kind)) \/ Close \/ Recv \/ Main

Spec == Init /\ [][Next]_vars

(* The main loop polls every client, and nothing in the handler waits. *)
FairSpec == Spec /\ WF_vars(Main) /\ WF_vars(Recv)

-----------------------------------------------------------------------------
(* Properties. *)

(* The cells of the messages sent so far.                                  *)
Cells == UNION {{[msg |-> m, pos |-> i] : i \in 1 .. Len(Layout[sent[m]])} :
                  m \in 1 .. Len(sent)}

(* The types of the variables; in_size stays within the buffer as long as  *)
(* RTSP_remove_msg takes away no more than there is.                       *)
TypeOK ==
  /\ sent \in Seq(Kinds) /\ Len(sent) <= MaxMsgs
  /\ wire \in Seq(Cells)
  /\ in_buffer \in [1 .. RTSP_BUFFERSIZE -> Cells \cup {Zero}]
  /\ in_size \in 0 .. SizeMod - 1
  /\ fault = "none" => in_size <= RTSP_BUFFERSIZE
  /\ out \in Seq(Msgs) /\ Len(out) <= OutReplies
  /\ pc \in {"select", "handler", "gone"}
  /\ fault \in {"none", "in_size wraps"}
  /\ used \in [msg : 0 .. MaxMsgs, CSeq : 0 .. MaxMsgs, Session : 0 .. MaxMsgs]
  /\ answers \in [Msgs -> 0 .. 2]
  /\ replied \in Seq(Msgs)
  /\ whole \in BOOLEAN

(* What is in the buffer and on its way is a gapless end of what the       *)
(* client sent.  If the client announces the lengths of its bodies, it     *)
(* begins with a message, or with the "\n" or a NUL that was cut off from  *)
(* one: up to these, what RTSP_full_msg_rcvd measures and RTSP_remove_msg  *)
(* removes is the message, no more and no less.                            *)
Unread == SubSeq(in_buffer, 1, in_size) \o wire
Follows(c, d) ==
  \/ d.msg = c.msg /\ d.pos = c.pos + 1
  \/ d.msg = c.msg + 1 /\ d.pos = 1 /\ c.pos = Len(Layout[sent[c.msg]])
Framed ==
  (fault = "none" /\ pc # "gone" /\ Unread # <<>>) =>
    LET u == Unread
        last == u[Len(u)] IN
    /\ AllHonest => u[1].pos = 1 \/ Part(u[1]) \in {"lf", "nul"}
    /\ \A i \in 1 .. Len(u) - 1 : Follows(u[i], u[i + 1])
    /\ last.msg = Len(sent) /\ last.pos = Len(Layout[sent[last.msg]])

(* When every read ends with a message and the client announces the        *)
(* lengths of its bodies, every message is handled exactly once and in     *)
(* order, however many arrive together, and in_size does not wrap.         *)
Head1 == IF Unread = <<>> THEN Len(sent) + 1 ELSE Unread[1].msg
OnceInOrder ==
  (whole /\ AllHonest /\ pc # "gone") =>
    /\ fault = "none"
    /\ LET head == Head1 IN
       \A m \in Msgs : answers[m] = IF m < head THEN 1 ELSE 0

(* A request that arrived whole, behind others of the right length, and    *)
(* carries a CSeq or a Session header is handled with its own, although    *)
(* strstr searches all of in_buffer.  (A request without one is given that *)
(* of another request.)                                                    *)
OwnHeaders ==
  (whole /\ AllHonest /\ used.msg # 0) =>
    \A part \in {"CSeq", "Session"} :
      (\E i \in 1 .. Len(Layout[sent[used.msg]]) :
         Layout[sent[used.msg]][i] = part)
      => used[part] = used.msg

(* Then the replies leave in the order of the requests, and no request is  *)
(* replied to twice.                                                       *)
RepliesInOrder ==
  whole /\ AllHonest => LET r == replied \o out IN
                        \A i, j \in 1 .. Len(r) : i < j => r[i] < r[j]

(* If the client announces its lengths, a turn of the loop that removes    *)
(* nothing, and there will be another, is one that finds a message which   *)
(* is not all there, or the "\n" or a NUL that came apart from one.        *)
RemovedIfWhole ==
  [][Handle /\ AllHonest /\ in_size' = in_size =>
       \/ Part(in_buffer[1]) \in {"lf", "nul"}
       \/ \E i \in 1 .. Len(wire) : wire[i].msg = in_buffer[1].msg]_vars

(* While every read ends with a message of the length it announces, what   *)
(* the client sends is handled sooner or later, unless it is given up.     *)
Pending == in_size + Len(wire) > 0
AllHandled == Pending ~> (~Pending \/ ~whole \/ ~AllHonest \/ pc = "gone")

(* RTSP_handler returns to select. *)
HandlerReturns == (pc = "handler") ~> (pc # "handler" \/ fault # "none")

=============================================================================
