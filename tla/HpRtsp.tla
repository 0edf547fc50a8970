------------------------------- MODULE HpRtsp -------------------------------
(***************************************************************************)
(* The RTSP server of hp-ipc (hisi-mpp/sample/hp-ipc/src/rtsp_server.c): a *)
(* listener, a detached thread per connection and one RTSP_CLIENT slot     *)
(* (MAX_RTSP_CLIENT is 1) that all of them use without a lock.  A new      *)
(* connection takes the slot over, whatever the thread of the last one is  *)
(* doing with it.                                                          *)
(*                                                                         *)
(* File descriptors are the kernel's: the lowest free number is handed     *)
(* out, a number that was closed is handed out again, and a thread blocked *)
(* in recv keeps the file it was called with.  Connections count up in the *)
(* order they are accepted.  A client may send any request at any time,    *)
(* and close its connection at any time: recv fails, or a request is read  *)
(* that it sent before, and the answer may fail.                           *)
(***************************************************************************)
EXTENDS Integers, FiniteSets

CONSTANTS
  MaxConns,  \* bound: connections of a behaviour
  MaxFd      \* the highest descriptor the server may open

(* 0 is the standard input, so that the server needs one descriptor more.   *)
ASSUME RtspAssumption == MaxConns \in Nat /\ MaxFd \in Nat \ {0}

VARIABLES
  fdt,       \* the descriptor table: a file for each descriptor
  slot,      \* g_rtspClients[0]
  udpfd,     \* the socket VENC_Sent sends on
  thread,    \* the thread of each connection
  accepted,  \* connections accepted so far
  listener,  \* RtspServerListen
  disorder   \* history: what an orderly sequence of clients does not do

rtspVars == <<fdt, slot, udpfd, thread, accepted, listener, disorder>>

Conns == 1 .. MaxConns
Fds == 0 .. MaxFd
(* Files that are no connection; numbers, so that files compare. *)
NoFile == 0
Stdin == -1
Udp == -2
Files == Conns \cup {NoFile, Stdin, Udp}

(* port and IP are those a client gave: named by its connection. *)
EmptySlot == [socket |-> 0, status |-> "IDLE", port |-> 0, owner |-> 0]

RtspInit ==
  /\ fdt = [f \in Fds |-> IF f = 0 THEN Stdin ELSE NoFile]
  /\ slot = EmptySlot
  /\ udpfd = 0
  /\ thread = [c \in Conns |-> [pc |-> "none", file |-> NoFile]]
  /\ accepted = 0
  /\ listener = [pc |-> "accept", fd |-> 0]
  /\ disorder = {}

FreeFds == {f \in Fds : fdt[f] = NoFile}
LowestFree == CHOOSE f \in FreeFds : \A g \in FreeFds : f <= g
FileOf(fd) == IF fd \in Fds THEN fdt[fd] ELSE NoFile
Closed(fd) == IF fd \in Fds THEN [fdt EXCEPT ![fd] = NoFile] ELSE fdt
Alive(c) == thread[c].pc \notin {"none", "done"}
Disorder(cond, what) == IF cond THEN disorder \cup {what} ELSE disorder
Goto(c, pc) == thread' = [thread EXCEPT ![c].pc = pc]

-----------------------------------------------------------------------------
(* RtspServerListen. *)

(* accept returns; or fails for want of a descriptor, which ends the loop. *)
Accept ==
  /\ listener.pc = "accept" /\ accepted < MaxConns
  /\ IF FreeFds = {}
       THEN /\ listener' = [listener EXCEPT !.pc = "exited"]
            /\ UNCHANGED <<fdt, accepted>>
       ELSE /\ accepted' = accepted + 1
            /\ fdt' = [fdt EXCEPT ![LowestFree] = accepted + 1]
            /\ listener' = [pc |-> "reset", fd |-> LowestFree]
  /\ disorder' = Disorder(\E c \in Conns : Alive(c), "takeover")
  /\ UNCHANGED <<slot, udpfd, thread>>

(* Mutant: only an IDLE slot is taken, another connection is left alone.    *)
ResetIdleOnly ==
  /\ listener.pc = "reset"
  /\ IF slot.status = "IDLE"
       THEN slot' = EmptySlot /\ listener' = [listener EXCEPT !.pc = "fill"]
       ELSE listener' = [pc |-> "accept", fd |-> 0] /\ UNCHANGED slot
  /\ UNCHANGED <<fdt, udpfd, thread, accepted, disorder>>

(* Mutant: the fields of the last client stay. *)
ResetNoMemset ==
  /\ listener.pc = "reset"
  /\ listener' = [listener EXCEPT !.pc = "fill"]
  /\ UNCHANGED <<fdt, slot, udpfd, thread, accepted, disorder>>

(* memset: of an IDLE slot, or of slot 0 when none is. *)
Reset ==
  /\ listener.pc = "reset"
  /\ slot' = EmptySlot
  /\ listener' = [listener EXCEPT !.pc = "fill"]
  /\ UNCHANGED <<fdt, udpfd, thread, accepted, disorder>>

(* Mutant: the slot keeps the socket it had. *)
FillNoSocket ==
  /\ listener.pc = "fill"
  /\ slot' = [slot EXCEPT !.status = "CONNECTED", !.owner = accepted]
  /\ thread' = [thread EXCEPT ![accepted].pc = "loop"]
  /\ listener' = [pc |-> "accept", fd |-> 0]
  /\ UNCHANGED <<fdt, udpfd, accepted, disorder>>

(* The fields are set and the thread is created, or is not: what           *)
(* pthread_create returns is dropped, and the connection has nobody.       *)
Fill ==
  /\ listener.pc = "fill"
  /\ slot' = [slot EXCEPT !.socket = listener.fd, !.status = "CONNECTED",
                          !.owner = accepted]
  /\ \/ Goto(accepted, "loop") /\ UNCHANGED disorder
     \/ UNCHANGED thread /\ disorder' = disorder \cup {"no thread"}
  /\ listener' = [pc |-> "accept", fd |-> 0]
  /\ UNCHANGED <<fdt, udpfd, accepted>>

-----------------------------------------------------------------------------
(* RtspClientMsg. *)

(* The loop's condition, and recv on the socket the slot has now. *)
Loop(c) ==
  /\ thread[c].pc = "loop"
  /\ thread' = [thread EXCEPT ![c] =
                  IF slot.status = "IDLE" THEN [pc |-> "done", file |-> NoFile]
                  ELSE [pc |-> "recv", file |-> FileOf(slot.socket)]]
  /\ UNCHANGED <<fdt, slot, udpfd, accepted, listener, disorder>>

(* recv returns a request of client p. *)
RecvFrom(c, p) == thread[c] = [pc |-> "recv", file |-> p]
Received(c) == \E p \in Conns : RecvFrom(c, p)

(* An answer is sent to the socket the slot has now, unless that is 0. *)
SendWorks ==
  IF slot.socket # 0 /\ FileOf(slot.socket) \in Conns \cup {Udp}
    THEN BOOLEAN ELSE {FALSE}

(* OPTIONS, DESCRIBE, PAUSE and unknown requests only answer. *)
Query(c) ==
  /\ Received(c)
  /\ Goto(c, "loop")
  /\ UNCHANGED <<fdt, slot, udpfd, accepted, listener, disorder>>

(* The ports are those of the request, or whatever is on the stack when    *)
(* SetupAnswer returned before it wrote them; VENC_Sent never looks at     *)
(* those of trackID 1.                                                     *)
Setup(c) ==
  /\ \E p \in Conns :
       /\ RecvFrom(c, p)
       /\ \E q \in {slot.port} \cup IF slot.socket = 0 THEN 0 .. MaxConns ELSE {p} :
            slot' = [slot EXCEPT !.port = q]
  /\ Goto(c, "loop")
  /\ UNCHANGED <<fdt, udpfd, accepted, listener, disorder>>

(* PlayAnswer: a new socket when the answer could be sent, whatever the    *)
(* client had before.                                                      *)
PlayAnswer(c) ==
  /\ Received(c)
  /\ \E ok \in SendWorks :
       IF ~ok THEN UNCHANGED <<fdt, udpfd>>
       ELSE IF FreeFds = {} THEN udpfd' = -1 /\ UNCHANGED fdt
       ELSE udpfd' = LowestFree /\ fdt' = [fdt EXCEPT ![LowestFree] = Udp]
  /\ disorder' = Disorder(slot.status = "SENDING", "leak")
  /\ Goto(c, "play")
  /\ UNCHANGED <<slot, accepted, listener>>

(* status is set whether or not PlayAnswer succeeded. *)
Play(c) ==
  /\ thread[c].pc = "play"
  /\ slot' = [slot EXCEPT !.status = "SENDING"]
  /\ Goto(c, "loop")
  /\ UNCHANGED <<fdt, udpfd, accepted, listener, disorder>>

(* Mutant: TEARDOWN leaves the RTP socket open. *)
TeardownKeepsUdp(c) ==
  /\ Received(c)
  /\ disorder' = Disorder(FileOf(udpfd) # Udp, "early teardown")
  /\ Goto(c, "down")
  /\ UNCHANGED <<fdt, slot, udpfd, accepted, listener>>

(* TeardownAnswer closes the RTP socket when the answer could be sent,     *)
(* whether there is one or not.                                            *)
TeardownAnswer(c) ==
  /\ Received(c)
  /\ \E ok \in SendWorks :
       /\ fdt' = IF ok THEN Closed(udpfd) ELSE fdt
       /\ disorder' = IF FileOf(udpfd) # Udp THEN disorder \cup {"early teardown"}
                      ELSE Disorder(~ok, "leak")
  /\ Goto(c, "down")
  /\ UNCHANGED <<slot, udpfd, accepted, listener>>

Teardown(c) ==
  /\ thread[c].pc = "down"
  /\ slot' = [slot EXCEPT !.status = "IDLE"]
  /\ Goto(c, "close")
  /\ UNCHANGED <<fdt, udpfd, accepted, listener, disorder>>

(* recv returns 0, or an error: at once from what is no socket. *)
RecvFails(c) ==
  /\ thread[c].pc = "recv"
  /\ slot' = [slot EXCEPT !.status = "IDLE"]
  /\ disorder' = Disorder(slot.status = "SENDING", "leak")
  /\ Goto(c, "break")
  /\ UNCHANGED <<fdt, udpfd, accepted, listener>>

(* close(pClient->socket): whatever the slot has by now. *)
Close(c) ==
  /\ thread[c].pc \in {"close", "break"}
  /\ fdt' = Closed(slot.socket)
  /\ thread' = [thread EXCEPT ![c] =
                  IF @.pc = "close" THEN [@ EXCEPT !.pc = "loop"]
                  ELSE [pc |-> "done", file |-> NoFile]]
  /\ UNCHANGED <<slot, udpfd, accepted, listener, disorder>>

ClientThread(c) == \/ Loop(c) \/ Query(c) \/ Setup(c) \/ PlayAnswer(c) \/ Play(c)
                   \/ TeardownAnswer(c) \/ Teardown(c) \/ RecvFails(c) \/ Close(c)

RtspNext == \/ Accept \/ Reset \/ Fill
            \/ \E c \in Conns : ClientThread(c)

RtspSpec == RtspInit /\ [][RtspNext]_rtspVars

-----------------------------------------------------------------------------
(* Properties. *)

(* Every variable has the type its comment says. *)
RtspTypeOK ==
  /\ fdt \in [Fds -> Files]
  /\ slot \in [socket : Fds, status : {"IDLE", "CONNECTED", "SENDING"},
               port : 0 .. MaxConns, owner : 0 .. MaxConns]
  /\ udpfd \in Fds \cup {-1}
  /\ thread \in [Conns -> [pc : {"none", "loop", "recv", "play", "down",
                                 "close", "break", "done"}, file : Files]]
  /\ accepted \in 0 .. MaxConns
  /\ listener \in [pc : {"accept", "reset", "fill", "exited"}, fd : Fds]
  /\ disorder \subseteq {"takeover", "early teardown", "leak", "no thread"}

(* Whatever the threads do to the slot they share, no answer goes out on   *)
(* the connection of an earlier client: the slot names the newest one, or  *)
(* while the listener takes that over the one before, or a descriptor that *)
(* was closed or is the stream's; 0, from memset, is never written to.     *)
NewestOnly ==
  slot.socket # 0 =>
    \/ FileOf(slot.socket) \in {accepted, NoFile, Udp}
    \/ listener.pc = "reset" /\ FileOf(slot.socket) = accepted - 1

(* Clients that come one after the other, send TEARDOWN only when they     *)
(* have a stream, and each get a thread.                                   *)
Orderly == disorder \subseteq {"leak"}

(* With such clients a thread receives from its own client and answers it, *)
(* and the process keeps its standard input: TEARDOWN closes udpfd, which  *)
(* is 0 before the first PLAY, and the next connection would be number 0.  *)
OrderlyAnswers ==
  Orderly =>
    /\ fdt[0] = Stdin
    /\ \A c \in Conns : thread[c].pc = "recv" =>
         /\ thread[c].file = c
         /\ FileOf(slot.socket) = c /\ slot.socket # 0
         /\ slot.owner = c

(* With such clients the stream, whose socket is closed and whose number   *)
(* is kept, never runs into a connection, even when VENC_Sent goes on with *)
(* a pack after TEARDOWN; and it goes to the port of the client that       *)
(* plays, or nowhere if that client sent no SETUP.                         *)
OrderlyStream ==
  Orderly => /\ FileOf(udpfd) \notin Conns
             /\ slot.status = "SENDING" => slot.port \in {0, slot.owner}

(* When moreover a client plays once and then tears down, sockets do not   *)
(* pile up and accept goes on; its failure would end the listener.         *)
TidyListens ==
  disorder = {} => /\ Cardinality({f \in Fds : fdt[f] = Udp}) <= 1
                   /\ listener.pc # "exited"

=============================================================================
