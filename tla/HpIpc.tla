-------------------------------- MODULE HpIpc --------------------------------
(***************************************************************************)
(* hp-ipc as one process (hisi-mpp/sample/hp-ipc/src): the media pipeline  *)
(* of the main thread, the stream thread it starts, the RTSP server's      *)
(* threads and the sender.  They meet in the slot's status, which lets the *)
(* stream thread save packs or not, in the list of packs, and in the exit  *)
(* of main, which ends the server's threads where they are.  VENC_Sent     *)
(* looks at the slot field by field, and numbers the RTP packets of a pack *)
(* with its seqnum, while the server's threads clear, fill and reset it    *)
(* without asking; and their answers may end the process.                  *)
(***************************************************************************)
EXTENDS HpRtsp, HpFrameList, HpPipeline

CONSTANT MaxFragments  \* bound: RTP packets of a pack

ASSUME IpcAssumption == MaxFragments \in Nat \ {0}

VARIABLES
  seqnum,  \* g_rtspClients[0].seqnum
  left,    \* packets VENC_Sent has yet to send of its pack
  venc,    \* how far it is with its pack
  to,      \* the port and the IP it took from the slot
  served,  \* history: packets sent to the slot's client since it came
  late     \* history: a client came while a pack was under way to another

rtpVars == <<seqnum, left, venc, to, served, late>>
ipcVars == <<rtspVars, listVars, pipeVars, rtpVars>>

(* An address, as the slot's: by the connection it is of. *)
Nowhere == [port |-> 0, ip |-> 0]

IpcInit ==
  /\ RtspInit /\ ListInit /\ PipeInit
  /\ seqnum = 0 /\ left = 0 /\ venc = "done" /\ to = Nowhere
  /\ served = 0 /\ late = FALSE

Main == MainNext /\ UNCHANGED <<rtspVars, listVars, rtpVars>>

(* RtspServer_init is called when IPC_Init has returned. *)
Running == inited /\ ~Ended

(* seqnum = 0, which is lost when it falls into seqnum++. *)
ResetSeqnum == seqnum' \in {0} \cup IF left > 0 THEN {seqnum} ELSE {}

(* Mutant: memset leaves the sequence number. *)
ClientComesKeepsSeqnum ==
  /\ Running /\ Reset
  /\ UNCHANGED seqnum
  /\ served' = 0 /\ late' = (late \/ left > 0)
  /\ UNCHANGED <<left, venc, to, listVars, pipeVars>>

(* The listener clears the slot. *)
ClientComes ==
  /\ Running /\ Reset
  /\ ResetSeqnum
  /\ served' = 0 /\ late' = (late \/ left > 0)
  /\ UNCHANGED <<left, venc, to, listVars, pipeVars>>

ClientLeaves ==
  /\ Running /\ \E c \in Conns : Teardown(c) \/ RecvFails(c)
  /\ ResetSeqnum
  /\ UNCHANGED <<left, venc, to, served, late, listVars, pipeVars>>

Rtsp ==
  /\ Running
  /\ \/ Accept \/ Fill
     \/ \E c \in Conns : \/ Loop(c) \/ Query(c) \/ Setup(c) \/ PlayAnswer(c)
                         \/ Play(c) \/ TeardownAnswer(c) \/ Close(c)
  /\ UNCHANGED <<listVars, pipeVars, rtpVars>>

(* send without MSG_NOSIGNAL, of an answer or by a stale udpfd, to a       *)
(* client that has left.                                                   *)
BrokenPipe ==
  /\ \/ /\ \E c \in Conns : Received(c)
        /\ slot.socket # 0 /\ FileOf(slot.socket) \in Conns
     \/ venc = "packets" /\ FileOf(udpfd) \in Conns
  /\ Killed
  /\ UNCHANGED <<rtspVars, listVars, rtpVars>>

(* saveStream finds the client SENDING. *)
SaveStart ==
  /\ getter = "frame" /\ slot.status = "SENDING" /\ ~Ended
  /\ StartFrame
  /\ UNCHANGED <<rtspVars, pipeVars, rtpVars>>

SavePack ==
  /\ ~Ended
  /\ NewPack \/ AddFront \/ (AddPublish /\ enc'.pc = "pack")
  /\ UNCHANGED <<rtspVars, pipeVars, rtpVars>>

(* The frame's last pack is in the list: saveStream returns. *)
SaveEnd ==
  /\ AddPublish /\ enc'.pc = "idle" /\ FrameDone
  /\ UNCHANGED <<rtspVars, rtpVars>>

(* No frame, or one that is not saved, or the thread returns. *)
NoSave ==
  /\ enc.pc = "idle"
  /\ GetterLoop \/ FrameDone \/ GetterFails
  /\ UNCHANGED <<rtspVars, listVars, rtpVars>>

(* The sender has a pack: VENC_Sent looks at the status, ... *)
SendStart ==
  /\ Running /\ venc = "done" /\ Take
  /\ venc' = "status"
  /\ UNCHANGED <<seqnum, left, to, served, late, rtspVars, pipeVars>>

SendStatus ==
  /\ Running /\ venc = "status"
  /\ IF slot.status = "SENDING"
       THEN venc' = "port" /\ left' \in 1 .. MaxFragments
       ELSE venc' = "done" /\ UNCHANGED left
  /\ UNCHANGED <<seqnum, to, served, late, rtspVars, listVars, pipeVars>>

(* ... takes the port and then the IP, both once for a pack. *)
SendPort ==
  /\ Running /\ venc = "port"
  /\ venc' = "ip" /\ to' = [to EXCEPT !.port = slot.port]
  /\ UNCHANGED <<seqnum, left, served, late, rtspVars, listVars, pipeVars>>

SendIP ==
  /\ Running /\ venc = "ip"
  /\ venc' = "packets" /\ to' = [to EXCEPT !.ip = slot.owner]
  /\ UNCHANGED <<seqnum, left, served, late, rtspVars, listVars, pipeVars>>

(* sendto, whose result is dropped. *)
SendPacket ==
  /\ Running /\ venc = "packets"
  /\ left' = left - 1
  /\ IF left = 1 THEN venc' = "done" /\ to' = Nowhere ELSE UNCHANGED <<venc, to>>
  /\ seqnum' = seqnum + 1
  /\ served' = IF to.ip = slot.owner THEN served + 1 ELSE served
  /\ UNCHANGED <<late, rtspVars, listVars, pipeVars>>

SendEnd ==
  /\ Running /\ venc = "done"
  /\ DelRead \/ DelBack \/ DelForth
  /\ UNCHANGED <<rtspVars, pipeVars, rtpVars>>

Send == SendStart \/ SendStatus \/ SendPort \/ SendIP \/ SendPacket \/ SendEnd

IpcNext == \/ Main \/ ClientComes \/ ClientLeaves \/ Rtsp \/ BrokenPipe
           \/ SaveStart \/ SavePack \/ SaveEnd \/ NoSave \/ Send

IpcSpec == IpcInit /\ [][IpcNext]_ipcVars

(* The main thread goes on once it exits, the stream thread's select has a *)
(* timeout, and the sender polls.  Nothing is asked of the clients, of the *)
(* keys, nor of a hung stop of the ISP.                                    *)
Fairness ==
  /\ WF_ipcVars(Exit /\ UNCHANGED <<rtspVars, listVars, rtpVars>>)
  /\ WF_ipcVars(SavePack \/ SaveEnd \/ NoSave)
  /\ WF_ipcVars(Send)

FairIpc == IpcSpec /\ Fairness

-----------------------------------------------------------------------------
(* Properties. *)

(* Every variable of the process has the type its module says. *)
IpcTypeOK ==
  /\ RtspTypeOK /\ ListTypeOK /\ PipeTypeOK
  /\ seqnum \in Nat /\ left \in 0 .. MaxFragments
  /\ venc \in {"status", "port", "ip", "packets", "done"}
  /\ to \in [port : 0 .. MaxConns, ip : 0 .. MaxConns]
  /\ served \in Nat /\ late \in BOOLEAN

(* With clients that come one after the other, what a client that plays    *)
(* gets is numbered from 0 on without a gap, through packs of any length   *)
(* and a TEARDOWN that falls into one, and a pack goes to the port and the *)
(* IP of one client, unless the listener cleared the slot while a pack for *)
(* another client was under way.                                           *)
NumberedFromZero ==
  (Orderly /\ ~late) =>
    /\ slot.status = "SENDING" => seqnum = served
    /\ venc = "packets" => to.port \in {0, to.ip}

(* Each pack that is saved is taken by the sender, unless the two threads  *)
(* met at the last entry, or the process ends first: after such a meeting  *)
(* a pack, or all packs from then on, may be out of the sender's reach.    *)
EveryPackTaken ==
  \A k \in 1 .. MaxPacks : (packed = k) ~> (taken >= k \/ clash \/ Ended)

(* Once main exits the process ends, whatever clients and stream do: the   *)
(* stream thread sees its flag and is joined, even between two packs.  It  *)
(* may only hang in a stop that fails.                                     *)
IpcEnds == (main.what = "exit") ~> (Ended \/ stuck)

=============================================================================
