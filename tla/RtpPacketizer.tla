--------------------------- MODULE RtpPacketizer ---------------------------
(***************************************************************************)
(* RtpSend and SendNalu264 (hisi-rtsp/src/rtputils.c): one RTP handle cuts *)
(* the frames the sender thread hands it into RTP packets and gives them   *)
(* to a UDP socket.  sendto may fail, which abandons the frame, and a      *)
(* packet it took may be lost on the way.                                  *)
(*                                                                         *)
(* The payload type of every handle RTSP_setup creates is _h264nalu, so a  *)
(* frame is never searched for start codes: its first byte, whatever it    *)
(* is, becomes the NAL header and the rest is the payload.  A packet says  *)
(* which bytes of which frame it carries instead of carrying them.         *)
(***************************************************************************)
EXTENDS Integers, Sequences

CONSTANTS
  MAX_RTP_PKT_LENGTH,  \* payload bytes of a packet (1400 in the code)
  SeqMod,              \* sequence numbers: 2^16 in the code
  Sizes,               \* sizes of the frames handed to RtpSend
  MaxFrames,           \* bound: frames of a behaviour
  MaxGap,              \* bound: packets in a row that do not arrive
  LongLongAlign        \* alignment of unsigned long long (8 on ARM EABI)

ASSUME PacketizerAssumption ==
  /\ MAX_RTP_PKT_LENGTH \in Nat \ {0}
  /\ SeqMod \in Nat \ {0}
  /\ Sizes \subseteq Nat \ {0}
  /\ MaxFrames \in Nat
  /\ MaxGap \in Nat /\ MaxGap < SeqMod - 1
  /\ LongLongAlign \in {4, 8}

VARIABLES
  u16SeqNum,      \* of the handle
  frame,          \* the frame RtpSend works on, numbered from 1
  pNaluCurr,      \* offset in the frame of the next byte to send
  s32NaluRemain,  \* bytes still to send
  pc,             \* "idle", or the branch of SendNalu264 taken
  attempts,       \* history: how many packets were handed to sendto
  gap,            \* how many of the latest of them did not arrive
  arrived         \* history: the packets that arrived

handle == <<u16SeqNum, attempts>>
network == <<gap, arrived>>
vars == <<handle, frame, pNaluCurr, s32NaluRemain, pc, network>>

NoFrame == [id |-> 0, size |-> 1]

Init ==
  /\ u16SeqNum = 0
  /\ frame = NoFrame /\ pNaluCurr = 1 /\ s32NaluRemain = 0
  /\ pc = "idle"
  /\ attempts = 0 /\ gap = 0 /\ arrived = <<>>

-----------------------------------------------------------------------------
(* Where the compiler puts the members of StRtpFixedHdr, and so what the   *)
(* first twelve bytes of a packet hold.  The payload starts at byte 13 or  *)
(* 14 and overwrites what the structure has there.                         *)

TimeStampOffset == IF LongLongAlign = 8 THEN 8 ELSE 4
SSrcOffset == TimeStampOffset + 8
WordAt(byte) ==
  CASE byte = TimeStampOffset -> "timestamp"
    [] byte = SSrcOffset      -> "ssrc"
    [] OTHER                  -> "zero"
FixedHdr == [bytes4_7 |-> WordAt(4), bytes8_11 |-> WordAt(8)]

-----------------------------------------------------------------------------
(* The bytes of a packet and the flags of its RTP and FU-A headers.        *)

(* Mutant: < for <=. *)
LastPartStrict == s32NaluRemain < MAX_RTP_PKT_LENGTH

LastPart == s32NaluRemain <= MAX_RTP_PKT_LENGTH
FirstPart == s32NaluRemain = frame.size - 1

NalPacket ==
  [seq |-> u16SeqNum, no |-> attempts, frame |-> frame,
   from |-> pNaluCurr, len |-> s32NaluRemain,
   start |-> TRUE, end |-> TRUE, marker |-> TRUE, hdr |-> FixedHdr]

FuPacket ==
  [seq |-> u16SeqNum, no |-> attempts, frame |-> frame, from |-> pNaluCurr,
   len |-> IF LastPart THEN s32NaluRemain ELSE MAX_RTP_PKT_LENGTH,
   start |-> FirstPart, end |-> LastPart, marker |-> LastPart,
   hdr |-> FixedHdr]

(* Mutant: the number does not wrap. *)
CountUnwrapped ==
  /\ u16SeqNum' = u16SeqNum + 1
  /\ attempts' = attempts + 1

(* sendto of a packet.  The sequence number was taken before.              *)
Count ==
  /\ u16SeqNum' = (u16SeqNum + 1) % SeqMod
  /\ attempts' = attempts + 1

Deliver(packet) ==
  /\ Count
  /\ arrived' = Append(arrived, packet)
  /\ gap' = 0

Miss ==
  /\ Count
  /\ gap < MaxGap
  /\ gap' = gap + 1
  /\ UNCHANGED arrived

-----------------------------------------------------------------------------

(* schedule_do hands the next frame to RtpSend. *)
RtpSend ==
  /\ pc = "idle"
  /\ frame.id < MaxFrames
  /\ \E size \in Sizes : frame' = [id |-> frame.id + 1, size |-> size]
  /\ pNaluCurr' = 1
  /\ s32NaluRemain' = frame'.size - 1
  /\ pc' = IF s32NaluRemain' <= MAX_RTP_PKT_LENGTH THEN "single" ELSE "fu"
  /\ UNCHANGED <<handle, network>>

(* The frame fits one packet.  Whether sendto fails or not, that was it. *)
SendSingle ==
  /\ pc = "single"
  /\ Deliver(NalPacket) \/ Miss
  /\ pc' = "idle"
  /\ UNCHANGED <<frame, pNaluCurr, s32NaluRemain>>

(* Mutant: the pointer moves by s32Bytes, which counts the headers too. *)
SendFragmentSkips ==
  /\ pc = "fu"
  /\ Deliver(FuPacket) \/ Miss
  /\ pNaluCurr' = pNaluCurr + MAX_RTP_PKT_LENGTH + 14
  /\ s32NaluRemain' = s32NaluRemain - MAX_RTP_PKT_LENGTH
  /\ pc' = IF s32NaluRemain' > 0 THEN "fu" ELSE "idle"
  /\ UNCHANGED frame

(* One turn of the loop over the fragments; sendto takes the packet. *)
SendFragment ==
  /\ pc = "fu"
  /\ Deliver(FuPacket) \/ Miss
  /\ pNaluCurr' = pNaluCurr + MAX_RTP_PKT_LENGTH
  /\ s32NaluRemain' = s32NaluRemain - MAX_RTP_PKT_LENGTH
  /\ pc' = IF s32NaluRemain' > 0 THEN "fu" ELSE "idle"
  /\ UNCHANGED frame

(* Mutant: the sequence number is taken only once sendto succeeded. *)
AbortFrameUncounted ==
  /\ pc = "fu"
  /\ gap < MaxGap /\ gap' = gap + 1
  /\ attempts' = attempts + 1
  /\ pc' = "idle"
  /\ UNCHANGED <<u16SeqNum, arrived, frame, pNaluCurr, s32NaluRemain>>

(* sendto fails: the rest of the frame is not sent. *)
AbortFrame ==
  /\ pc = "fu"
  /\ Miss
  /\ pc' = "idle"
  /\ UNCHANGED <<frame, pNaluCurr, s32NaluRemain>>

Next == RtpSend \/ SendSingle \/ SendFragment \/ AbortFrame

Spec == Init /\ [][Next]_vars

-----------------------------------------------------------------------------
(* Properties. *)

Packets == [seq : 0 .. SeqMod - 1, no : Nat,
            frame : [id : 1 .. MaxFrames, size : Sizes],
            from : Nat, len : Nat, start : BOOLEAN, end : BOOLEAN,
            marker : BOOLEAN, hdr : {FixedHdr}]
TypeOK ==
  /\ u16SeqNum \in 0 .. SeqMod - 1 /\ attempts \in Nat
  /\ frame \in [id : 1 .. MaxFrames, size : Sizes] \cup {NoFrame}
  /\ pNaluCurr \in Nat /\ s32NaluRemain \in Int
  /\ pc \in {"idle", "single", "fu"}
  /\ gap \in 0 .. MaxGap /\ arrived \in Seq(Packets)

(* Sequence numbers count packets across frames and across frames given up *)
(* half way, so a receiver sees every packet it missed as a gap.           *)
SeqNumbersCount ==
  \A k \in 1 .. Len(arrived) : arrived[k].seq = arrived[k].no % SeqMod

(* The marker is on the packet with the frame's last byte and on no other  *)
(* (rtputils.c:363, "only the last packet's u1Marker is set"), and the     *)
(* FU-A start flag on the one with the first byte behind the header.       *)
FlagsFrameTheData ==
  \A k \in 1 .. Len(arrived) :
    LET p == arrived[k]
    IN  /\ p.marker <=> p.from + p.len = p.frame.size
        /\ p.start <=> p.from = 1
        /\ p.end <=> p.marker

(* What a receiver reassembles is what was sent: packets without a gap in  *)
(* their numbers from a start flag to the next end flag are the whole of   *)
(* one frame, in order and without overlap, whatever got lost around them. *)
Consecutive(i, j) ==
  \A k \in i .. j - 1 : arrived[k + 1].seq = (arrived[k].seq + 1) % SeqMod
Reassembled(i, j) ==
  /\ arrived[i].start /\ \A k \in i + 1 .. j : ~arrived[k].start
  /\ arrived[j].end /\ \A k \in i .. j - 1 : ~arrived[k].end
  /\ Consecutive(i, j)
WholeFrame(i, j) ==
  /\ \A k \in i .. j : arrived[k].frame = arrived[i].frame
  /\ arrived[i].from = 1
  /\ \A k \in i .. j - 1 : arrived[k + 1].from = arrived[k].from + arrived[k].len
  /\ arrived[j].from + arrived[j].len = arrived[j].frame.size
ReassemblyExact ==
  \A i, j \in 1 .. Len(arrived) :
    i <= j /\ Reassembled(i, j) => WholeFrame(i, j)

(* "bytes 4-7" of a packet are the time stamp, "bytes 8-11" the SSRC       *)
(* (rtputils.c:37-40).                                                     *)
HeaderAsDocumented ==
  \A k \in 1 .. Len(arrived) :
    arrived[k].hdr = [bytes4_7 |-> "timestamp", bytes8_11 |-> "ssrc"]

=============================================================================
