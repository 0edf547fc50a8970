------------------------ MODULE RtpPacketizerProofs ------------------------
(***************************************************************************)
(* What is proved of RtpPacketizer for every packet length, sequence number *)
(* range and set of frame sizes.                                           *)
(***************************************************************************)
EXTENDS RtpPacketizer, WellFoundedInduction, TLAPS

(* Between two packets of a frame, what was sent and what remains add up   *)
(* to the frame, and something remains.                                    *)
Position ==
  pc # "idle" =>
    /\ frame \in [id : 1 .. MaxFrames, size : Sizes]
    /\ pNaluCurr >= 1
    /\ pNaluCurr + s32NaluRemain = frame.size
    /\ pc = "single" => pNaluCurr = 1
    /\ pc = "fu" => s32NaluRemain > 0

(* The handle's number is the count of packets, cut to its width. *)
SeqNum == u16SeqNum = attempts % SeqMod

Inv == TypeOK /\ Position /\ SeqNum

-----------------------------------------------------------------------------

(* A number has one quotient and one remainder. *)
LEMMA RemainderUnique ==
  ASSUME NEW m \in Nat \ {0}, NEW q \in Int, NEW k \in Int,
         NEW r \in 0 .. m - 1, NEW s \in 0 .. m - 1,
         m * q + r = m * k + s
  PROVE  r = s
<1>1. ASSUME NEW x \in Int, NEW y \in Int, x > y  PROVE m * x >= m * y + m
  <2>1. m * (x - y - 1) >= 0
    BY <1>1, SMT
  <2>2. m * (x - y - 1) = m * x - m * y - m
    BY SMT
  <2>3. m * x \in Int /\ m * y \in Int
    BY SMT
  <2> QED BY <2>1, <2>2, <2>3, SMT
<1>2. m * q \in Int /\ m * k \in Int
  BY SMT
<1>3. ~(q > k) /\ ~(k > q)
  BY <1>1, <1>2, SMT
<1>4. q = k
  BY <1>3, SMT
<1> QED BY <1>4, <1>2, SMT

(* The remainder is the one that x - r multiples of m leave. *)
LEMMA Remainder ==
  ASSUME NEW m \in Nat \ {0}, NEW q \in Int, NEW r \in 0 .. m - 1,
         NEW x \in Int, x = m * q + r
  PROVE  x % m = r
<1>1. x \div m \in Int /\ x % m \in 0 .. m - 1 /\ x = m * (x \div m) + (x % m)
  BY SMT
<1> QED BY <1>1, RemainderUnique

(* Every number has a quotient and a remainder.                            *)
LEMMA Divided ==
  ASSUME NEW a \in Nat, NEW m \in Nat \ {0}
  PROVE  \E q \in Int, r \in 0 .. m - 1 : a = m * q + r /\ (a % m) = r
BY SMT

(* Cutting a number to its width before or after adding one is the same.   *)
LEMMA ModSucc ==
  ASSUME NEW a \in Nat, NEW m \in Nat \ {0}
  PROVE  ((a % m) + 1) % m = (a + 1) % m
<1>1. PICK q \in Int, r \in 0 .. m - 1 : a = m * q + r /\ (a % m) = r
  BY Divided
<1>2. m * q \in Int /\ m * (q + 1) = m * q + m
  BY SMT
<1>3. PICK b \in Int : b = a + 1
  BY SMT
<1>4. CASE r + 1 < m
  <2>1. b = m * q + (r + 1) /\ r + 1 \in 0 .. m - 1 /\ r + 1 = m * 0 + (r + 1)
    BY <1>1, <1>2, <1>3, <1>4, SMT
  <2>2. b % m = r + 1 /\ (r + 1) % m = r + 1
    BY <2>1, Remainder
  <2> QED BY <2>2, <1>1, <1>3
<1>5. CASE r + 1 = m
  <2>1. /\ b = m * (q + 1) + 0 /\ q + 1 \in Int
        /\ r + 1 = m * 1 + 0 /\ 0 \in 0 .. m - 1
    BY <1>1, <1>2, <1>3, <1>5, SMT
  <2>2. b % m = 0
    BY <2>1, Remainder
  <2>3. (r + 1) % m = 0
    BY <2>1, Remainder
  <2> QED BY <2>2, <2>3, <1>1, <1>3
<1> QED BY <1>1, <1>4, <1>5, SMT

-----------------------------------------------------------------------------

(* A handle RtpCreate made satisfies the invariant. *)
LEMMA InitInv == Init => Inv
<1> SUFFICES ASSUME Init PROVE Inv
  OBVIOUS
<1> USE PacketizerAssumption DEF Init
<1>1. TypeOK
  BY DEF TypeOK, NoFrame
<1>2. Position
  BY DEF Position
<1>3. SeqNum
  <2>1. 0 = SeqMod * 0 + 0 /\ 0 \in 0 .. SeqMod - 1
    BY SMT
  <2> QED BY <2>1, Remainder DEF SeqNum
<1> QED BY <1>1, <1>2, <1>3 DEF Inv

(* Every packet handed to sendto takes one number. *)
LEMMA CountKeeps ==
  ASSUME TypeOK, SeqNum, Count
  PROVE  u16SeqNum' \in 0 .. SeqMod - 1 /\ attempts' \in Nat /\ SeqNum'
<1> USE PacketizerAssumption DEF TypeOK, Count
<1>1. u16SeqNum' \in 0 .. SeqMod - 1 /\ attempts' \in Nat
  BY SMT
<1>2. u16SeqNum' = ((attempts % SeqMod) + 1) % SeqMod
  BY DEF SeqNum
<1> QED BY <1>1, <1>2, ModSucc DEF SeqNum

(* What a packet is while its frame is being sent. *)
LEMMA PacketTypes ==
  ASSUME Inv, pc # "idle"
  PROVE  /\ pc = "single" => NalPacket \in Packets
         /\ pc = "fu" => FuPacket \in Packets
<1> USE PacketizerAssumption DEF Inv, TypeOK, Position
<1>1. frame \in [id : 1 .. MaxFrames, size : Sizes] /\ frame.size \in Nat
  OBVIOUS
<1>2. CASE pc = "single"
  <2>1. s32NaluRemain \in Nat
    BY <1>1, <1>2, SMT
  <2> QED BY <1>1, <1>2, <2>1 DEF NalPacket, Packets
<1>3. CASE pc = "fu"
  <2>1. s32NaluRemain \in Nat /\ MAX_RTP_PKT_LENGTH \in Nat
    BY <1>1, <1>3, SMT
  <2>2. FirstPart \in BOOLEAN /\ LastPart \in BOOLEAN
    BY DEF FirstPart, LastPart
  <2> QED BY <1>1, <1>3, <2>1, <2>2 DEF FuPacket, Packets
<1> QED BY <1>2, <1>3

(* Either outcome of sendto keeps the handle, the gap and what arrived.    *)
LEMMA SendKeeps ==
  ASSUME Inv, NEW packet \in Packets, Deliver(packet) \/ Miss
  PROVE  /\ u16SeqNum' \in 0 .. SeqMod - 1 /\ attempts' \in Nat /\ SeqNum'
         /\ gap' \in 0 .. MaxGap /\ arrived' \in Seq(Packets)
<1> USE PacketizerAssumption DEF Inv
<1>1. Count
  BY DEF Deliver, Miss
<1>2. gap' \in 0 .. MaxGap
  BY SMT DEF Deliver, Miss, TypeOK
<1>3. arrived' \in Seq(Packets)
  BY DEF Deliver, Miss, TypeOK
<1> QED BY <1>1, <1>2, <1>3, CountKeeps

(* Every step keeps the invariant. *)
LEMMA NextInv == Inv /\ [Next]_vars => Inv'
<1> SUFFICES ASSUME Inv, [Next]_vars PROVE Inv'
  OBVIOUS
<1> USE PacketizerAssumption DEF Inv
<1>1. CASE RtpSend
  <2> USE <1>1 DEF RtpSend, handle, network
  <2>1. PICK size \in Sizes : frame' = [id |-> frame.id + 1, size |-> size]
    OBVIOUS
  <2>2. size \in Nat \ {0} /\ frame' \in [id : 1 .. MaxFrames, size : Sizes]
    BY <2>1, SMT DEF TypeOK, NoFrame
  <2>3. TypeOK'
    BY <2>1, <2>2, SMT DEF TypeOK
  <2>4. Position'
    BY <2>1, <2>2, SMT DEF Position, TypeOK
  <2>5. SeqNum'
    BY DEF SeqNum
  <2> QED BY <2>3, <2>4, <2>5
<1>2. CASE SendSingle
  <2> USE <1>2 DEF SendSingle
  <2>1. NalPacket \in Packets
    BY PacketTypes
  <2>2. /\ u16SeqNum' \in 0 .. SeqMod - 1 /\ attempts' \in Nat /\ SeqNum'
        /\ gap' \in 0 .. MaxGap /\ arrived' \in Seq(Packets)
    BY <2>1, SendKeeps
  <2>3. TypeOK'
    BY <2>2 DEF TypeOK
  <2> QED BY <2>2, <2>3 DEF Position
<1>3. CASE SendFragment
  <2> USE <1>3 DEF SendFragment
  <2>1. FuPacket \in Packets
    BY PacketTypes
  <2>2. /\ u16SeqNum' \in 0 .. SeqMod - 1 /\ attempts' \in Nat /\ SeqNum'
        /\ gap' \in 0 .. MaxGap /\ arrived' \in Seq(Packets)
    BY <2>1, SendKeeps
  <2>3. TypeOK'
    BY <2>2, SMT DEF TypeOK
  <2>4. Position'
    BY SMT DEF Position, TypeOK
  <2> QED BY <2>2, <2>3, <2>4
<1>4. CASE AbortFrame
  <2> USE <1>4 DEF AbortFrame
  <2>1. FuPacket \in Packets
    BY PacketTypes
  <2>2. /\ u16SeqNum' \in 0 .. SeqMod - 1 /\ attempts' \in Nat /\ SeqNum'
        /\ gap' \in 0 .. MaxGap /\ arrived' \in Seq(Packets)
    BY <2>1, SendKeeps
  <2>3. TypeOK'
    BY <2>2 DEF TypeOK
  <2> QED BY <2>2, <2>3 DEF Position
<1>5. CASE UNCHANGED vars
  BY <1>5 DEF vars, handle, network, TypeOK, Position, SeqNum
<1> QED BY <1>1, <1>2, <1>3, <1>4, <1>5 DEF Next

(* So it always holds. *)
LEMMA InvAlways == Spec => []Inv
<1> QED BY InitInv, NextInv, PTL DEF Spec

(* The packets of a handle have the types TypeOK gives them, and the       *)
(* sequence number stays in its 16 bits (u16SeqNum of rtputils.c).         *)
THEOREM PacketTypeCorrect == Spec => []TypeOK
<1>1. Inv => TypeOK
  BY DEF Inv
<1> QED BY <1>1, InvAlways, PTL

-----------------------------------------------------------------------------

(* A step leaves what arrived alone or appends the packet of its branch.   *)
LEMMA ArrivedGrows ==
  ASSUME Inv, [Next]_vars
  PROVE  \/ arrived' = arrived
         \/ pc = "single" /\ arrived' = Append(arrived, NalPacket)
         \/ pc = "fu" /\ arrived' = Append(arrived, FuPacket)
BY DEF Next, RtpSend, SendSingle, SendFragment, AbortFrame, Deliver, Miss,
       vars, network

(* A receiver sees every packet it missed as a gap: SendNalu264 takes a    *)
(* number for each packet, sent or not, across frames.                     *)
THEOREM NumbersCountPackets == Spec => []SeqNumbersCount
<1>1. Init => SeqNumbersCount
  BY DEF Init, SeqNumbersCount
<1>2. Inv /\ SeqNumbersCount /\ [Next]_vars => SeqNumbersCount'
  <2> SUFFICES ASSUME Inv, SeqNumbersCount, [Next]_vars,
                      NEW k \in 1 .. Len(arrived')
               PROVE  arrived'[k].seq = arrived'[k].no % SeqMod
    BY DEF SeqNumbersCount
  <2>1. arrived \in Seq(Packets)
    BY DEF Inv, TypeOK
  <2>2. CASE arrived' = arrived
    BY <2>2 DEF SeqNumbersCount
  <2>3. ASSUME NEW p, arrived' = Append(arrived, p), p.seq = p.no % SeqMod
        PROVE  arrived'[k].seq = arrived'[k].no % SeqMod
    <3>1. CASE k \in 1 .. Len(arrived)
      <4>1. arrived'[k] = arrived[k]
        BY <2>1, <2>3, <3>1
      <4> QED BY <4>1, <3>1 DEF SeqNumbersCount
    <3>2. CASE k = Len(arrived) + 1
      <4>1. arrived'[k] = p
        BY <2>1, <2>3, <3>2
      <4> QED BY <4>1, <2>3
    <3> QED BY <2>1, <2>3, <3>1, <3>2
  <2>4. /\ NalPacket.seq = NalPacket.no % SeqMod
        /\ FuPacket.seq = FuPacket.no % SeqMod
    BY DEF NalPacket, FuPacket, Inv, SeqNum
  <2> QED BY <2>2, <2>3, <2>4, ArrivedGrows
<1> QED BY <1>1, <1>2, InvAlways, PTL DEF Spec

(* FlagsFrameTheData of one packet. *)
Framed(p) ==
  /\ p.marker <=> p.from + p.len = p.frame.size
  /\ p.start <=> p.from = 1
  /\ p.end <=> p.marker

(* Both branches of SendNalu264 set the flags by what the packet carries.  *)
LEMMA PacketFramed ==
  ASSUME Inv
  PROVE  /\ pc = "single" => Framed(NalPacket)
         /\ pc = "fu" => Framed(FuPacket)
<1> USE PacketizerAssumption DEF Inv, TypeOK, Position
<1>1. ASSUME pc # "idle"
      PROVE  frame.size \in Nat /\ pNaluCurr \in Nat /\ s32NaluRemain \in Int
  BY <1>1
<1>2. ASSUME pc = "single" PROVE Framed(NalPacket)
  BY <1>1, <1>2, SMT DEF Framed, NalPacket
<1>3. ASSUME pc = "fu" PROVE Framed(FuPacket)
  <2> DEFINE len == IF LastPart THEN s32NaluRemain ELSE MAX_RTP_PKT_LENGTH
  <2>1. LastPart <=> pNaluCurr + len = frame.size
    BY <1>1, <1>3, SMT DEF LastPart
  <2>2. FirstPart <=> pNaluCurr = 1
    BY <1>1, <1>3, SMT DEF FirstPart
  <2>3. /\ FuPacket.marker = LastPart /\ FuPacket.end = LastPart
        /\ FuPacket.start = FirstPart /\ FuPacket.frame = frame
        /\ FuPacket.from = pNaluCurr /\ FuPacket.len = len
    BY DEF FuPacket
  <2> QED BY <2>1, <2>2, <2>3, Zenon DEF Framed
<1> QED BY <1>2, <1>3

(* The marker and the FU-A flags frame the data for every frame size and   *)
(* packet length: the boundary cases of the loop in SendNalu264.           *)
THEOREM FlagsCorrect == Spec => []FlagsFrameTheData
<1>1. Init => FlagsFrameTheData
  BY DEF Init, FlagsFrameTheData
<1>2. Inv /\ FlagsFrameTheData /\ [Next]_vars => FlagsFrameTheData'
  <2> SUFFICES ASSUME Inv, FlagsFrameTheData, [Next]_vars,
                      NEW k \in 1 .. Len(arrived')
               PROVE  Framed(arrived'[k])
    BY DEF FlagsFrameTheData, Framed
  <2>1. arrived \in Seq(Packets)
    BY DEF Inv, TypeOK
  <2>2. ASSUME NEW i \in 1 .. Len(arrived) PROVE Framed(arrived[i])
    BY DEF FlagsFrameTheData, Framed
  <2>3. CASE arrived' = arrived
    BY <2>2, <2>3
  <2>4. ASSUME NEW p, arrived' = Append(arrived, p), Framed(p)
        PROVE  Framed(arrived'[k])
    <3>1. CASE k \in 1 .. Len(arrived)
      <4>1. arrived'[k] = arrived[k]
        BY <2>1, <2>4, <3>1
      <4> QED BY <4>1, <3>1, <2>2
    <3>2. CASE k = Len(arrived) + 1
      <4>1. arrived'[k] = p
        BY <2>1, <2>4, <3>2
      <4> QED BY <4>1, <2>4
    <3> QED BY <2>1, <2>4, <3>1, <3>2
  <2> QED BY <2>3, <2>4, PacketFramed, ArrivedGrows
<1> QED BY <1>1, <1>2, InvAlways, PTL DEF Spec

-----------------------------------------------------------------------------
(* What a receiver reassembles.                                            *)

(* A packet that arrived after another one, with at most MaxGap lost in    *)
(* between; with none lost and none given up, it goes on with the frame.   *)
Follows(p, q) ==
  /\ p.no < q.no /\ q.no <= p.no + MaxGap + 1
  /\ q.no = p.no + 1 /\ ~p.end => q.frame = p.frame /\ q.from = p.from + p.len

(* What is known of the latest packet, from which the next one follows.    *)
Latest(p) ==
  /\ p.no + gap + 1 = attempts
  /\ gap = 0 /\ ~p.end => pc = "fu" /\ frame = p.frame /\ pNaluCurr = p.from + p.len

Chain ==
  /\ \A k \in 1 .. Len(arrived) - 1 : Follows(arrived[k], arrived[k + 1])
  /\ arrived # <<>> => Latest(arrived[Len(arrived)])

(* Nothing arrives: what the latest packet says of the next stays true.    *)
LEMMA ChainStays ==
  ASSUME Inv, Chain, [Next]_vars, arrived' = arrived
  PROVE  Chain'
<1> SUFFICES ASSUME arrived # <<>>
             PROVE  Latest(arrived[Len(arrived)])'
  BY DEF Chain, Follows
<1> DEFINE p == arrived[Len(arrived)]
<1>1. /\ p.no + gap + 1 = attempts /\ p.no \in Nat /\ p' = p
      /\ gap = 0 /\ ~p.end => pc = "fu" /\ frame = p.frame /\ pNaluCurr = p.from + p.len
  <2>1. arrived \in Seq(Packets) /\ Len(arrived) \in 1 .. Len(arrived)
    BY DEF Inv, TypeOK
  <2>2. p \in Packets
    BY <2>1
  <2> QED BY <2>2 DEF Chain, Latest, Packets
<1>2. arrived # Append(arrived, NalPacket) /\ arrived # Append(arrived, FuPacket)
  <2>1. arrived \in Seq(Packets)
    BY DEF Inv, TypeOK
  <2>2. ASSUME NEW x PROVE Len(Append(arrived, x)) = Len(arrived) + 1
    BY <2>1
  <2> QED BY <2>1, <2>2
<1>3. attempts \in Nat /\ gap \in Nat
  BY DEF Inv, TypeOK
<1> HIDE DEF p
<1>4. CASE UNCHANGED <<attempts, gap, pc, frame, pNaluCurr>>
  BY <1>1, <1>4 DEF Latest, p
<1>5. CASE Miss
  <2>1. p.no + gap' + 1 = attempts' /\ gap' # 0
    BY <1>1, <1>3, <1>5 DEF Miss, Count
  <2> QED BY <1>1, <2>1 DEF Latest, p
<1>6. CASE RtpSend
  <2>1. UNCHANGED <<attempts, gap>> /\ pc # "fu"
    BY <1>6 DEF RtpSend, handle, network
  <2> QED BY <1>1, <2>1 DEF Latest, p
<1> QED
  BY <1>2, <1>4, <1>5, <1>6 DEF Next, SendSingle, SendFragment, AbortFrame, Deliver,
     vars, handle, network

(* The next packet arrives.                                                *)
LEMMA ChainGrows ==
  ASSUME Inv, Chain, NEW q \in Packets, arrived' = Append(arrived, q),
         q.no = attempts, q.frame = frame, q.from = pNaluCurr, Latest(q)'
  PROVE  Chain'
<1>1. /\ arrived \in Seq(Packets) /\ Len(arrived) \in Nat
      /\ Len(arrived') = Len(arrived) + 1 /\ arrived'[Len(arrived')] = q
      /\ \A k \in 1 .. Len(arrived) : arrived'[k] = arrived[k]
  BY DEF Inv, TypeOK
<1>2. ASSUME NEW k \in 1 .. Len(arrived') - 1
      PROVE  Follows(arrived'[k], arrived'[k + 1])
  <2>1. CASE k < Len(arrived)
    <3>1. /\ k \in 1 .. Len(arrived) - 1 /\ k \in 1 .. Len(arrived)
          /\ k + 1 \in 1 .. Len(arrived)
      BY <1>1, <2>1
    <3>2. arrived'[k] = arrived[k] /\ arrived'[k + 1] = arrived[k + 1]
      BY <1>1, <3>1
    <3> QED BY <3>1, <3>2 DEF Chain
  <2>2. CASE k = Len(arrived)
    <3> DEFINE p == arrived[k]
    <3>1. arrived # <<>> /\ k \in 1 .. Len(arrived)
      BY <1>1, <2>2
    <3>2. p \in Packets /\ arrived'[k] = p /\ arrived'[k + 1] = q
      BY <1>1, <2>2, <3>1
    <3>3. /\ p.no + gap + 1 = q.no
          /\ gap = 0 /\ ~p.end => q.frame = p.frame /\ q.from = p.from + p.len
      BY <2>2, <3>1 DEF Chain, Latest
    <3>4. p.no \in Nat /\ gap \in 0 .. MaxGap /\ MaxGap \in Nat
      <4>1. gap \in 0 .. MaxGap
        BY DEF Inv, TypeOK
      <4> QED BY <3>2, <4>1, PacketizerAssumption DEF Packets
    <3>5. p.no < q.no /\ q.no <= p.no + MaxGap + 1 /\ (q.no = p.no + 1 => gap = 0)
      BY <3>3, <3>4
    <3>6. Follows(p, q)
      BY <3>3, <3>5 DEF Follows
    <3> QED BY <3>2, <3>6
  <2> QED BY <1>1, <2>1, <2>2
<1> QED BY <1>1, <1>2 DEF Chain

(* A packet that is delivered is the latest, and the loop goes on behind   *)
(* it unless it was the last of its frame.                                 *)
LEMMA ChainDelivers ==
  ASSUME Inv, Chain,
         \/ SendSingle /\ Deliver(NalPacket)
         \/ SendFragment /\ Deliver(FuPacket)
  PROVE  Chain'
<1>1. gap' = 0 /\ attempts' = attempts + 1 /\ attempts \in Nat
  BY DEF Inv, TypeOK, Deliver, Count
<1>2. CASE SendSingle /\ Deliver(NalPacket)
  <2>1. PICK q \in Packets : q = NalPacket
    BY <1>2, PacketTypes DEF SendSingle
  <2>2. q.no = attempts /\ q.frame = frame /\ q.from = pNaluCurr /\ q.end
    BY <2>1 DEF NalPacket
  <2>3. Latest(q)'
    BY <1>1, <2>2 DEF Latest
  <2> QED BY <1>2, <2>1, <2>2, <2>3, ChainGrows DEF Deliver
<1>3. CASE SendFragment /\ Deliver(FuPacket)
  <2>1. PICK q \in Packets : q = FuPacket
    BY <1>3, PacketTypes DEF SendFragment
  <2>2. q.no = attempts /\ q.frame = frame /\ q.from = pNaluCurr /\ q.end = LastPart
    BY <2>1 DEF FuPacket
  <2>3. ASSUME ~q.end
        PROVE  pc' = "fu" /\ frame' = frame /\ pNaluCurr' = q.from + q.len
    <3>1. s32NaluRemain > MAX_RTP_PKT_LENGTH
      <4>1. ~LastPart
        BY <2>2, <2>3
      <4> QED BY <4>1, PacketizerAssumption DEF LastPart, Inv, TypeOK
    <3>2. q.len = MAX_RTP_PKT_LENGTH
      BY <2>1, <2>2, <2>3 DEF FuPacket
    <3> QED BY <1>3, <2>2, <3>1, <3>2, PacketizerAssumption DEF SendFragment, Inv, TypeOK
  <2>4. Latest(q)'
    BY <1>1, <2>2, <2>3 DEF Latest
  <2> QED BY <1>3, <2>1, <2>2, <2>4, ChainGrows DEF Deliver
<1> QED BY <1>2, <1>3

(* So what arrived is always a chain.                                      *)
LEMMA ChainAlways == Spec => []Chain
<1>1. Init => Chain
  BY DEF Init, Chain
<1>2. Inv /\ Chain /\ [Next]_vars => Chain'
  <2> SUFFICES ASSUME Inv, Chain, [Next]_vars
               PROVE  Chain'
    OBVIOUS
  <2>1. \/ arrived' = arrived
        \/ SendSingle /\ Deliver(NalPacket)
        \/ SendFragment /\ Deliver(FuPacket)
    BY DEF Next, RtpSend, SendSingle, SendFragment, AbortFrame, Miss, vars, network
  <2> QED BY <2>1, ChainStays, ChainDelivers
<1> QED BY <1>1, <1>2, InvAlways, PTL DEF Spec

(* Two numbers less than the modulus apart with one remainder are one.     *)
LEMMA SameRemainder ==
  ASSUME NEW m \in Nat \ {0}, NEW a \in Nat, NEW b \in Nat,
         a <= b, b < a + m, a % m = b % m
  PROVE  a = b
<1>1. PICK q \in Int, r \in 0 .. m - 1 : a = m * q + r /\ (a % m) = r
  BY Divided
<1>2. PICK k \in Int, s \in 0 .. m - 1 : b = m * k + s /\ (b % m) = s
  BY Divided
<1>3. PICK d \in 0 .. m - 1 : d = b - a
  BY SMT
<1>4. m * (k - q) = m * k - m * q /\ m * 0 = 0 /\ m * k \in Int /\ m * q \in Int
  BY SMT
<1>5. m * (k - q) + 0 = m * 0 + d /\ k - q \in Int /\ 0 \in 0 .. m - 1
  BY <1>1, <1>2, <1>3, <1>4, SMT
<1>6. d = 0
  BY <1>5, RemainderUnique
<1> QED BY <1>3, <1>6

(* A gap is shorter than the range of the sequence numbers.                *)
LEMMA GapShort ==
  ASSUME NEW a \in Nat, NEW b \in Nat, a < b, b <= a + MaxGap + 1
  PROVE  a + 1 <= b /\ b < (a + 1) + SeqMod
BY PacketizerAssumption

(* What does not change from one place to the next is the same all along.  *)
LEMMA SameThroughout ==
  ASSUME NEW f, NEW i \in Nat, NEW j \in Nat,
         \A k \in i .. j - 1 : f[k + 1] = f[k]
  PROVE  \A k \in i .. j : f[k] = f[i]
<1> DEFINE T == {k \in i .. j : f[k] # f[i]}
           less == {ss \in Nat \X Nat : ss[1] < ss[2]}
<1>1. IsWellFoundedOn(less, Nat)
  BY NatLessThanWellFounded DEF OpToRel
<1>2. \A x, y \in Nat : <<y, x>> \notin less => x <= y
  OBVIOUS
<1> HIDE DEF less
<1>3. SUFFICES ASSUME T # {} PROVE FALSE
  BY Zenon
<1>4. T \subseteq Nat
  OBVIOUS
<1>5. \E x \in T : \A y \in T : <<y, x>> \notin less
  BY <1>1, <1>3, <1>4, WFMin, Zenon
<1>6. PICK x \in T : \A y \in T : x <= y
  BY <1>2, <1>4, <1>5
<1>7. x - 1 \in i .. j - 1 /\ x - 1 \in i .. j /\ f[x] # f[i]
  BY <1>6
<1>8. f[(x - 1) + 1] = f[x - 1] /\ f[x - 1] = f[i]
  BY <1>6, <1>7
<1> QED BY <1>7, <1>8

(* What a receiver puts together from a start flag to the next end flag is *)
(* the whole of one frame, whatever got lost, whatever SendNalu264 gave up *)
(* half way, and however often the sequence number came round, as long as  *)
(* fewer packets in a row are lost than there are numbers.                 *)
THEOREM ReassembledWhole == Spec => []ReassemblyExact
<1>1. Inv /\ Chain /\ SeqNumbersCount /\ FlagsFrameTheData => ReassemblyExact
  <2> SUFFICES ASSUME Inv, Chain, SeqNumbersCount, FlagsFrameTheData,
                      NEW i \in 1 .. Len(arrived), NEW j \in 1 .. Len(arrived),
                      i <= j, Reassembled(i, j)
               PROVE  WholeFrame(i, j)
    BY DEF ReassemblyExact
  <2>1. Len(arrived) \in Nat /\ \A k \in 1 .. Len(arrived) : arrived[k] \in Packets
    BY DEF Inv, TypeOK
  <2>2. ASSUME NEW k \in i .. j - 1
        PROVE  /\ arrived[k + 1].frame = arrived[k].frame
               /\ arrived[k + 1].from = arrived[k].from + arrived[k].len
    <3>1. /\ k \in 1 .. Len(arrived) - 1 /\ k \in 1 .. Len(arrived)
          /\ k + 1 \in 1 .. Len(arrived)
      BY <2>1
    <3>2. PICK p \in Packets, q \in Packets : p = arrived[k] /\ q = arrived[k + 1]
      BY <2>1, <3>1
    <3>3. Follows(p, q) /\ ~p.end
      BY <3>1, <3>2 DEF Chain, Reassembled
    <3>4. p.no \in Nat /\ q.no \in Nat /\ p.seq = p.no % SeqMod /\ q.seq = q.no % SeqMod
      BY <3>1, <3>2 DEF Packets, SeqNumbersCount
    <3>5. q.seq = (p.seq + 1) % SeqMod
      BY <3>2 DEF Reassembled, Consecutive
    <3>6. PICK n \in Nat : n = p.no + 1
      BY <3>4
    <3>7. n % SeqMod = q.no % SeqMod
      BY <3>4, <3>5, <3>6, ModSucc, PacketizerAssumption
    <3>8. n <= q.no /\ q.no < n + SeqMod
      <4>1. p.no < q.no /\ q.no <= p.no + MaxGap + 1
        BY <3>3 DEF Follows
      <4>2. p.no + 1 <= q.no /\ q.no < (p.no + 1) + SeqMod
        BY <3>4, <4>1, GapShort, Zenon
      <4> QED BY <3>6, <4>2, Zenon
    <3>9. q.no = p.no + 1
      BY <3>4, <3>6, <3>7, <3>8, SameRemainder, PacketizerAssumption
    <3> QED BY <3>2, <3>3, <3>9 DEF Follows
  <2>3. \A k \in i .. j : arrived[k].frame = arrived[i].frame
    <3> DEFINE f == [k \in 1 .. Len(arrived) |-> arrived[k].frame]
    <3>1. \A k \in i .. j : f[k] = arrived[k].frame
      BY <2>1
    <3>2. \A k \in i .. j - 1 : f[k + 1] = f[k]
      BY <2>1, <2>2
    <3> HIDE DEF f
    <3>3. i \in Nat /\ j \in Nat
      BY <2>1
    <3>4. \A k \in i .. j : f[k] = f[i]
      BY <3>2, <3>3, SameThroughout
    <3>5. arrived[i].frame = f[i]
      BY <2>1, <3>1
    <3> QED BY <3>1, <3>4, <3>5
  <2>4. arrived[i].from = 1
    BY DEF FlagsFrameTheData, Reassembled
  <2>5. arrived[j].from + arrived[j].len = arrived[j].frame.size
    BY DEF FlagsFrameTheData, Reassembled
  <2> QED BY <2>2, <2>3, <2>4, <2>5 DEF WholeFrame
<1> QED BY <1>1, InvAlways, ChainAlways, NumbersCountPackets, FlagsCorrect, PTL

=============================================================================
