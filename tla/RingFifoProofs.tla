--------------------------- MODULE RingFifoProofs ---------------------------
(***************************************************************************)
(* Theorems about the frame ring, for every ring size and every number of  *)
(* frames, with n++ and n-- split into a load and a store each.            *)
(***************************************************************************)
EXTENDS MCRingFifo, TLAPS

-----------------------------------------------------------------------------
(* The operators the model is built from. *)

(* What a frame looks like: two or three cells, each with a NAL type. *)
LEMMA FrameShape ==
  ASSUME NEW frame, frame.type \in FrameTypes
  PROVE  /\ FrameSize(frame) \in 2 .. MaxCells
         /\ \A k \in 1 .. FrameSize(frame) : Packs(frame.type)[k] \in NalTypes
<1>1. CASE frame.type = "I"
  BY <1>1 DEF FrameSize, Packs, MaxCells, NalTypes
<1>2. CASE frame.type # "I"
  BY <1>2 DEF FrameSize, Packs, MaxCells, NalTypes
<1> QED BY <1>1, <1>2

(* addring stays inside the ring. *)
LEMMA AddringInRing ==
  ASSUME NEW i \in Slots
  PROVE  addring(i) \in Slots
BY RingAssumption DEF Slots, addring

(* A cell copied into a slot leaves a slot, and so does its publication. *)
LEMMA CopyIntoSlot ==
  ASSUME NEW ring \in [Slots -> SlotContents], NEW i \in Slots,
         NEW k \in CellIndices, NEW cell \in Cells
  PROVE  [ring EXCEPT ![i].cells[k] = cell] \in [Slots -> SlotContents]
<1>1. ring[i] \in SlotContents
  OBVIOUS
<1>2. [ring[i] EXCEPT !.cells[k] = cell] \in SlotContents
  BY <1>1 DEF SlotContents
<1> QED
  BY <1>2

(* So does the publication of a slot. *)
LEMMA PublishSlot ==
  ASSUME NEW ring \in [Slots -> SlotContents], NEW i \in Slots,
         NEW size \in 0 .. MaxCells, NEW type \in FrameTypes
  PROVE  [ring EXCEPT ![i].size = size, ![i].frame_type = type]
            \in [Slots -> SlotContents]
<1>1. ring[i] \in SlotContents
  OBVIOUS
<1>2. [ring[i] EXCEPT !.size = size, !.frame_type = type] \in SlotContents
  BY <1>1 DEF SlotContents
<1> QED
  BY <1>2

-----------------------------------------------------------------------------
(* Type correctness. *)

(* TypeOK is inductive together with the sender's loop condition and the   *)
(* fact that the encoder only copies a frame it was given.                 *)
TypeInv ==
  /\ TypeOK
  /\ getPc \in {"count", "store", "info"} => sent = <<>>
  /\ getPc = "send" => Len(sent) < getSize
  /\ putPc = "copy" => putFrame.id \in FrameIds

(* The ring ringmalloc leaves satisfies the type invariant. *)
LEMMA InitType == Init => TypeInv
<1> SUFFICES ASSUME Init PROVE TypeInv
  OBVIOUS
<1>1. Garbage \in Cells
  BY DEF Cells
<1>2. ringfifo \in [Slots -> SlotContents]
  BY <1>1 DEF Init, SlotContents, MaxCells, FrameTypes
<1>3. sent \in Seq(Cells) /\ Len(sent) <= MaxCells
  BY DEF Init, MaxCells
<1>4. 0 \in Slots
  BY RingAssumption DEF Slots
<1>5. putFrame \in [id : 0 .. MaxFrames, type : FrameTypes]
  BY RingAssumption DEF Init, NoFrame, FrameTypes
<1>6. psp \in [sps : Cells, pps : Cells]
  BY <1>1 DEF Init
<1>7. /\ iput \in Slots /\ iget \in Slots /\ n \in Int
      /\ frames \in 0 .. MaxFrames /\ taken \in 0 .. MaxFrames
      /\ putOff \in CellIndices /\ putReg \in Int
      /\ getPos \in Slots /\ getReg \in Int /\ getSize \in 0 .. MaxCells
      /\ putPc = "idle" /\ getPc = "idle"
  BY <1>4, RingAssumption DEF Init, CellIndices, MaxCells
<1>8. /\ stopped \in BOOLEAN /\ held \in Int
      /\ lost \subseteq {"put", "get"} /\ stray \in {"no", "overrun", "underrun"}
  <2>1. stopped = FALSE /\ held = 0 /\ lost = {} /\ stray = "no"
    BY Zenon DEF Init
  <2>2. stopped \in BOOLEAN
    BY <2>1, Zenon
  <2>3. held \in Int
    BY <2>1
  <2>4. lost \subseteq {"put", "get"} /\ stray \in {"no", "overrun", "underrun"}
    BY <2>1, Zenon
  <2> QED
    BY <2>2, <2>3, <2>4
<1> QED
  BY <1>2, <1>3, <1>5, <1>6, <1>7, <1>8 DEF TypeInv, TypeOK

(* Every step of either thread keeps it. *)
LEMMA NextType == TypeInv /\ [Next]_vars => TypeInv'
<1> SUFFICES ASSUME TypeInv, [Next]_vars PROVE TypeInv'
  OBVIOUS
<1> USE RingAssumption DEF TypeInv, TypeOK
<1>1. CASE PutAccept
  <2>1. frames + 1 \in FrameIds
    BY <1>1 DEF PutAccept, FrameIds
  <2> QED
    BY <1>1, <2>1 DEF PutAccept, getVars, historyVars, CellIndices, MaxCells, FrameIds
<1>2. CASE PutDrop
  BY <1>2 DEF PutDrop, getVars, putVars, historyVars
<1>3. CASE PutCopy
  <2> DEFINE nal  == Packs(putFrame.type)[putOff]
             cell == [frame |-> putFrame.id, nal |-> nal]
             next == ringfifo[iput].cells[putOff + 1]
  <2>1. /\ putOff \in 1 .. FrameSize(putFrame)
        /\ FrameSize(putFrame) \in 2 .. MaxCells
        /\ nal \in NalTypes
    <3>1. putOff \in Nat \ {0} /\ putOff <= FrameSize(putFrame)
      BY <1>3 DEF PutCopy, CellIndices
    <3>2. /\ FrameSize(putFrame) \in 2 .. MaxCells
          /\ \A k \in 1 .. FrameSize(putFrame) :
               Packs(putFrame.type)[k] \in NalTypes
      <4>1. putFrame.type \in FrameTypes
        OBVIOUS
      <4> QED
        BY <4>1, FrameShape, Zenon
    <3>3. putOff \in 1 .. FrameSize(putFrame)
      BY <3>1, <3>2 DEF MaxCells
    <3> QED
      BY <3>2, <3>3
  <2>2. putOff + 1 \in CellIndices
    BY <2>1 DEF CellIndices, MaxCells
  <2>3. cell \in Cells
    BY <1>3, <2>1 DEF PutCopy, Cells
  <2>4. ringfifo[iput] \in SlotContents
    OBVIOUS
  <2>5. next \in Cells
    BY <2>2, <2>4 DEF SlotContents
  <2>6. psp' \in [sps : Cells, pps : Cells]
    BY <1>3, <2>5 DEF PutCopy
  <2>7. ringfifo' \in [Slots -> SlotContents]
    BY <1>3, <2>3, CopyIntoSlot DEF PutCopy
  <2> QED
    BY <1>3, <2>2, <2>6, <2>7 DEF PutCopy, getVars
<1>4. CASE PutPublish
  <2>1. FrameSize(putFrame) \in 0 .. MaxCells
    BY FrameShape, 2 \in Nat, MaxCells \in Nat DEF MaxCells
  <2>2. ringfifo' \in [Slots -> SlotContents]
    BY <1>4, <2>1, PublishSlot DEF PutPublish
  <2> QED
    BY <1>4, <2>2, AddringInRing DEF PutPublish, getVars
<1>5. CASE PutLoad
  BY <1>5 DEF PutLoad, ringVars, getVars, historyVars
<1>6. CASE PutStore
  <2>1. lost' \subseteq {"put", "get"}
    BY <1>6 DEF PutStore
  <2> QED
    BY <1>6, <2>1 DEF PutStore, getVars
<1>7. CASE GetSlot
  <2>1. ringfifo[iget].cells[1] \in Cells
    BY DEF SlotContents, CellIndices, MaxCells
  <2>2. ringfifo[iget].cells[1].frame \in 0 .. MaxFrames
    BY <2>1 DEF Cells, Garbage, FrameIds
  <2>3. sent' \in Seq(Cells) /\ Len(sent') <= MaxCells
    BY <1>7 DEF GetSlot, MaxCells
  <2> QED
    BY <1>7, <2>2, <2>3, AddringInRing DEF GetSlot, Take, putVars
<1>8. CASE GetNothing
  BY <1>8 DEF GetNothing, TurnEnds, ringVars, putVars, historyVars
<1>9. CASE GetStore
  <2>1. lost' \subseteq {"put", "get"}
    BY <1>9 DEF GetStore
  <2> QED
    BY <1>9, <2>1 DEF GetStore, putVars
<1>10. CASE GetLoad
  BY <1>10 DEF GetLoad, ringVars, putVars, historyVars
<1>11. CASE GetInfo
  <2>1. ringfifo[getPos].size \in 0 .. MaxCells
    BY DEF SlotContents
  <2> QED
    BY <1>11, <2>1 DEF GetInfo, TurnEnds, ringVars, putVars, historyVars
<1>12. CASE SendCell
  <2>1. Len(sent) + 1 \in CellIndices /\ Len(sent) < MaxCells
    BY <1>12 DEF SendCell, CellIndices, MaxCells
  <2>2. ringfifo[getPos].cells[Len(sent) + 1] \in Cells
    BY <2>1 DEF SlotContents
  <2> QED
    BY <1>12, <2>1, <2>2 DEF SendCell, TurnEnds, ringVars, putVars, historyVars,
                             MaxCells
<1>13. CASE IntHandl
  BY <1>13 DEF IntHandl, ringVars, putVars, getVars, historyVars
<1>14. CASE UNCHANGED vars
  BY <1>14 DEF vars, ringVars, putVars, getVars, historyVars
<1> QED
  BY <1>1, <1>2, <1>3, <1>4, <1>5, <1>6, <1>7, <1>8, <1>9, <1>10, <1>11,
     <1>12, <1>13, <1>14 DEF Next, PutStep, GetStep

(* The ring's indices, slots and counters keep their types in ringmalloc,  *)
(* HisiPutH264DataToBuffer, ringget and schedule_do.                       *)
THEOREM TypeCorrect == Spec => []TypeOK
<1>1. TypeInv => TypeOK
  BY DEF TypeInv
<1> QED
  BY <1>1, InitType, NextType, PTL DEF Spec

(* TypeInv, for use in the other proofs. *)
LEMMA TypeInvAlways == Spec => []TypeInv
BY InitType, NextType, PTL DEF Spec

-----------------------------------------------------------------------------
(* The element count, whatever updates are lost. *)

(* What each program counter of the two threads implies about the count:   *)
(* the encoder passed its n < NMAX test, the sender its n > 0 test, and    *)
(* what either loaded still lies in the range its test established.        *)
CountInv ==
  /\ CountInRange
  /\ putPc \in {"copy", "count"} => n < NMAX
  /\ putPc = "store" => putReg \in 0 .. NMAX - 1
  /\ getPc = "count" => n > 0
  /\ getPc = "store" => getReg \in 1 .. NMAX

(* Every step keeps what bounds the count. *)
LEMMA NextCount == CountInv /\ [Next]_vars => CountInv'
<1> SUFFICES ASSUME CountInv, [Next]_vars PROVE CountInv'
  OBVIOUS
<1> USE RingAssumption DEF CountInv, CountInRange
<1>1. CASE PutAccept
  BY <1>1 DEF PutAccept, getVars
<1>2. CASE PutDrop
  BY <1>2 DEF PutDrop, getVars, putVars
<1>3. CASE PutCopy \/ PutPublish
  BY <1>3 DEF PutCopy, PutPublish, getVars
<1>4. CASE PutLoad
  BY <1>4 DEF PutLoad, ringVars, getVars
<1>5. CASE PutStore
  BY <1>5 DEF PutStore, getVars
<1>6. CASE GetSlot
  BY <1>6 DEF GetSlot, putVars
<1>7. CASE GetStore
  BY <1>7 DEF GetStore, putVars
<1>8. CASE GetLoad
  BY <1>8 DEF GetLoad, ringVars, putVars
<1>9. CASE GetNothing \/ GetInfo \/ SendCell
  BY <1>9 DEF GetNothing, GetInfo, SendCell, TurnEnds, ringVars, putVars
<1>10. CASE IntHandl
  BY <1>10 DEF IntHandl, ringVars, putVars, getVars
<1>11. CASE UNCHANGED vars
  BY <1>11 DEF vars, ringVars, putVars, getVars
<1> QED
  BY <1>1, <1>2, <1>3, <1>4, <1>5, <1>6, <1>7, <1>8, <1>9, <1>10, <1>11
     DEF Next, PutStep, GetStep

(* Whatever updates of n the two threads lose to each other, n stays       *)
(* between 0 and NMAX (the tests in ringget and HisiPutH264DataToBuffer).  *)
THEOREM CountBounded == Spec => []CountInRange
<1>1. Init => CountInv
  BY RingAssumption DEF Init, CountInv, CountInRange
<1>2. CountInv => CountInRange
  BY DEF CountInv
<1> QED
  BY <1>1, <1>2, NextCount, PTL DEF Spec

-----------------------------------------------------------------------------
(* What the slots hold, whatever updates are lost. *)

(* The cells copied so far belong to the frame being put; a published size *)
(* covers written cells only, also when the sender has already read it.    *)
CopiedCells ==
  putPc = "copy" =>
    \A k \in 1 .. putOff - 1 : ringfifo[iput].cells[k].frame = putFrame.id
GotBacked ==
  getPc = "send" =>
    \A k \in 1 .. getSize : ringfifo[getPos].cells[k] # Garbage
SlotsInv == CopiedCells /\ SizeBacked /\ GotBacked /\ NoGarbageSent

(* Every step keeps what is known of the slots' contents. *)
LEMMA NextSlots == TypeInv /\ SlotsInv /\ [Next]_vars => SlotsInv'
<1> SUFFICES ASSUME TypeInv, SlotsInv, [Next]_vars PROVE SlotsInv'
  OBVIOUS
<1> USE DEF SlotsInv
<1>1. CASE PutAccept
  BY <1>1 DEF PutAccept, getVars, CopiedCells, SizeBacked, GotBacked,
              NoGarbageSent
<1>2. CASE PutCopy
  <2> DEFINE cell == [frame |-> putFrame.id, nal |-> Packs(putFrame.type)[putOff]]
  <2>1. putFrame.id # 0 /\ putOff \in Nat \ {0}
    BY <1>2 DEF PutCopy, TypeInv, TypeOK, FrameIds, CellIndices
  <2>2. cell # Garbage /\ cell.frame = putFrame.id
    BY <2>1 DEF Garbage
  <2>3. /\ ringfifo' = [ringfifo EXCEPT ![iput].cells[putOff] = cell]
        /\ putOff' = putOff + 1
        /\ UNCHANGED <<iput, putPc, putFrame, getPc, getPos, getSize, sent>>
    BY <1>2 DEF PutCopy, getVars
  <2>4. /\ iput \in Slots /\ putOff \in CellIndices
        /\ ringfifo \in [Slots -> SlotContents]
        /\ getPos \in Slots /\ getSize \in 0 .. MaxCells
    BY DEF TypeInv, TypeOK
  <2>5. \A i \in Slots, k \in CellIndices :
          /\ ringfifo'[i].size = ringfifo[i].size
          /\ ringfifo'[i].cells[k] = IF i = iput /\ k = putOff
                                       THEN cell ELSE ringfifo[i].cells[k]
    BY <2>3, <2>4 DEF SlotContents
  <2>6. \A i \in Slots : ringfifo[i].size \in 0 .. MaxCells
    BY <2>4 DEF SlotContents
  <2>7. CopiedCells'
    BY <2>1, <2>2, <2>3, <2>4, <2>5 DEF CopiedCells, CellIndices, MaxCells
  <2>8. SizeBacked'
    BY <2>2, <2>5, <2>6 DEF SizeBacked, CellIndices, MaxCells
  <2>9. GotBacked'
    BY <2>2, <2>3, <2>4, <2>5 DEF GotBacked, CellIndices, MaxCells
  <2> QED
    BY <2>3, <2>7, <2>8, <2>9 DEF NoGarbageSent
<1>3. CASE PutPublish
  <2>1. /\ ringfifo' = [ringfifo EXCEPT ![iput].size = FrameSize(putFrame),
                                        ![iput].frame_type = putFrame.type]
        /\ putPc' = "count"
        /\ UNCHANGED <<getPc, getPos, getSize, sent>>
    BY <1>3 DEF PutPublish, getVars
  <2>2. /\ iput \in Slots /\ ringfifo \in [Slots -> SlotContents]
        /\ getPos \in Slots
    BY DEF TypeInv, TypeOK
  <2>3. \A i \in Slots :
          /\ ringfifo'[i].cells = ringfifo[i].cells
          /\ ringfifo'[i].size = IF i = iput THEN FrameSize(putFrame)
                                 ELSE ringfifo[i].size
    BY <2>1, <2>2 DEF SlotContents
  <2>4. \A k \in 1 .. FrameSize(putFrame) : ringfifo[iput].cells[k] # Garbage
    <3>1. putFrame.id # 0 /\ putFrame.type \in FrameTypes /\ putOff \in Nat
      BY <1>3 DEF PutPublish, TypeInv, TypeOK, FrameIds, CellIndices
    <3>2. FrameSize(putFrame) \in Nat /\ FrameSize(putFrame) <= putOff - 1
      BY <1>3, <3>1, FrameShape DEF PutPublish, MaxCells
    <3> QED
      BY <1>3, <3>1, <3>2 DEF PutPublish, CopiedCells, Garbage
  <2> QED
    BY <2>1, <2>2, <2>3, <2>4
       DEF CopiedCells, SizeBacked, GotBacked, NoGarbageSent
<1>4. CASE PutDrop \/ PutLoad \/ PutStore
  BY <1>4 DEF PutDrop, PutLoad, PutStore, ringVars, putVars, getVars,
              CopiedCells, SizeBacked, GotBacked, NoGarbageSent
<1>5. CASE GetSlot
  BY <1>5 DEF GetSlot, putVars,
              CopiedCells, SizeBacked, GotBacked, NoGarbageSent
<1>6. CASE GetNothing \/ GetLoad \/ GetStore
  BY <1>6 DEF GetNothing, GetLoad, GetStore, TurnEnds, ringVars, putVars,
              CopiedCells, SizeBacked, GotBacked, NoGarbageSent
<1>7. CASE GetInfo
  <2>1. getPos \in Slots
    BY DEF TypeInv, TypeOK
  <2> QED
    BY <1>7, <2>1 DEF GetInfo, TurnEnds, ringVars, putVars,
              CopiedCells, SizeBacked, GotBacked, NoGarbageSent
<1>8. CASE SendCell
  <2>1. Len(sent) \in Nat /\ Len(sent) < getSize /\ getSize \in Nat
    BY <1>8 DEF SendCell, TypeInv, TypeOK, MaxCells
  <2>2. ringfifo[getPos].cells[Len(sent) + 1] # Garbage
    BY <1>8, <2>1 DEF SendCell, GotBacked
  <2>3. /\ sent' = Append(sent, ringfifo[getPos].cells[Len(sent) + 1])
        /\ getPc = "send" /\ getPc' \in {"idle", "send", "ended"}
        /\ UNCHANGED <<ringVars, putVars, getPos, getSize>>
    BY <1>8 DEF SendCell, TurnEnds
  <2>4. NoGarbageSent'
    BY <2>1, <2>2, <2>3 DEF NoGarbageSent, TypeInv, TypeOK
  <2> QED
    BY <2>3, <2>4 DEF ringVars, putVars, CopiedCells, SizeBacked, GotBacked
<1>9. CASE IntHandl \/ UNCHANGED vars
  BY <1>9 DEF IntHandl, vars, ringVars, putVars, getVars,
              CopiedCells, SizeBacked, GotBacked, NoGarbageSent
<1> QED
  BY <1>1, <1>2, <1>3, <1>4, <1>5, <1>6, <1>7, <1>8, <1>9
     DEF Next, PutStep, GetStep

(* Lost updates may make the sender take a slot twice, too early or while  *)
(* it is rewritten, but what schedule_do sends never is memory that        *)
(* HisiPutH264DataToBuffer did not write.                                  *)
THEOREM OnlyWrittenDataSent == Spec => [](SizeBacked /\ NoGarbageSent)
<1>1. Init => SlotsInv
  BY DEF Init, SlotsInv, CopiedCells, SizeBacked, GotBacked, NoGarbageSent
<1>2. SlotsInv => SizeBacked /\ NoGarbageSent
  BY DEF SlotsInv
<1> QED
  BY <1>1, <1>2, NextSlots, TypeInvAlways, PTL DEF Spec

-----------------------------------------------------------------------------
(* What lost updates of n can do, and what they cannot. *)

(* While a thread is between its load and its store, the other one can     *)
(* only move n away from what it loaded; and a frame whose copying has     *)
(* begun found a free slot unless the ring has gone astray.                *)
LoadedInv ==
  /\ putPc = "store" => n <= putReg
  /\ getPc = "store" => getReg <= n
CopyRoom == stray = "no" /\ putPc = "copy" /\ putOff > 1 => held < NMAX
StrayInv == StrayOnlyByLostUpdates /\ LoadedInv /\ CopyRoom

(* Once astray, always astray. *)
LEMMA AstrayForGood ==
  ASSUME [Next]_vars, stray' = "no"
  PROVE  stray = "no"
BY DEF Next, PutStep, GetStep, PutAccept, PutDrop, PutCopy, PutPublish,
       PutLoad, PutStore, GetSlot, Take, GetNothing, GetLoad, GetStore,
       GetInfo, SendCell, IntHandl, vars, historyVars

(* Every step keeps what lost updates explain. *)
LEMMA NextStray == TypeInv /\ CountInv /\ StrayInv /\ [Next]_vars => StrayInv'
<1> SUFFICES ASSUME TypeInv, CountInv, StrayInv, [Next]_vars PROVE StrayInv'
  OBVIOUS
<1> USE RingAssumption
<1>0. /\ iput \in 0 .. NMAX - 1 /\ iget \in 0 .. NMAX - 1
      /\ n \in 0 .. NMAX /\ held \in Int /\ putOff \in Nat
      /\ putReg \in Int /\ getReg \in Int
      /\ putPc \in {"copy", "count"} => n < NMAX
      /\ getPc = "count" => n > 0
  BY DEF TypeInv, TypeOK, Slots, CountInv, CountInRange, CellIndices, MaxCells
<1>1. CASE PutAccept \/ PutDrop
  BY <1>0, <1>1 DEF PutAccept, PutDrop, putVars, getVars, historyVars, StrayInv,
     StrayOnlyByLostUpdates, LoadedInv, CopyRoom, Uncounted, PutPending, GetPending
<1>2. CASE PutCopy
  BY <1>0, <1>2 DEF PutCopy, getVars, StrayInv,
     StrayOnlyByLostUpdates, LoadedInv, CopyRoom, Uncounted, PutPending, GetPending
<1>3. CASE PutPublish
  <2>1. putOff > 1
    <3>1. FrameSize(putFrame) \in 2 .. MaxCells
      BY FrameShape DEF TypeInv, TypeOK
    <3> QED
      BY <1>0, <1>3, <3>1 DEF PutPublish, MaxCells
  <2> QED
    BY <1>0, <1>3, <2>1 DEF PutPublish, getVars, StrayInv, addring,
       StrayOnlyByLostUpdates, LoadedInv, CopyRoom, Uncounted, PutPending, GetPending
<1>4. CASE PutLoad
  BY <1>0, <1>4 DEF PutLoad, ringVars, getVars, historyVars, StrayInv,
     StrayOnlyByLostUpdates, LoadedInv, CopyRoom, Uncounted, PutPending, GetPending
<1>5. CASE PutStore
  BY <1>0, <1>5 DEF PutStore, getVars, StrayInv,
     StrayOnlyByLostUpdates, LoadedInv, CopyRoom, Uncounted, PutPending, GetPending
<1>6. CASE GetSlot
  BY <1>0, <1>6 DEF GetSlot, Take, putVars, StrayInv, addring,
     StrayOnlyByLostUpdates, LoadedInv, CopyRoom, Uncounted, PutPending, GetPending
<1>7. CASE GetLoad
  BY <1>0, <1>7 DEF GetLoad, ringVars, putVars, historyVars, StrayInv,
     StrayOnlyByLostUpdates, LoadedInv, CopyRoom, Uncounted, PutPending, GetPending
<1>8. CASE GetStore
  BY <1>0, <1>8 DEF GetStore, putVars, StrayInv,
     StrayOnlyByLostUpdates, LoadedInv, CopyRoom, Uncounted, PutPending, GetPending
<1>9. CASE GetNothing \/ GetInfo \/ SendCell
  BY <1>0, <1>9 DEF GetNothing, GetInfo, SendCell, TurnEnds, ringVars, putVars,
     historyVars, StrayInv,
     StrayOnlyByLostUpdates, LoadedInv, CopyRoom, Uncounted, PutPending, GetPending
<1>10. CASE IntHandl \/ UNCHANGED vars
  BY <1>0, <1>10 DEF IntHandl, vars, ringVars, putVars, getVars, historyVars,
     StrayInv,
     StrayOnlyByLostUpdates, LoadedInv, CopyRoom, Uncounted, PutPending, GetPending
<1> QED
  BY <1>1, <1>2, <1>3, <1>4, <1>5, <1>6, <1>7, <1>8, <1>9, <1>10
     DEF Next, PutStep, GetStep

(* What the empty ring satisfies. *)
LEMMA InitRing == Init => CountInv /\ SlotsInv /\ StrayInv
<1> SUFFICES ASSUME Init PROVE CountInv /\ SlotsInv /\ StrayInv
  OBVIOUS
<1>1. CountInv
  BY RingAssumption DEF Init, CountInv, CountInRange
<1>2. SlotsInv
  BY DEF Init, SlotsInv, CopiedCells, SizeBacked, GotBacked, NoGarbageSent
<1>3. StrayInv
  BY RingAssumption DEF Init, StrayInv, StrayOnlyByLostUpdates, LoadedInv,
     CopyRoom, Uncounted, PutPending, GetPending
<1> QED
  BY <1>1, <1>2, <1>3

(* The invariant the rest of the module works under. *)
RingInv == TypeInv /\ CountInv /\ SlotsInv /\ StrayInv

(* It holds throughout. *)
LEMMA RingInvAlways == Spec => []RingInv
<1>1. Init => RingInv
  BY InitType, InitRing DEF RingInv
<1>2. RingInv /\ [Next]_vars => RingInv'
  BY NextType, NextCount, NextSlots, NextStray DEF RingInv
<1> QED
  BY <1>1, <1>2, PTL DEF Spec

(* n++ (ringfifo.c:205) and n-- (line 87) that overwrite each other are    *)
(* the only source of error: a lost n++ leaves n too low and only then can *)
(* HisiPutH264DataToBuffer write over a frame not taken, a lost n-- leaves *)
(* it too high and only then can ringget take a slot nobody filled again;  *)
(* until then iget and iput delimit at most NMAX frames.                   *)
THEOREM OnlyLostUpdatesStray == Spec => []StrayOnlyByLostUpdates
<1>1. RingInv => StrayOnlyByLostUpdates
  BY DEF RingInv, StrayInv
<1> QED
  BY <1>1, RingInvAlways, PTL

-----------------------------------------------------------------------------
(* The slot the sender works on. *)

(* A slot nobody is copying into holds cells of one frame only; the sender *)
(* works on the slot behind iget, which still holds the frame taken unless *)
(* the ring has been filled since.                                         *)
UniformSlots ==
  \A i \in Slots : ~(putPc = "copy" /\ putOff > 1 /\ i = iput) =>
    \A k \in 1 .. ringfifo[i].size :
      ringfifo[i].cells[k].frame = ringfifo[i].cells[1].frame
SlotBehind == Sending => iget = addring(getPos)
LapInv == UniformSlots /\ SlotBehind /\ RewrittenOnlyByLapping

(* Every step keeps what relates a slot in use to the encoder's lap. *)
LEMMA NextLap == RingInv /\ LapInv /\ [Next]_vars => LapInv'
<1> SUFFICES ASSUME RingInv, LapInv, [Next]_vars PROVE LapInv'
  OBVIOUS
<1> USE RingAssumption DEF LapInv
<1>0. /\ iput \in 0 .. NMAX - 1 /\ iget \in 0 .. NMAX - 1 /\ held \in Int
      /\ getPos \in 0 .. NMAX - 1 /\ putOff \in Nat \ {0}
      /\ ringfifo \in [Slots -> SlotContents]
      /\ stray = "no" => /\ held \in 0 .. NMAX
                         /\ iput = iget + held \/ iput = iget + held - NMAX
      /\ stray = "no" /\ putPc = "copy" /\ putOff > 1 => held < NMAX
      /\ Slots = 0 .. NMAX - 1
      /\ stray' = "no" => stray = "no"
  BY AstrayForGood DEF RingInv, TypeInv, TypeOK, Slots, CellIndices, MaxCells,
     StrayInv, StrayOnlyByLostUpdates, CopyRoom
<1>1. CASE PutAccept
  BY <1>1 DEF PutAccept, getVars, historyVars, UniformSlots, SlotBehind,
              RewrittenOnlyByLapping, SlotIntact, Sending
<1>2. CASE PutCopy
  <2> DEFINE cell == [frame |-> putFrame.id, nal |-> Packs(putFrame.type)[putOff]]
  <2>1. /\ putPc = "copy" /\ putPc' = "copy" /\ putOff' = putOff + 1
        /\ ringfifo' = [ringfifo EXCEPT ![iput].cells[putOff] = cell]
        /\ UNCHANGED <<iput, iget, held, getPc, getPos, taken>>
        /\ stray' = "no" => held < NMAX
    BY <1>0, <1>2 DEF PutCopy, getVars
  <2>2. \A i \in Slots : i # iput => ringfifo'[i] = ringfifo[i]
    BY <1>0, <2>1
  <2>3. UniformSlots'
    BY <1>0, <2>1, <2>2 DEF UniformSlots
  <2>4. SlotBehind'
    BY <2>1 DEF SlotBehind, Sending
  <2>5. RewrittenOnlyByLapping'
    <3>1. CASE getPos = iput
      BY <1>0, <2>1, <3>1 DEF RewrittenOnlyByLapping, SlotBehind, Sending, addring
    <3>2. CASE getPos # iput
      BY <1>0, <2>1, <2>2, <3>2 DEF RewrittenOnlyByLapping, SlotIntact, Sending
    <3> QED
      BY <3>1, <3>2
  <2> QED
    BY <2>3, <2>4, <2>5
<1>3. CASE PutPublish
  <2>1. /\ putPc = "copy" /\ putPc' = "count" /\ held' = held + 1
        /\ ringfifo' = [ringfifo EXCEPT ![iput].size = FrameSize(putFrame),
                                        ![iput].frame_type = putFrame.type]
        /\ UNCHANGED <<iget, getPc, getPos, taken, stray>>
    BY <1>3 DEF PutPublish, getVars
  <2>2. \A i \in Slots :
          /\ i # iput => ringfifo'[i] = ringfifo[i]
          /\ i = iput => /\ ringfifo'[i].cells = ringfifo[i].cells
                         /\ ringfifo'[i].size = FrameSize(putFrame)
    BY <1>0, <2>1 DEF SlotContents
  <2>3. /\ FrameSize(putFrame) \in Nat /\ 1 \in 1 .. FrameSize(putFrame)
        /\ putOff > 1 /\ FrameSize(putFrame) <= putOff - 1
    <3>1. putFrame.type \in FrameTypes
      BY DEF RingInv, TypeInv, TypeOK
    <3>2. FrameSize(putFrame) \in 2 .. MaxCells
      BY <3>1, FrameShape, Zenon
    <3>3. putOff > FrameSize(putFrame)
      BY <1>3 DEF PutPublish
    <3> QED
      BY <1>0, <3>2, <3>3 DEF MaxCells
  <2>4. \A k \in 1 .. FrameSize(putFrame) :
          ringfifo[iput].cells[k].frame = putFrame.id
    BY <1>0, <2>1, <2>3 DEF RingInv, SlotsInv, CopiedCells
  <2>5. UniformSlots'
    <3> SUFFICES ASSUME NEW i \in Slots, NEW k \in 1 .. ringfifo'[i].size
                 PROVE  ringfifo'[i].cells[k].frame = ringfifo'[i].cells[1].frame
      BY DEF UniformSlots
    <3>1. CASE i = iput
      BY <2>2, <2>3, <2>4, <3>1
    <3>2. CASE i # iput
      BY <2>2, <3>2 DEF UniformSlots
    <3> QED
      BY <3>1, <3>2
  <2>6. SlotBehind'
    BY <2>1 DEF SlotBehind, Sending
  <2>7. RewrittenOnlyByLapping'
    <3>1. CASE getPos = iput
      BY <1>0, <2>1, <3>1 DEF RewrittenOnlyByLapping, SlotBehind, Sending, addring
    <3>2. CASE getPos # iput
      BY <1>0, <2>1, <2>2, <3>2 DEF RewrittenOnlyByLapping, SlotIntact, Sending
    <3> QED
      BY <3>1, <3>2
  <2> QED
    BY <2>5, <2>6, <2>7
<1>4. CASE PutDrop \/ PutLoad \/ PutStore
  BY <1>4 DEF PutDrop, PutLoad, PutStore, ringVars, putVars, getVars,
              historyVars, UniformSlots, SlotBehind, RewrittenOnlyByLapping,
              SlotIntact, Sending
<1>5. CASE GetSlot
  <2>1. /\ getPos' = iget /\ iget' = addring(iget)
        /\ taken' = ringfifo[iget].cells[1].frame
        /\ stray' = "no" => held > 0
        /\ UNCHANGED <<ringfifo, iput, putPc, putOff>>
    BY <1>0, <1>5 DEF GetSlot, Take, putVars
  <2>2. stray' = "no" => ~(putPc = "copy" /\ putOff > 1 /\ iget = iput)
    BY <1>0, <2>1
  <2>3. stray' = "no" => SlotIntact'
    BY <1>0, <2>1, <2>2 DEF SlotIntact, UniformSlots
  <2> QED
    BY <2>1, <2>3 DEF UniformSlots, SlotBehind, RewrittenOnlyByLapping
<1>6. CASE GetLoad \/ GetStore
  BY <1>6 DEF GetLoad, GetStore, ringVars, putVars, historyVars, UniformSlots,
              SlotBehind, RewrittenOnlyByLapping, SlotIntact, Sending
<1>7. CASE GetNothing \/ GetInfo \/ SendCell
  BY <1>7 DEF GetNothing, GetInfo, SendCell, TurnEnds, ringVars, putVars,
              historyVars, UniformSlots, SlotBehind, RewrittenOnlyByLapping,
              SlotIntact, Sending
<1>8. CASE IntHandl \/ UNCHANGED vars
  BY <1>8 DEF IntHandl, vars, ringVars, putVars, getVars, historyVars,
              UniformSlots, SlotBehind, RewrittenOnlyByLapping, SlotIntact,
              Sending
<1> QED
  BY <1>1, <1>2, <1>3, <1>4, <1>5, <1>6, <1>7, <1>8
     DEF Next, PutStep, GetStep

(* ringget frees a slot before schedule_do has sent it; as long as no slot *)
(* was overrun or taken empty, the encoder can rewrite it under the sender *)
(* only after filling all NMAX - 1 others, whatever n says.                *)
THEOREM IntactUntilLapped == Spec => []RewrittenOnlyByLapping
<1>1. Init => LapInv
  BY DEF Init, LapInv, UniformSlots, SlotBehind, RewrittenOnlyByLapping, Sending
<1>2. LapInv => RewrittenOnlyByLapping
  BY DEF LapInv
<1> QED
  BY <1>1, <1>2, NextLap, RingInvAlways, PTL DEF Spec

-----------------------------------------------------------------------------
(* The ring as a queue. *)

(* Where the k-th frame of the ring lies, and which frame it is. *)
Place(k) == IF iget + k - 1 < NMAX THEN iget + k - 1 ELSE iget + k - 1 - NMAX
FrameAt(k) == ringfifo[Place(k)].cells[1].frame

(* The frames of the ring are newer than the one taken, the later the      *)
(* newer, and the frame being put is newer than all of them.               *)
Rising ==
  /\ taken <= frames
  /\ \A k \in 1 .. held : FrameAt(k) \in taken + 1 .. frames
  /\ \A j, k \in 1 .. held : j < k => FrameAt(j) < FrameAt(k)
PutNewest ==
  putPc = "copy" =>
    /\ putFrame.id = frames /\ taken < frames
    /\ \A k \in 1 .. held : FrameAt(k) < frames
QueueInv == stray = "no" => Rising /\ PutNewest

(* The remainder of a number below twice the modulus. *)
LEMMA RemainderOnce ==
  ASSUME NEW m \in Nat \ {0}, NEW x \in 0 .. 2 * m - 1
  PROVE  x % m = IF x < m THEN x ELSE x - m
<1>1. PICK q \in Int : x = m * q + (x % m) /\ x % m \in 0 .. m - 1
  <2>1. x \in Nat
    BY SMT
  <2>2. /\ x \div m \in Int /\ x % m \in 0 .. m - 1
        /\ x = m * (x \div m) + (x % m)
    BY <2>1, SMT
  <2> QED BY <2>2, Zenon
<1>2. q = 0 \/ q = 1
  <2>1. ASSUME q >= 2  PROVE FALSE
    <3>1. m * (q - 2) >= 0 /\ m * (q - 2) = m * q - 2 * m /\ m * q \in Int
      BY <2>1, SMT
    <3> QED BY <3>1, <1>1, SMT
  <2>2. ASSUME q <= -1  PROVE FALSE
    <3>1. m * (0 - 1 - q) >= 0 /\ m * (0 - 1 - q) = 0 - m - m * q /\ m * q \in Int
      BY <2>2, SMT
    <3> QED BY <3>1, <1>1, SMT
  <2> QED BY <2>1, <2>2, SMT
<1>3. m * 0 = 0 /\ m * 1 = m
  BY SMT
<1> QED BY <1>1, <1>2, <1>3, SMT

(* The places of a ring are slots of their own, and a frame being put goes *)
(* to the one behind the queue.                                            *)
LEMMA PlacesApart ==
  ASSUME RingInv, stray = "no"
  PROVE  /\ held \in 0 .. NMAX
         /\ \A k \in 1 .. NMAX : Place(k) \in Slots
         /\ \A j, k \in 1 .. NMAX : j # k => Place(j) # Place(k)
         /\ held < NMAX => iput = Place(held + 1)
<1>1. /\ iput \in 0 .. NMAX - 1 /\ iget \in 0 .. NMAX - 1 /\ held \in 0 .. NMAX
      /\ iput = iget + held \/ iput = iget + held - NMAX
      /\ NMAX \in Nat \ {0} /\ Slots = 0 .. NMAX - 1
  BY RingAssumption DEF RingInv, TypeInv, TypeOK, Slots, StrayInv,
     StrayOnlyByLostUpdates
<1> QED
  BY <1>1 DEF Place

(* The queue is what the ring's places hold. *)
LEMMA QueueIsFrames ==
  ASSUME RingInv, stray = "no"
  PROVE  Queue = [k \in 1 .. held |-> FrameAt(k)]
<1>1. NMAX \in Nat \ {0} /\ iget \in 0 .. NMAX - 1 /\ held \in 0 .. NMAX
  BY RingAssumption, PlacesApart DEF RingInv, TypeInv, TypeOK, Slots
<1>2. ASSUME NEW x \in 0 .. 2 * NMAX - 1
      PROVE  x % NMAX = IF x < NMAX THEN x ELSE x - NMAX
  BY <1>1, RemainderOnce
<1>3. ASSUME NEW k \in 1 .. held
      PROVE  (iget + k - 1) % NMAX = Place(k)
  <2>1. PICK x \in 0 .. 2 * NMAX - 1 : x = iget + k - 1
    BY <1>1
  <2>2. Place(k) = IF x < NMAX THEN x ELSE x - NMAX
    BY <1>1, <2>1 DEF Place
  <2>3. x % NMAX = IF x < NMAX THEN x ELSE x - NMAX
    BY <1>2
  <2> QED BY <2>1, <2>2, <2>3
<1> QED
  BY <1>3 DEF Queue, FrameAt

(* Frames keep their places while iget stays and their slots do. *)
LEMMA FramesStay ==
  ASSUME RingInv, stray = "no", iget' = iget,
         \A i \in Slots : ringfifo'[i].cells[1].frame = ringfifo[i].cells[1].frame
                           \/ (held < NMAX /\ i = iput)
  PROVE  \A k \in 1 .. held : FrameAt(k)' = FrameAt(k)
<1>1. \A k : Place(k)' = Place(k)
  BY DEF Place
<1>2. SUFFICES ASSUME NEW k \in 1 .. held  PROVE FrameAt(k)' = FrameAt(k)
  OBVIOUS
<1>3. /\ k \in 1 .. NMAX /\ Place(k) \in Slots
      /\ held < NMAX => held + 1 \in 1 .. NMAX /\ k # held + 1 /\ iput # Place(k)
  BY PlacesApart, RingAssumption
<1> QED
  BY <1>1, <1>3 DEF FrameAt

(* What the steps do to the frames of the ring: PutPublish puts one in,    *)
(* GetSlot takes one out, every other step leaves them alone.              *)
LEMMA StepOnQueue ==
  ASSUME RingInv, [Next]_vars, stray' = "no"
  PROVE  \/ /\ held' = held /\ taken' = taken /\ iget' = iget
            /\ \A k \in 1 .. held : FrameAt(k)' = FrameAt(k)
            /\ \/ putPc' = "copy" /\ putPc = "copy" /\ frames' = frames
                  /\ putFrame' = putFrame
               \/ putPc' = "copy" /\ putPc # "copy"
                  /\ frames' = frames + 1 /\ putFrame'.id = frames'
               \/ putPc' # "copy" /\ frames' \in {frames, frames + 1}
         \/ /\ putPc = "copy" /\ putPc' # "copy"
            /\ held < NMAX /\ held' = held + 1
            /\ taken' = taken /\ frames' = frames /\ iget' = iget
            /\ \A k \in 1 .. held : FrameAt(k)' = FrameAt(k)
            /\ FrameAt(held)' = putFrame.id
         \/ /\ held > 0 /\ held' = held - 1
            /\ UNCHANGED <<putPc, putFrame, frames>>
            /\ taken' = FrameAt(1)
            /\ \A k \in 1 .. held - 1 : FrameAt(k)' = FrameAt(k + 1)
<1> USE RingAssumption
<1>0. /\ stray = "no" /\ held \in 0 .. NMAX /\ putOff \in Nat
      /\ putPc \in {"idle", "copy", "count", "store"}
      /\ ringfifo \in [Slots -> SlotContents] /\ iput \in Slots
      /\ iget \in Slots
  BY AstrayForGood, PlacesApart DEF RingInv, TypeInv, TypeOK, CellIndices, MaxCells
<1>1. CASE PutAccept \/ PutDrop
  <2>1. /\ UNCHANGED <<ringfifo, held, taken, iget>> /\ putPc = "idle"
        /\ \/ putPc' = "idle" /\ frames' = frames + 1
           \/ putPc' = "copy" /\ frames' = frames + 1 /\ putFrame'.id = frames'
    BY <1>1 DEF PutAccept, PutDrop, getVars, putVars, historyVars
  <2> QED
    BY <1>0, <2>1, FramesStay
<1>2. CASE PutCopy
  <2>1. /\ UNCHANGED <<held, taken, iget, putPc, putFrame, frames>>
        /\ putPc = "copy" /\ held < NMAX
        /\ \A i \in Slots : i # iput => ringfifo'[i] = ringfifo[i]
    BY <1>0, <1>2 DEF PutCopy, getVars
  <2> QED
    BY <1>0, <2>1, FramesStay
<1>3. CASE PutPublish
  <2>1. /\ UNCHANGED <<taken, putFrame, frames, iget>>
        /\ putPc = "copy" /\ putPc' = "count" /\ held' = held + 1
        /\ ringfifo' = [ringfifo EXCEPT ![iput].size = FrameSize(putFrame),
                                        ![iput].frame_type = putFrame.type]
    BY <1>3 DEF PutPublish, getVars
  <2>2. \A i \in Slots : ringfifo'[i].cells = ringfifo[i].cells
    BY <1>0, <2>1 DEF SlotContents
  <2>3. putOff > 2
    <3>1. FrameSize(putFrame) \in 2 .. MaxCells
      BY FrameShape DEF RingInv, TypeInv, TypeOK
    <3> QED
      BY <1>0, <1>3, <3>1 DEF PutPublish, MaxCells
  <2>4. held < NMAX
    BY <1>0, <2>1, <2>3 DEF RingInv, StrayInv, CopyRoom
  <2>5. \A k \in 1 .. held : FrameAt(k)' = FrameAt(k)
    BY <1>0, <2>1, <2>2, FramesStay
  <2>6. ringfifo[iput].cells[1].frame = putFrame.id
    BY <1>0, <2>1, <2>3 DEF RingInv, SlotsInv, CopiedCells
  <2>7. iput = Place(held + 1)
    BY <1>0, <2>4, PlacesApart
  <2>8. FrameAt(held)' = putFrame.id
    <3>1. PICK m \in Nat : m = held + 1
      BY <1>0
    <3>2. Place(m)' = Place(m)
      BY <2>1 DEF Place
    <3>3. FrameAt(m)' = ringfifo'[iput].cells[1].frame
      BY <2>7, <3>1, <3>2 DEF FrameAt
    <3>4. FrameAt(m)' = putFrame.id
      BY <1>0, <2>2, <2>6, <3>3
    <3>5. FrameAt(held)' = FrameAt(m)'
      BY <2>1, <3>1 DEF FrameAt, Place
    <3> QED
      BY <3>4, <3>5
  <2> QED
    BY <2>1, <2>4, <2>5, <2>8
<1>4. CASE GetSlot
  <2>1. /\ UNCHANGED <<ringfifo, putPc, putFrame, frames>>
        /\ iget' = addring(iget) /\ held' = held - 1 /\ held > 0
        /\ taken' = ringfifo[iget].cells[1].frame
    BY <1>0, <1>4 DEF GetSlot, Take, putVars
  <2>2. taken' = FrameAt(1)
    BY <1>0, <2>1 DEF FrameAt, Place, Slots
  <2>3. ASSUME NEW k \in 1 .. held - 1  PROVE FrameAt(k)' = FrameAt(k + 1)
    <3>1. k \in Nat /\ k > 0 /\ k < NMAX
      BY <1>0
    <3>2. Place(k)' = Place(k + 1)
      BY <1>0, <2>1, <3>1 DEF Place, addring, Slots
    <3> QED
      BY <2>1, <3>2 DEF FrameAt
  <2> QED
    BY <2>1, <2>2, <2>3
<1>5. CASE PutLoad \/ PutStore
  <2>1. /\ UNCHANGED <<ringfifo, held, taken, iget, frames>>
        /\ putPc' # "copy"
    BY <1>5 DEF PutLoad, PutStore, ringVars, getVars, historyVars
  <2> QED
    BY <1>0, <2>1, FramesStay
<1>6. CASE \/ GetNothing \/ GetLoad \/ GetStore \/ GetInfo \/ SendCell
           \/ IntHandl \/ UNCHANGED vars
  <2>1. UNCHANGED <<ringfifo, held, taken, iget, putPc, putFrame, frames>>
    BY <1>6 DEF GetNothing, GetLoad, GetStore, GetInfo, SendCell, IntHandl,
       vars, ringVars, putVars, historyVars
  <2> QED
    BY <1>0, <2>1, FramesStay
<1> QED
  BY <1>1, <1>2, <1>3, <1>4, <1>5, <1>6 DEF Next, PutStep, GetStep

(* Every step keeps the order of the frames. *)
LEMMA NextQueue == RingInv /\ QueueInv /\ [Next]_vars => QueueInv'
<1> SUFFICES ASSUME RingInv, QueueInv, [Next]_vars, stray' = "no"
             PROVE  Rising' /\ PutNewest'
  BY DEF QueueInv
<1>1. /\ frames \in Nat /\ taken \in Nat /\ held \in 0 .. NMAX
      /\ stray = "no" /\ NMAX \in Nat
  BY AstrayForGood, PlacesApart, RingAssumption DEF RingInv, TypeInv, TypeOK
<1>2. /\ taken <= frames
      /\ \A k \in 1 .. held : FrameAt(k) \in taken + 1 .. frames
      /\ \A j, k \in 1 .. held : j < k => FrameAt(j) < FrameAt(k)
      /\ putPc = "copy" => /\ putFrame.id = frames /\ taken < frames
                           /\ \A k \in 1 .. held : FrameAt(k) < frames
  BY <1>1 DEF QueueInv, Rising, PutNewest
<1>3. CASE /\ held' = held /\ taken' = taken
           /\ \A k \in 1 .. held : FrameAt(k)' = FrameAt(k)
           /\ \/ putPc' = "copy" /\ putPc = "copy" /\ frames' = frames
                 /\ putFrame' = putFrame
              \/ putPc' = "copy" /\ putPc # "copy"
                 /\ frames' = frames + 1 /\ putFrame'.id = frames'
              \/ putPc' # "copy" /\ frames' \in {frames, frames + 1}
  <2>1. Rising'
    BY <1>1, <1>2, <1>3 DEF Rising
  <2>2. PutNewest'
    BY <1>1, <1>2, <1>3 DEF PutNewest
  <2> QED
    BY <2>1, <2>2
<1>4. CASE /\ putPc = "copy" /\ putPc' # "copy"
           /\ held < NMAX /\ held' = held + 1
           /\ taken' = taken /\ frames' = frames
           /\ \A k \in 1 .. held : FrameAt(k)' = FrameAt(k)
           /\ FrameAt(held)' = putFrame.id
  <2>1. PICK m \in Nat : m = held + 1
    BY <1>1
  <2>2. FrameAt(m)' = frames
    <3>1. FrameAt(held)' = FrameAt(m)'
      BY <1>4, <2>1 DEF FrameAt, Place
    <3> QED
      BY <1>2, <1>4, <3>1
  <2>3. \A k \in 1 .. m : k \in 1 .. held \/ k = m
    BY <1>1, <2>1
  <2>4. \A k \in 1 .. m : FrameAt(k)' \in taken + 1 .. frames
    BY <1>1, <1>2, <1>4, <2>2, <2>3
  <2>5. ASSUME NEW j \in 1 .. m, NEW k \in 1 .. m, j < k
        PROVE  FrameAt(j)' < FrameAt(k)'
    <3>1. j \in 1 .. held
      BY <1>1, <2>1, <2>5
    <3>2. CASE k = m
      BY <1>2, <1>4, <2>2, <3>1, <3>2
    <3>3. CASE k # m
      BY <1>2, <1>4, <2>3, <2>5, <3>1, <3>3
    <3> QED
      BY <3>2, <3>3
  <2>6. Rising'
    BY <1>2, <1>4, <2>1, <2>4, <2>5 DEF Rising
  <2> QED
    BY <1>4, <2>6 DEF PutNewest
<1>5. CASE /\ held > 0 /\ held' = held - 1
           /\ UNCHANGED <<putPc, putFrame, frames>>
           /\ taken' = FrameAt(1)
           /\ \A k \in 1 .. held - 1 : FrameAt(k)' = FrameAt(k + 1)
  <2>1. 1 \in 1 .. held
    BY <1>1, <1>5
  <2>2. \A k \in 1 .. held - 1 : k + 1 \in 1 .. held /\ 1 < k + 1
    BY <1>1
  <2>3. FrameAt(1) \in taken + 1 .. frames /\ taken' \in Nat
    BY <1>1, <1>2, <1>5, <2>1
  <2>4. \A k \in 1 .. held - 1 : FrameAt(k)' \in taken' + 1 .. frames
    BY <1>1, <1>2, <1>5, <2>1, <2>2, <2>3
  <2>5. \A j, k \in 1 .. held - 1 : j < k => FrameAt(j)' < FrameAt(k)'
    BY <1>1, <1>2, <1>5, <2>2
  <2>6. Rising'
    BY <1>1, <1>5, <2>3, <2>4, <2>5 DEF Rising
  <2>7. PutNewest'
    BY <1>1, <1>2, <1>5, <2>1, <2>2 DEF PutNewest
  <2> QED
    BY <2>6, <2>7
<1> QED
  BY <1>3, <1>4, <1>5, StepOnQueue

(* The order of the frames, throughout. *)
LEMMA QueueInvAlways == Spec => []QueueInv
<1>1. Init => QueueInv
  <2> SUFFICES ASSUME Init PROVE QueueInv
    OBVIOUS
  <2>1. taken = 0 /\ frames = 0 /\ held = 0 /\ putPc = "idle"
    BY DEF Init
  <2> QED
    BY <2>1 DEF QueueInv, Rising, PutNewest
<1> QED
  BY <1>1, NextQueue, RingInvAlways, PTL DEF Spec

(* Up to the first overrun or underrun, schedule_do takes frames in the    *)
(* order HisiPutH264DataToBuffer put them, no frame twice and none older   *)
(* than the last, also when updates of n have been lost.                   *)
THEOREM TakenInOrderAlways == Spec => TakenInOrder
<1>1. RingInv /\ QueueInv /\ [Next]_vars
      => [stray' = "no" /\ iget' # iget => taken' > taken]_vars
  <2> SUFFICES ASSUME RingInv, QueueInv, [Next]_vars, stray' = "no", iget' # iget
               PROVE  taken' > taken
    OBVIOUS
  <2>1. stray = "no" /\ held \in Nat /\ taken \in Nat
    BY AstrayForGood, PlacesApart DEF RingInv, TypeInv, TypeOK
  <2>2. held > 0 /\ taken' = FrameAt(1)
    BY StepOnQueue
  <2>3. FrameAt(1) \in taken + 1 .. frames
    BY <2>1, <2>2 DEF QueueInv, Rising
  <2> QED
    BY <2>1, <2>2, <2>3
<1> QED
  BY <1>1, RingInvAlways, QueueInvAlways, PTL DEF Spec, TakenInOrder

(* What the ring holds after any step is a sequence of frames or zeros,    *)
(* also when it has gone astray.                                           *)
LEMMA QueueShape ==
  ASSUME TypeInv
  PROVE  Queue \in Seq(FrameIds \cup {0}) /\ taken \in FrameIds \cup {0}
<1>1. /\ NMAX \in Nat \ {0} /\ iget \in 0 .. NMAX - 1 /\ held \in Int
      /\ ringfifo \in [0 .. NMAX - 1 -> SlotContents]
      /\ taken \in 0 .. MaxFrames /\ MaxFrames \in Nat
  BY RingAssumption DEF TypeInv, TypeOK, Slots
<1>2. taken \in FrameIds \cup {0}
  BY <1>1 DEF FrameIds
<1>3. ASSUME NEW i \in 0 .. NMAX - 1
      PROVE  ringfifo[i].cells[1].frame \in FrameIds \cup {0}
  <2>1. ringfifo[i].cells[1] \in Cells
    BY <1>1 DEF SlotContents, CellIndices, MaxCells
  <2> QED
    BY <2>1 DEF Cells, Garbage
<1>4. ASSUME NEW k \in 1 .. held
      PROVE  Queue[k] \in FrameIds \cup {0}
  <2>1. PICK x \in Nat : x = iget + k - 1
    BY <1>1
  <2>2. x % NMAX \in 0 .. NMAX - 1
    BY <1>1, <2>1
  <2>3. Queue[k] = ringfifo[x % NMAX].cells[1].frame
    BY <2>1 DEF Queue
  <2> QED
    BY <1>3, <2>2, <2>3
<1>5. PICK len \in Nat : 1 .. held = 1 .. len
  <2>1. CASE held \in Nat
    BY <2>1
  <2>2. CASE held \notin Nat
    <3>1. 1 .. held = 1 .. 0
      BY <1>1, <2>2
    <3> QED
      BY <3>1
  <2> QED
    BY <2>1, <2>2
<1>6. Queue \in [1 .. len -> FrameIds \cup {0}]
  BY <1>4, <1>5 DEF Queue
<1> QED
  BY <1>2, <1>6

(* Every step of the ring is a put, a get or no step of the queue until    *)
(* the ring goes astray.                                                   *)
LEMMA StepIsQueueStep ==
  ASSUME RingInv, RingInv', QueueInv, [Next]_vars
  PROVE  [AbstractQueue!Next]_AbstractQueue!vars
<1> USE RingAssumption
<1>1. CASE stray' # "no"
  <2>1. Queue' \in Seq(FrameIds \cup {0}) /\ taken' \in FrameIds \cup {0}
    <3>1. (TypeInv => Queue \in Seq(FrameIds \cup {0})
                     /\ taken \in FrameIds \cup {0})'
      BY QueueShape, PTL
    <3>2. TypeInv'
      BY DEF RingInv
    <3> QED
      BY <3>1, <3>2
  <2>2. (stray = "no")' = FALSE
    BY <1>1, Zenon
  <2>3. AbstractQueue!Abandon
    BY <2>1, <2>2, Zenon DEF AbstractQueue!Abandon
  <2> QED
    BY <2>3, Zenon DEF AbstractQueue!Next
<1>2. CASE stray' = "no"
  <2>1. /\ stray = "no" /\ held \in 0 .. NMAX /\ held' \in 0 .. NMAX
        /\ Queue = [k \in 1 .. held |-> FrameAt(k)]
        /\ frames \in FrameIds \cup {0} /\ taken \in Nat
    <3>1. stray = "no"
      BY <1>2, AstrayForGood
    <3>2. (RingInv /\ stray = "no" => held \in 0 .. NMAX)'
      BY PlacesApart, PTL
    <3>3. held \in 0 .. NMAX /\ Queue = [k \in 1 .. held |-> FrameAt(k)]
      BY <3>1, PlacesApart, QueueIsFrames
    <3>4. frames \in FrameIds \cup {0} /\ taken \in Nat
      BY DEF RingInv, TypeInv, TypeOK, FrameIds
    <3> QED
      BY <1>2, <3>1, <3>2, <3>3, <3>4
  <2>2. (stray = "no")' = (stray = "no")
    BY <1>2, <2>1, Zenon
  <2>3. Queue' = [k \in 1 .. held' |-> FrameAt(k)']
    <3>1. RingInv' /\ (stray = "no")' => (Queue = [k \in 1 .. held |-> FrameAt(k)])'
      BY QueueIsFrames, PTL
    <3> QED
      BY <1>2, <3>1
  <2>4. /\ Queue \in Seq(Nat) /\ Len(Queue) = held
        /\ \A k \in 1 .. held : Queue[k] = FrameAt(k)
    <3>1. \A k \in 1 .. held : FrameAt(k) \in Nat
      BY <2>1 DEF QueueInv, Rising, FrameIds
    <3> QED
      BY <2>1, <3>1
  <2>5. CASE /\ held' = held /\ taken' = taken
             /\ \A k \in 1 .. held : FrameAt(k)' = FrameAt(k)
    <3>1. Queue' = Queue /\ taken' = taken
      BY <2>1, <2>3, <2>5
    <3> QED
      BY <2>2, <3>1, Zenon DEF AbstractQueue!vars
  <2>6. CASE /\ putPc = "copy"
             /\ held < NMAX /\ held' = held + 1 /\ taken' = taken
             /\ \A k \in 1 .. held : FrameAt(k)' = FrameAt(k)
             /\ FrameAt(held)' = putFrame.id
    <3>1. /\ putFrame.id = frames /\ taken < frames
          /\ \A k \in 1 .. held : FrameAt(k) < frames
      BY <2>1, <2>6 DEF QueueInv, PutNewest
    <3>2. frames \in FrameIds /\ frames \in Nat
      BY <2>1, <3>1 DEF FrameIds
    <3>3. PICK m \in Nat : m = held + 1
      BY <2>1
    <3>4. FrameAt(m)' = frames
      <4>1. FrameAt(held)' = FrameAt(m)'
        BY <2>6, <3>3 DEF FrameAt, Place
      <4> QED
        BY <2>6, <3>1, <4>1
    <3>5. Queue' = Append(Queue, frames)
      <4>1. \A k \in 1 .. m : k \in 1 .. held \/ k = m
        BY <2>1, <3>3
      <4>2. Queue' = [k \in 1 .. m |-> IF k = m THEN frames ELSE FrameAt(k)]
        BY <2>1, <2>3, <2>6, <3>3, <3>4, <4>1
      <4>3. Append(Queue, frames)
              = [k \in 1 .. m |-> IF k = m THEN frames ELSE FrameAt(k)]
        BY <2>1, <2>4, <3>2, <3>3, <4>1
      <4> QED
        BY <4>2, <4>3
    <3>6. frames > AbstractQueue!Newest
      BY <2>1, <2>4, <3>1, <3>2 DEF AbstractQueue!Newest
    <3>7. Len(Queue) < NMAX
      BY <2>4, <2>6
    <3>8. AbstractQueue!Put
      BY <2>1, <2>2, <2>6, <3>2, <3>5, <3>6, <3>7, Zenon DEF AbstractQueue!Put
    <3> QED
      BY <3>8, Zenon DEF AbstractQueue!Next
  <2>7. CASE /\ held > 0 /\ held' = held - 1 /\ taken' = FrameAt(1)
             /\ \A k \in 1 .. held - 1 : FrameAt(k)' = FrameAt(k + 1)
    <3>1. Queue # <<>> /\ Head(Queue) = FrameAt(1)
      <4>1. Len(Queue) > 0 /\ 1 \in 1 .. held
        BY <2>1, <2>4, <2>7
      <4>2. Queue # <<>> /\ Head(Queue) = Queue[1]
        BY <4>1, <2>4
      <4> QED
        BY <4>1, <4>2, <2>4
    <3>2. Tail(Queue) = [k \in 1 .. held - 1 |-> FrameAt(k + 1)]
      BY <2>1, <2>4, <2>7, <3>1
    <3>3. Queue' = [k \in 1 .. held - 1 |-> FrameAt(k + 1)]
      BY <2>1, <2>3, <2>7
    <3>4. Queue' = Tail(Queue) /\ taken' = Head(Queue)
      BY <2>7, <3>1, <3>2, <3>3
    <3>5. AbstractQueue!Get
      BY <2>1, <2>2, <3>1, <3>4, Zenon DEF AbstractQueue!Get
    <3> QED
      BY <3>5, Zenon DEF AbstractQueue!Next
  <2> QED
    BY <1>2, <2>5, <2>6, <2>7, StepOnQueue
<1> QED
  BY <1>1, <1>2

(* HisiPutH264DataToBuffer and ringget implement a bounded queue until the *)
(* first overrun or underrun: a put takes effect when iput moves, a get    *)
(* when iget does, and a frame refused by a full count (ringfifo.c:141)    *)
(* changes nothing.                                                        *)
THEOREM QueueImplemented == Spec => ImplementsQueue
<1>1. Init => AbstractQueue!Init
  <2> SUFFICES ASSUME Init PROVE AbstractQueue!Init
    OBVIOUS
  <2>1. held = 0 /\ taken = 0 /\ stray = "no"
    BY Zenon DEF Init
  <2>2. Queue = <<>>
    BY <2>1 DEF Queue
  <2>3. (stray = "no") = TRUE
    BY <2>1, Zenon
  <2> QED
    BY <2>1, <2>2, <2>3, Zenon DEF AbstractQueue!Init
<1>2. RingInv /\ RingInv' /\ QueueInv /\ [Next]_vars
      => [AbstractQueue!Next]_AbstractQueue!vars
  BY StepIsQueueStep
<1> QED
  BY <1>1, <1>2, RingInvAlways, QueueInvAlways, PTL
     DEF Spec, ImplementsQueue, AbstractQueue!Spec

=============================================================================
