------------------------------ MODULE RingFifo ------------------------------
(***************************************************************************)
(* The frame ring between the encoder thread and the RTP sender thread of  *)
(* the RTSP camera server (hisi-rtsp/src/ringfifo.c, its producer in       *)
(* sample_comm_venc.c and its consumer schedule_do in rtsputils.c).        *)
(*                                                                         *)
(* One thread puts whole encoded frames, one thread gets them; the ring,   *)
(* its two indices and its element count are plain globals that no lock    *)
(* protects (the mutex rtspservice.c declares is never taken).  A step is  *)
(* therefore as small as what the other thread can see in between: the     *)
(* copy of one cell, the publication of a slot, the load and the store     *)
(* that n++ and n-- are on ARM.                                            *)
(*                                                                         *)
(* A frame is a sequence of cells, the unit of copying: an I frame is an   *)
(* SPS, a PPS and a picture, a P frame two cells of slice data.  A cell    *)
(* remembers the frame it came from, which is all its bytes can tell.      *)
(***************************************************************************)
EXTENDS Integers, Sequences

CONSTANTS
  NMAX,        \* slots of the ring (32 in the code)
  MaxFrames    \* bound: frames the encoder produces in a behaviour

ASSUME RingAssumption ==
  /\ NMAX \in Nat \ {0}
  /\ MaxFrames \in Nat

VARIABLES
  ringfifo,    \* the slots: their cells, size and frame_type
  iput, iget,  \* where the next frame goes, where the next one is taken
  n,           \* the element count
  psp,         \* the parameter sets DESCRIBE hands to clients
  frames,      \* how many frames the encoder has produced so far
  putPc, putFrame, putOff, putReg,   \* the encoder thread
  getPc, getPos, getReg, getSize,    \* the sender thread
  sent,        \* the cells of the current frame sent so far
  stopped,     \* stop_schedule
  held,        \* history: slots published and not yet taken
  taken,       \* history: the frame in the slot last taken
  lost,        \* history: the updates of n that were overwritten
  stray        \* history: the first wrong use of the indices

putVars == <<putPc, putFrame, putOff, putReg>>
getVars == <<getPc, getPos, getReg, getSize, sent>>
ringVars == <<ringfifo, iput, iget, n, psp, frames>>
historyVars == <<held, taken, lost, stray>>
vars == <<ringVars, putVars, getVars, stopped, historyVars>>

Slots == 0 .. NMAX - 1
FrameIds == 1 .. MaxFrames
FrameTypes == {"I", "P"}
NalTypes == {"sps", "pps", "idr", "slice"}

(* The longest frame, and one cell more: UpdateSps reads behind its pack. *)
MaxCells == 3
CellIndices == 1 .. MaxCells + 1

(* malloc'd memory nobody wrote yet. *)
Garbage == [frame |-> 0, nal |-> "none"]
Cells == [frame : FrameIds, nal : NalTypes] \cup {Garbage}
SlotContents == [cells : [CellIndices -> Cells],
                 size : 0 .. MaxCells, frame_type : FrameTypes]

(* The packs of a frame, in the order the encoder delivers them. *)
Packs(type) ==
  IF type = "I" THEN <<"sps", "pps", "idr">> ELSE <<"slice", "slice">>

FrameSize(frame) == Len(Packs(frame.type))

NoFrame == [id |-> 0, type |-> "P"]

(* Mutant: the index does not wrap. *)
AddringNoWrap(i) == i + 1

addring(i) == IF i + 1 = NMAX THEN 0 ELSE i + 1

-----------------------------------------------------------------------------

(* ringmalloc(), before either thread runs. *)
Init ==
  /\ ringfifo = [i \in Slots |-> [cells |-> [k \in CellIndices |-> Garbage],
                                  size |-> 0, frame_type |-> "I"]]
  /\ iput = 0 /\ iget = 0 /\ n = 0
  /\ psp = [sps |-> Garbage, pps |-> Garbage]
  /\ frames = 0
  /\ putPc = "idle" /\ putFrame = NoFrame /\ putOff = 1 /\ putReg = 0
  /\ getPc = "idle" /\ getPos = 0 /\ getReg = 0 /\ getSize = 0
  /\ sent = <<>> /\ stopped = FALSE
  /\ held = 0 /\ taken = 0 /\ lost = {} /\ stray = "no"

-----------------------------------------------------------------------------
(* The encoder thread: HisiPutH264DataToBuffer for every frame. *)

(* Mutant: n <= NMAX for n < NMAX. *)
PutAcceptOverfull ==
  /\ putPc = "idle" /\ frames < MaxFrames
  /\ n <= NMAX
  /\ \E type \in FrameTypes : putFrame' = [id |-> frames + 1, type |-> type]
  /\ frames' = frames + 1
  /\ putOff' = 1
  /\ putPc' = "copy"
  /\ UNCHANGED <<ringfifo, iput, iget, n, psp, putReg, getVars, stopped,
                 historyVars>>

(* The ring has room: the frame will go to slot iput. *)
PutAccept ==
  /\ putPc = "idle" /\ frames < MaxFrames
  /\ n < NMAX
  /\ \E type \in FrameTypes : putFrame' = [id |-> frames + 1, type |-> type]
  /\ frames' = frames + 1
  /\ putOff' = 1
  /\ putPc' = "copy"
  /\ UNCHANGED <<ringfifo, iput, iget, n, psp, putReg, getVars, stopped,
                 historyVars>>

(* Mutant: a dropped frame uses up a slot. *)
PutDropAdvances ==
  /\ putPc = "idle" /\ frames < MaxFrames
  /\ ~(n < NMAX)
  /\ frames' = frames + 1
  /\ iput' = addring(iput)
  /\ UNCHANGED <<ringfifo, iget, n, psp, putVars, getVars, stopped,
                 historyVars>>

(* The ring is full: the frame is dropped without a trace. *)
PutDrop ==
  /\ putPc = "idle" /\ frames < MaxFrames
  /\ ~(n < NMAX)
  /\ frames' = frames + 1
  /\ UNCHANGED <<ringfifo, iput, iget, n, psp, putVars, getVars, stopped,
                 historyVars>>

(* memcpy of the next cell.  off has already moved behind the pack when    *)
(* UpdateSps or UpdatePps is called, so what they encode is whatever the   *)
(* slot held there before this frame.  With no slot free but a count that  *)
(* says otherwise, the cell goes over a frame not yet taken.               *)
PutCopy ==
  /\ putPc = "copy"
  /\ putOff <= FrameSize(putFrame)
  /\ LET nal  == Packs(putFrame.type)[putOff]
         cell == [frame |-> putFrame.id, nal |-> nal]
         next == ringfifo[iput].cells[putOff + 1]
     IN  /\ ringfifo' = [ringfifo EXCEPT ![iput].cells[putOff] = cell]
         /\ psp' = [sps |-> IF nal = "sps" THEN next ELSE psp.sps,
                    pps |-> IF nal = "pps" THEN next ELSE psp.pps]
  /\ putOff' = putOff + 1
  /\ stray' = IF stray = "no" /\ held >= NMAX THEN "overrun" ELSE stray
  /\ UNCHANGED <<iput, iget, n, frames, putPc, putFrame, putReg, getVars,
                 stopped, held, taken, lost>>

(* Mutant: the loop over the packs stops one short. *)
PutPublishEarly ==
  /\ putPc = "copy"
  /\ putOff >= FrameSize(putFrame)
  /\ ringfifo' = [ringfifo EXCEPT ![iput].size = FrameSize(putFrame),
                                  ![iput].frame_type = putFrame.type]
  /\ iput' = addring(iput)
  /\ held' = held + 1
  /\ putPc' = "count"
  /\ UNCHANGED <<iget, n, psp, frames, putFrame, putOff, putReg, getVars,
                 stopped, taken, lost, stray>>

(* size, frame_type and the move of iput. *)
PutPublish ==
  /\ putPc = "copy"
  /\ putOff > FrameSize(putFrame)
  /\ ringfifo' = [ringfifo EXCEPT ![iput].size = FrameSize(putFrame),
                                  ![iput].frame_type = putFrame.type]
  /\ iput' = addring(iput)
  /\ held' = held + 1
  /\ putPc' = "count"
  /\ UNCHANGED <<iget, n, psp, frames, putFrame, putOff, putReg, getVars,
                 stopped, taken, lost, stray>>

(* n++: a load ... *)
PutLoad ==
  /\ putPc = "count"
  /\ putReg' = n
  /\ putPc' = "store"
  /\ UNCHANGED <<ringVars, putFrame, putOff, getVars, stopped, historyVars>>

(* ... and a store of the value loaded then, plus one.  What the sender    *)
(* subtracted in between is lost.                                          *)
PutStore ==
  /\ putPc = "store"
  /\ n' = putReg + 1
  /\ lost' = lost \cup (IF n # putReg THEN {"get"} ELSE {})
  /\ putPc' = "idle"
  /\ UNCHANGED <<ringfifo, iput, iget, psp, frames, putFrame, putOff, putReg,
                 getVars, stopped, held, taken, stray>>

-----------------------------------------------------------------------------
(* The sender thread: schedule_do and ringget. *)

(* The test of stop_schedule at the end of a turn of the loop. *)
TurnEnds == IF stopped THEN "ended" ELSE "idle"

(* What taking the slot at iget means for the history. *)
Take ==
  /\ held' = held - 1
  /\ taken' = ringfifo[iget].cells[1].frame
  /\ stray' = IF stray = "no" /\ held <= 0 THEN "underrun" ELSE stray
  /\ UNCHANGED lost

(* Mutant: iget moves before its slot is remembered. *)
GetSlotMovedFirst ==
  /\ getPc = "idle"
  /\ n > 0
  /\ iget' = addring(iget)
  /\ getPos' = iget'
  /\ sent' = <<>>
  /\ getPc' = "count"
  /\ Take
  /\ UNCHANGED <<ringfifo, iput, n, psp, frames, putVars, getReg, getSize,
                 stopped>>

(* Mutant: n > 1 for n > 0. *)
GetSlotKeepsOne ==
  /\ getPc = "idle"
  /\ n > 1
  /\ getPos' = iget
  /\ iget' = addring(iget)
  /\ sent' = <<>>
  /\ getPc' = "count"
  /\ Take
  /\ UNCHANGED <<ringfifo, iput, n, psp, frames, putVars, getReg, getSize,
                 stopped>>

(* ringget finds n > 0: it remembers the slot and moves iget. *)
GetSlot ==
  /\ getPc = "idle"
  /\ n > 0
  /\ getPos' = iget
  /\ iget' = addring(iget)
  /\ sent' = <<>>
  /\ getPc' = "count"
  /\ Take
  /\ UNCHANGED <<ringfifo, iput, n, psp, frames, putVars, getReg, getSize,
                 stopped>>

(* ringget finds n = 0: the turn is over. *)
GetNothing ==
  /\ getPc = "idle"
  /\ ~(n > 0)
  /\ getPc' = TurnEnds
  /\ UNCHANGED <<ringVars, putVars, getPos, getReg, getSize, sent, stopped,
                 historyVars>>

(* n--, a load and a store like n++. *)
GetLoad ==
  /\ getPc = "count"
  /\ getReg' = n
  /\ getPc' = "store"
  /\ UNCHANGED <<ringVars, putVars, getPos, getSize, sent, stopped,
                 historyVars>>

GetStore ==
  /\ getPc = "store"
  /\ n' = getReg - 1
  /\ lost' = lost \cup (IF n # getReg THEN {"put"} ELSE {})
  /\ getPc' = "info"
  /\ UNCHANGED <<ringfifo, iput, iget, psp, frames, putVars, getPos, getReg,
                 getSize, sent, stopped, held, taken, stray>>

(* getinfo: the slot's buffer is handed out, not copied.  A size of 0 is   *)
(* taken for an empty ring.                                                *)
GetInfo ==
  /\ getPc = "info"
  /\ getSize' = ringfifo[getPos].size
  /\ getPc' = IF getSize' = 0 THEN TurnEnds ELSE "send"
  /\ UNCHANGED <<ringVars, putVars, getPos, getReg, sent, stopped,
                 historyVars>>

(* RtpSend works through the slot's buffer while the slot counts as free. *)
SendCell ==
  /\ getPc = "send"
  /\ sent' = Append(sent, ringfifo[getPos].cells[Len(sent) + 1])
  /\ getPc' = IF Len(sent') = getSize THEN TurnEnds ELSE "send"
  /\ UNCHANGED <<ringVars, putVars, getPos, getReg, getSize, stopped,
                 historyVars>>

(* SIGINT: the sender is to end, the encoder is not told. *)
IntHandl ==
  /\ ~stopped
  /\ stopped' = TRUE
  /\ UNCHANGED <<ringVars, putVars, getVars, historyVars>>

-----------------------------------------------------------------------------

PutStep == PutCopy \/ PutPublish \/ PutLoad \/ PutStore
GetStep == GetSlot \/ GetNothing \/ GetLoad \/ GetStore \/ GetInfo \/ SendCell

Next == PutAccept \/ PutDrop \/ PutStep \/ GetStep \/ IntHandl

Spec == Init /\ [][Next]_vars

(* Both threads are scheduled: the encoder thread finishes a frame it      *)
(* started (new frames come when the camera has them) and schedule_do goes *)
(* on until it has seen stop_schedule.                                     *)
FairSpec == Spec /\ WF_vars(PutStep) /\ WF_vars(GetStep)

-----------------------------------------------------------------------------
(* Properties. *)

TypeOK ==
  /\ ringfifo \in [Slots -> SlotContents]
  /\ iput \in Slots /\ iget \in Slots /\ n \in Int
  /\ psp \in [sps : Cells, pps : Cells]
  /\ frames \in 0 .. MaxFrames
  /\ putPc \in {"idle", "copy", "count", "store"}
  /\ putFrame \in [id : 0 .. MaxFrames, type : FrameTypes]
  /\ putOff \in CellIndices /\ putReg \in Int
  /\ getPc \in {"idle", "count", "store", "info", "send", "ended"}
  /\ getPos \in Slots /\ getReg \in Int /\ getSize \in 0 .. MaxCells
  /\ sent \in Seq(Cells) /\ Len(sent) <= MaxCells
  /\ stopped \in BOOLEAN /\ held \in Int /\ taken \in 0 .. MaxFrames
  /\ lost \subseteq {"put", "get"} /\ stray \in {"no", "overrun", "underrun"}

(* The count stays a possible element count whatever updates get lost:     *)
(* ringget's n > 0 and ringput's n < NMAX are tested by the only thread    *)
(* that lowers, respectively raises it.                                    *)
CountInRange == n \in 0 .. NMAX

(* What n should be at this moment: the slots published and not taken,     *)
(* those whose n++ or n-- is still under way left out or in.               *)
PutPending == IF putPc \in {"count", "store"} THEN 1 ELSE 0
GetPending == IF getPc \in {"count", "store"} THEN 1 ELSE 0
Uncounted == held - (n + PutPending - GetPending)

(* "The total number of elements in the ring" (ringfifo.c:14): n and the   *)
(* frames between iget and iput agree, up to the updates under way.        *)
CountIsOccupancy == Uncounted = 0

(* n errs only by updates that were overwritten, and in their direction,   *)
(* and only a count that errs leads the threads astray: the encoder writes *)
(* over a frame not taken only after a lost n++, the sender takes a slot   *)
(* not filled again only after a lost n--, and until then the indices      *)
(* delimit the frames held.                                                *)
StrayOnlyByLostUpdates ==
  /\ Uncounted > 0 => "put" \in lost
  /\ Uncounted < 0 => "get" \in lost
  /\ stray = "overrun" => "put" \in lost
  /\ stray = "underrun" => "get" \in lost
  /\ stray = "no" => /\ held \in 0 .. NMAX
                     /\ iput = iget + held \/ iput = iget + held - NMAX

(* A slot's first size cells were written before size says so: what is     *)
(* sent may be stale or mixed, but it never is memory nobody wrote.        *)
SizeBacked ==
  \A i \in Slots : \A k \in 1 .. ringfifo[i].size :
    ringfifo[i].cells[k] # Garbage

NoGarbageSent ==
  \A k \in 1 .. Len(sent) : sent[k] # Garbage

(* While the sender works on a slot it has already given back, the encoder *)
(* can be rewriting it only after it filled every other slot: within       *)
(* NMAX - 1 frames of the get, what is sent is the frame taken.            *)
Sending == getPc \in {"count", "store", "info", "send"}
SlotIntact ==
  \A k \in 1 .. ringfifo[getPos].size :
     ringfifo[getPos].cells[k].frame = taken
RewrittenOnlyByLapping ==
  stray = "no" /\ Sending /\ ~SlotIntact => held >= NMAX - 1

(* DESCRIBE's parameter sets are those of the latest I frame, the SPS from *)
(* its first byte on ("sps[0] 0x67", rtspservice.c:2055).                  *)
ParameterSetsCurrent ==
  putPc = "count" /\ putFrame.type = "I" =>
    psp = [sps |-> [frame |-> putFrame.id, nal |-> "sps"],
           pps |-> [frame |-> putFrame.id, nal |-> "pps"]]

(* Frames are taken in the order they were encoded, none of them twice,    *)
(* whatever n says, as long as no slot was overrun or taken empty.         *)
TakenInOrder == [][stray' = "no" /\ iget' # iget => taken' > taken]_vars

(* What the ring holds, oldest first. *)
Queue == [k \in 1 .. held |-> ringfifo[(iget + k - 1) % NMAX].cells[1].frame]

(* How many of them ringget will still find: what n says once the n-- of   *)
(* the sender is done.                                                     *)
Counted ==
  CASE getPc = "count" -> n - 1
    [] getPc = "store" -> getReg - 1
    [] OTHER -> n

(* Every frame n counts is taken, unless schedule_do ends or the ring has  *)
(* gone astray.  (A frame whose n++ was lost waits for later ones.)        *)
EveryCountedFrameTaken ==
  \A f \in FrameIds :
    (\E k \in DOMAIN Queue : k <= Counted /\ Queue[k] = f)
      ~> (taken = f \/ getPc = "ended" \/ stray # "no")

=============================================================================
