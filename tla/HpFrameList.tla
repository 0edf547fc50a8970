----------------------------- MODULE HpFrameList -----------------------------
(***************************************************************************)
(* The list of packs between the two media threads of hp-ipc               *)
(* (hisi-mpp/sample/hp-ipc/src/rtsp_server.c): the encoder's thread adds   *)
(* each pack of a frame at the tail (saveStream), vdRTPSendThread sends    *)
(* and frees the first one.  The list is the circular doubly linked one of *)
(* hisi-osdrv2/include/list.h, and the threads take no lock: every load    *)
(* and store of a link that the other thread can see is a step.            *)
(*                                                                         *)
(* A node is freed and allocated again as malloc pleases, its links stay   *)
(* in memory until then.  Packs are numbered in the order they are added.  *)
(***************************************************************************)
EXTENDS Integers

CONSTANTS
  Nodes,     \* the addresses malloc can return
  Anchor,    \* &RTPbuf_head
  MaxPacks   \* bound: packs of a behaviour

ASSUME ListAssumption == Anchor \notin Nodes /\ MaxPacks \in Nat

VARIABLES
  next, prev,  \* the links, of the head and of every address
  heap,        \* the nodes that are allocated
  pack,        \* the pack in each node
  packed,      \* packs added so far
  taken,       \* history: the last pack the sender took
  enc,         \* saveStream: its place, the new node, the tail it read
  snd,         \* vdRTPSendThread: its place, the entry, the links it read
  clash        \* history: the last entry was unlinked while one was added

listVars == <<next, prev, heap, pack, packed, taken, enc, snd, clash>>

Links == Nodes \cup {Anchor}

ListInit ==
  /\ next = [n \in Links |-> n] /\ prev = [n \in Links |-> n]
  /\ heap = {}
  /\ pack = [n \in Nodes |-> 0]
  /\ packed = 0 /\ taken = 0
  /\ enc = [pc |-> "idle", new |-> Anchor, tail |-> Anchor]
  /\ snd = [pc |-> "idle", entry |-> Anchor, prev |-> Anchor, next |-> Anchor]
  /\ clash = FALSE

Adding == enc.pc \in {"front", "publish"}
(* The sender has read that its entry is the last one. *)
Emptying == snd.pc \in {"back", "forth"} /\ snd.next = Anchor

-----------------------------------------------------------------------------
(* saveStream, once it has found a client SENDING. *)

StartFrame ==
  /\ enc.pc = "idle" /\ packed < MaxPacks
  /\ enc' = [enc EXCEPT !.pc = "pack"]
  /\ UNCHANGED <<next, prev, heap, pack, packed, taken, snd, clash>>

(* malloc, INIT_LIST_HEAD, the copy, and list_add_tail reads head->prev. *)
NewPack ==
  /\ enc.pc = "pack"
  /\ \E n \in Nodes \ heap :
       /\ heap' = heap \cup {n}
       /\ next' = [next EXCEPT ![n] = n]
       /\ prev' = [prev EXCEPT ![n] = n]
       /\ pack' = [pack EXCEPT ![n] = packed + 1]
       /\ enc' = [pc |-> "front", new |-> n, tail |-> prev[Anchor]]
  /\ packed' = packed + 1
  /\ clash' = (clash \/ Emptying)
  /\ UNCHANGED <<taken, snd>>

(* Mutant: the new node goes in at the front. *)
AddAtFront ==
  /\ enc.pc = "front"
  /\ prev' = [prev EXCEPT ![next[Anchor]] = enc.new, ![enc.new] = Anchor]
  /\ next' = [next EXCEPT ![enc.new] = next[Anchor]]
  /\ enc' = [enc EXCEPT !.pc = "publish", !.tail = Anchor]
  /\ UNCHANGED <<heap, pack, packed, taken, snd, clash>>

(* next->prev = _new; _new->next = next; _new->prev = prev. *)
AddFront ==
  /\ enc.pc = "front"
  /\ prev' = [prev EXCEPT ![Anchor] = enc.new, ![enc.new] = enc.tail]
  /\ next' = [next EXCEPT ![enc.new] = Anchor]
  /\ enc' = [enc EXCEPT !.pc = "publish"]
  /\ UNCHANGED <<heap, pack, packed, taken, snd, clash>>

(* Mutant: the last store of list_add_tail is missing. *)
AddPublishNothing ==
  /\ enc.pc = "publish"
  /\ \E pc \in {"idle"} \cup IF packed < MaxPacks THEN {"pack"} ELSE {} :
       enc' = [pc |-> pc, new |-> Anchor, tail |-> Anchor]
  /\ UNCHANGED <<next, prev, heap, pack, packed, taken, snd, clash>>

(* prev->next = _new; another pack of the frame, or none. *)
AddPublish ==
  /\ enc.pc = "publish"
  /\ next' = [next EXCEPT ![enc.tail] = enc.new]
  /\ \E pc \in {"idle"} \cup IF packed < MaxPacks THEN {"pack"} ELSE {} :
       enc' = [pc |-> pc, new |-> Anchor, tail |-> Anchor]
  /\ UNCHANGED <<prev, heap, pack, packed, taken, snd, clash>>

-----------------------------------------------------------------------------
(* vdRTPSendThread. *)

(* list_empty, get_first_item; VENC_Sent goes over the pack. *)
Take ==
  /\ snd.pc = "idle" /\ next[Anchor] # Anchor
  /\ snd' = [snd EXCEPT !.pc = "send", !.entry = next[Anchor]]
  /\ taken' = IF next[Anchor] \in Nodes THEN pack[next[Anchor]] ELSE taken
  /\ UNCHANGED <<next, prev, heap, pack, packed, enc, clash>>

(* VENC_Sent returns; list_del reads entry->prev and entry->next. *)
DelRead ==
  /\ snd.pc = "send"
  /\ snd' = [snd EXCEPT !.pc = "back", !.prev = prev[snd.entry],
                                       !.next = next[snd.entry]]
  /\ clash' = (clash \/ (Adding /\ next[snd.entry] = Anchor))
  /\ UNCHANGED <<next, prev, heap, pack, packed, taken, enc>>

(* Mutant: the entry after the one taken keeps its link to it. *)
DelKeepsBack ==
  /\ snd.pc = "back"
  /\ snd' = [snd EXCEPT !.pc = "forth"]
  /\ UNCHANGED <<next, prev, heap, pack, packed, taken, enc, clash>>

(* next->prev = prev. *)
DelBack ==
  /\ snd.pc = "back"
  /\ prev' = [prev EXCEPT ![snd.next] = snd.prev]
  /\ snd' = [snd EXCEPT !.pc = "forth"]
  /\ UNCHANGED <<next, heap, pack, packed, taken, enc, clash>>

(* prev->next = next; free. *)
DelForth ==
  /\ snd.pc = "forth"
  /\ next' = [next EXCEPT ![snd.prev] = snd.next]
  /\ heap' = heap \ {snd.entry}
  /\ snd' = [pc |-> "idle", entry |-> Anchor, prev |-> Anchor, next |-> Anchor]
  /\ UNCHANGED <<prev, pack, packed, taken, enc, clash>>

ListNext == \/ StartFrame \/ NewPack \/ AddFront \/ AddPublish
            \/ Take \/ DelRead \/ DelBack \/ DelForth

ListSpec == ListInit /\ [][ListNext]_listVars

-----------------------------------------------------------------------------
(* Properties. *)

(* The links always lead to the head or to an address of the heap, and the *)
(* sender is never ahead of the encoder.                                   *)
ListTypeOK ==
  /\ next \in [Links -> Links] /\ prev \in [Links -> Links]
  /\ heap \subseteq Nodes /\ pack \in [Nodes -> 0 .. MaxPacks]
  /\ packed \in 0 .. MaxPacks /\ taken \in 0 .. packed
  /\ enc \in [pc : {"idle", "pack", "front", "publish"}, new : Links, tail : Links]
  /\ snd \in [pc : {"idle", "send", "back", "forth"}, entry : Links,
              prev : Links, next : Links]
  /\ clash \in BOOLEAN

(* As long as the sender never unlinks the last pack while another one is  *)
(* added behind it, the two threads need no lock: packs are sent in order  *)
(* and each once, neither thread writes through or sends a node that was   *)
(* freed, and between two frames an empty list means that all were sent.   *)
ListSound ==
  ~clash =>
    /\ (snd.pc = "idle" /\ next[Anchor] # Anchor) => pack[next[Anchor]] = taken + 1
    /\ snd.pc # "idle" => snd.entry \in heap
    /\ Adding => enc.tail \in heap \cup {Anchor}
    /\ (enc.pc = "idle" /\ snd.pc = "idle") => (next[Anchor] = Anchor <=> taken = packed)

=============================================================================
