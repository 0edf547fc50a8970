----------------------------- MODULE HpIpcProofs -----------------------------
(***************************************************************************)
(* What is proved of hp-ipc: of its list of packs and of its pipeline by   *)
(* themselves, and of the process as a whole, where every step is a step   *)
(* of each part or leaves it alone, so that what was proved of the parts   *)
(* holds in the process.                                                   *)
(***************************************************************************)
EXTENDS HpIpc, HpRtspProofs

-----------------------------------------------------------------------------
(* The list of packs.                                                      *)

(* The packs in the heap are Lo to packed; those up to Linked are reached  *)
(* from the head, the one that is being added is not.                      *)
Lo == IF snd.pc = "idle" THEN taken + 1 ELSE taken
Linked == IF Adding THEN packed - 1 ELSE packed
Carries(n, k) == n \in heap /\ pack[n] = k

Numbered ==
  /\ \A n \in heap : Lo <= pack[n]
  /\ \A m, n \in heap : pack[m] = pack[n] => m = n
  /\ taken <= Linked

(* Each pack leads to the next, the last one to the head; the head to the  *)
(* first, if there is one.                                                 *)
Forward ==
  /\ \A n \in heap : pack[n] < Linked => Carries(next[n], pack[n] + 1)
  /\ \A n \in heap : pack[n] = Linked => next[n] = Anchor
  /\ IF Lo <= Linked THEN Carries(next[Anchor], Lo) ELSE next[Anchor] = Anchor

(* The first pack leads back to the head, and so does the second when the  *)
(* first is all but unlinked; the head leads back to the last.             *)
Backward ==
  /\ \A n \in heap :
       /\ pack[n] = Lo \/ (snd.pc = "forth" /\ pack[n] = taken + 1)
       /\ ~(enc.pc = "front" /\ n = enc.new)
       => prev[n] = Anchor
  /\ IF enc.pc = "publish" THEN prev[Anchor] = enc.new
     ELSE IF Lo <= Linked /\ ~(snd.pc = "forth" /\ snd.next = Anchor)
       THEN Carries(prev[Anchor], Linked)
       ELSE prev[Anchor] = Anchor

(* While a pack is added its predecessor stays the last one.               *)
Encoder ==
  Adding =>
    /\ Carries(enc.new, packed)
    /\ IF Lo <= Linked THEN Carries(enc.tail, Linked) ELSE enc.tail = Anchor
    /\ enc.pc = "publish" => next[enc.new] = Anchor

(* While a pack is unlinked it stays the first one, and what it led to     *)
(* stays what it leads to.                                                 *)
Sender ==
  /\ snd.pc # "idle" => Carries(snd.entry, taken)
  /\ snd.pc \in {"back", "forth"} =>
       /\ snd.prev = Anchor /\ snd.next = next[snd.entry]
       /\ Adding => snd.next # Anchor

Chain == Numbered /\ Forward /\ Backward /\ Encoder /\ Sender

(* Whatever has happened to the links, packs are numbered as they come.    *)
Counted ==
  /\ \A n \in Nodes : pack[n] <= packed
  /\ enc.pc = "pack" => packed < MaxPacks

ListInv == ListTypeOK /\ Counted /\ (~clash => Chain)

-----------------------------------------------------------------------------

Encoders == [pc : {"idle", "pack", "front", "publish"}, new : Links, tail : Links]
Senders == [pc : {"idle", "send", "back", "forth"}, entry : Links, prev : Links,
            next : Links]

(* The types by name.                                                      *)
LEMMA ListTyped ==
  ASSUME ListTypeOK
  PROVE  /\ next \in [Links -> Links] /\ prev \in [Links -> Links]
         /\ heap \subseteq Nodes /\ pack \in [Nodes -> 0 .. MaxPacks]
         /\ packed \in 0 .. MaxPacks /\ taken \in 0 .. packed
         /\ enc \in Encoders /\ snd \in Senders
         /\ clash \in BOOLEAN
  BY Zenon DEF ListTypeOK, Encoders, Senders

(* The numbers the chain is made of are integers.                          *)
LEMMA ListNumbers ==
  ASSUME ListTypeOK
  PROVE  /\ packed \in Int /\ taken \in Int /\ Lo \in Int /\ Linked \in Int
         /\ \A n \in heap : n \in Nodes /\ n # Anchor /\ pack[n] \in Int
         /\ Anchor \in Links /\ Nodes \subseteq Links
<1>1. packed \in Int /\ taken \in Int
  BY ListTyped, ListAssumption
<1>2. \A n \in heap : n \in Nodes /\ n # Anchor /\ pack[n] \in Int
  BY ListTyped, ListAssumption
<1> QED BY <1>1, <1>2 DEF Lo, Linked, Links

-----------------------------------------------------------------------------

(* malloc's node is none of those that are linked; the tail that is read   *)
(* is the last one, unless the sender is about to unlink it.               *)
LEMMA ChainNewPack ==
  ASSUME ListTypeOK, Counted, Chain, NewPack, ~clash'
  PROVE  Chain'
<1>1. PICK n \in Nodes \ heap :
        /\ heap' = heap \cup {n}
        /\ next' = [next EXCEPT ![n] = n]
        /\ prev' = [prev EXCEPT ![n] = n]
        /\ pack' = [pack EXCEPT ![n] = packed + 1]
        /\ enc' = [pc |-> "front", new |-> n, tail |-> prev[Anchor]]
  BY Zenon DEF NewPack
<1>2. /\ enc.pc = "pack" /\ packed' = packed + 1 /\ UNCHANGED <<taken, snd>>
      /\ ~Emptying
  BY DEF NewPack
<1>3. /\ ~Adding /\ Linked = packed /\ Adding' /\ Linked' = packed
      /\ Lo' = Lo
  BY <1>1, <1>2, ListNumbers DEF Adding, Linked, Lo
<1>4. /\ next \in [Links -> Links] /\ prev \in [Links -> Links]
      /\ pack \in [Nodes -> 0 .. MaxPacks] /\ packed \in Int /\ Lo \in Int
      /\ n \in Links /\ Anchor # n /\ Anchor \in Links
  BY ListTyped, ListNumbers, ListAssumption
<1>5. /\ pack'[n] = packed + 1 /\ next'[n] = n /\ prev'[n] = n
      /\ \A m \in Nodes \ {n} : pack'[m] = pack[m]
      /\ \A m \in Links \ {n} : next'[m] = next[m] /\ prev'[m] = prev[m]
  BY <1>1, <1>4
<1>6. \A m \in heap : /\ m # n /\ m \in Nodes /\ m \in Links /\ pack[m] \in Int
                      /\ pack[m] <= packed /\ Lo <= pack[m]
  BY <1>1, ListNumbers DEF Counted, Chain, Numbered
<1>7. \A m, k : Carries(m, k) => Carries(m, k)'
  BY <1>1, <1>5, <1>6 DEF Carries
<1>8. Numbered'
  <2>1. \A m \in heap' : Lo <= pack'[m]
    <3>1. Lo <= packed + 1
      BY <1>3, ListNumbers DEF Chain, Numbered, Lo
    <3> QED BY <1>1, <1>5, <1>6, <3>1
  <2>2. \A k, m \in heap' : pack'[k] = pack'[m] => k = m
    <3>1. \A m \in heap : pack'[m] # packed + 1
      BY <1>4, <1>5, <1>6
    <3> QED BY <1>1, <1>5, <1>6, <3>1 DEF Chain, Numbered
  <2>3. taken' <= Linked'
    BY <1>2, <1>3 DEF Chain, Numbered
  <2> QED BY <1>3, <2>1, <2>2, <2>3 DEF Numbered
<1>9. Forward'
  <2>1. \A m \in heap : pack[m] < Linked => Carries(next[m], pack[m] + 1)'
    BY <1>5, <1>6, <1>7 DEF Chain, Forward
  <2>2. \A m \in heap : pack[m] = Linked => next'[m] = Anchor
    BY <1>5, <1>6 DEF Chain, Forward
  <2>3. IF Lo <= Linked THEN Carries(next[Anchor], Lo)' ELSE next'[Anchor] = Anchor
    BY <1>3, <1>4, <1>5, <1>7 DEF Chain, Forward
  <2> QED BY <1>1, <1>3, <1>4, <1>5, <1>6, <2>1, <2>2, <2>3 DEF Forward
<1>10. Backward'
  <2>1. ASSUME NEW m \in heap',
               pack'[m] = Lo' \/ (snd'.pc = "forth" /\ pack'[m] = taken' + 1),
               ~(enc'.pc = "front" /\ m = enc'.new)
        PROVE  prev'[m] = Anchor
    <3>1. m # n
      BY <1>1, <2>1
    <3>2. m \in heap /\ pack'[m] = pack[m] /\ prev'[m] = prev[m]
      BY <1>1, <1>5, <1>6, <2>1, <3>1
    <3>3. enc.pc # "front"
      BY <1>2
    <3> QED BY <1>2, <1>3, <2>1, <3>2, <3>3 DEF Chain, Backward
  <2>2. enc'.pc = "front" /\ prev'[Anchor] = prev[Anchor]
    BY <1>1, <1>4, <1>5
  <2>3. IF Lo <= Linked /\ ~(snd.pc = "forth" /\ snd.next = Anchor)
          THEN Carries(prev[Anchor], Linked) ELSE prev[Anchor] = Anchor
    BY <1>2 DEF Chain, Backward
  <2>4. IF (Lo <= Linked /\ ~(snd.pc = "forth" /\ snd.next = Anchor))'
          THEN Carries(prev[Anchor], Linked)' ELSE prev'[Anchor] = Anchor
    BY <1>2, <1>3, <1>7, <2>2, <2>3
  <2> QED BY <2>1, <2>2, <2>4 DEF Backward
<1>11. IF Lo <= Linked THEN Carries(prev[Anchor], Linked) ELSE prev[Anchor] = Anchor
  BY <1>2 DEF Chain, Backward, Emptying
<1>12. Encoder'
  <2>1. enc'.pc = "front" /\ enc'.new = n /\ enc'.tail = prev[Anchor]
    BY <1>1
  <2>2. n \in heap' /\ pack'[n] = packed + 1
    BY <1>1, <1>5
  <2>3. ASSUME NEW m, Carries(m, Linked)
        PROVE  m \in heap' /\ pack'[m] = packed
    BY <1>1, <1>3, <1>5, <1>6, <2>3 DEF Carries
  <2>4. IF Lo' <= Linked' THEN Carries(enc.tail, Linked)' ELSE enc'.tail = Anchor
    BY <1>3, <1>11, <2>1, <2>3 DEF Carries
  <2>5. Carries(enc.new, packed)'
    BY <1>2, <2>1, <2>2 DEF Carries
  <2> QED BY <2>1, <2>4, <2>5 DEF Encoder
<1>13. Sender'
  <2>1. snd.pc # "idle" => snd.entry \in heap' /\ pack'[snd.entry] = taken
    BY <1>1, <1>5, <1>6 DEF Chain, Sender, Carries
  <2>2. snd.pc \in {"back", "forth"} =>
          snd.prev = Anchor /\ snd.next = next'[snd.entry] /\ snd.next # Anchor
    <3>1. snd.pc \in {"back", "forth"} => snd.entry \in heap
      BY DEF Chain, Sender, Carries
    <3> QED BY <1>2, <1>5, <1>6, <3>1 DEF Chain, Sender, Emptying
  <2> QED BY <1>2, <2>1, <2>2 DEF Sender, Carries
<1> QED BY <1>8, <1>9, <1>10, <1>12, <1>13 DEF Chain
(* The new node leads to the head, and the head back to it; no node leads  *)
(* to it yet.                                                              *)
LEMMA ChainAddFront ==
  ASSUME ListTypeOK, Counted, Chain, AddFront
  PROVE  Chain'
<1> DEFINE n == enc.new
<1>1. /\ enc.pc = "front" /\ enc'.pc = "publish" /\ enc'.new = n
      /\ enc'.tail = enc.tail
      /\ prev' = [prev EXCEPT ![Anchor] = n, ![n] = enc.tail]
      /\ next' = [next EXCEPT ![n] = Anchor]
      /\ UNCHANGED <<heap, pack, packed, taken, snd>>
  <2>1. enc \in Encoders
    BY ListTyped
  <2> QED BY <2>1 DEF AddFront, Encoders
<1>2. /\ Adding /\ Linked = packed - 1 /\ Adding' /\ Linked' = Linked /\ Lo' = Lo
  BY <1>1 DEF Adding, Linked, Lo
<1>3. Carries(n, packed) /\ n \in heap /\ pack[n] = packed
  BY <1>2 DEF Chain, Encoder, Carries
<1>4. /\ next \in [Links -> Links] /\ prev \in [Links -> Links]
      /\ packed \in Int /\ Lo \in Int
      /\ n \in Links /\ Anchor # n /\ Anchor \in Links
  BY <1>3, ListTyped, ListNumbers
<1> HIDE DEF n
<1>5. /\ next'[n] = Anchor /\ prev'[n] = enc.tail /\ prev'[Anchor] = n
      /\ \A m \in Links \ {n} : next'[m] = next[m]
      /\ \A m \in Links \ {n, Anchor} : prev'[m] = prev[m]
  BY <1>1, <1>4
<1>6. \A m \in heap : /\ m # Anchor /\ m \in Links /\ pack[m] \in Int
                      /\ Lo <= pack[m] /\ (pack[m] <= Linked => m # n)
  BY <1>2, <1>3, <1>4, ListNumbers DEF Chain, Numbered
<1>7. \A m, k : Carries(m, k)' <=> Carries(m, k)
  BY <1>1 DEF Carries
<1>8. Numbered'
  BY <1>1, <1>2, Zenon DEF Chain, Numbered
<1>9. Forward'
  <2>1. \A m \in heap : pack[m] < Linked => Carries(next[m], pack[m] + 1)'
    BY <1>1, <1>2, <1>4, <1>5, <1>6, <1>7 DEF Chain, Forward
  <2>2. \A m \in heap : pack[m] = Linked => next'[m] = Anchor
    BY <1>2, <1>4, <1>5, <1>6 DEF Chain, Forward
  <2>3. IF Lo <= Linked THEN Carries(next[Anchor], Lo)' ELSE next'[Anchor] = Anchor
    BY <1>2, <1>4, <1>5, <1>7 DEF Chain, Forward
  <2> QED BY <1>1, <1>2, <2>1, <2>2, <2>3 DEF Forward, Carries
<1>10. IF Lo <= Linked THEN Carries(enc.tail, Linked) ELSE enc.tail = Anchor
  BY <1>2 DEF Chain, Encoder
<1>11. ~(snd.pc = "forth" /\ packed = taken + 1)
  <2>1. SUFFICES ASSUME snd.pc = "forth", packed = taken + 1 PROVE FALSE
    OBVIOUS
  <2>2. Carries(snd.entry, taken) /\ snd.next = next[snd.entry] /\ snd.next # Anchor
    BY <1>2, <2>1 DEF Chain, Sender
  <2>3. taken = Linked
    BY <1>2, <2>1, ListNumbers
  <2> QED BY <2>2, <2>3 DEF Chain, Forward, Carries
<1>12. Backward'
  <2>1. ASSUME NEW m \in heap,
               pack[m] = Lo \/ (snd.pc = "forth" /\ pack[m] = taken + 1)
        PROVE  prev'[m] = Anchor
    <3>1. CASE m # n
      <4>1. ~(enc.pc = "front" /\ m = enc.new)
        BY <3>1 DEF n
      <4>2. prev[m] = Anchor
        BY <2>1, <4>1 DEF Chain, Backward
      <4> QED BY <1>5, <1>6, <3>1, <4>2
    <3>2. CASE m = n
      <4>1. packed = Lo
        BY <1>3, <1>11, <2>1, <3>2
      <4>2. enc.tail = Anchor
        BY <1>2, <1>4, <1>10, <4>1
      <4> QED BY <1>5, <3>2, <4>2
    <3> QED BY <3>1, <3>2
  <2> QED BY <1>1, <1>2, <1>5, <2>1 DEF Backward
<1>13. Encoder'
  <2>1. Carries(enc.new, packed)'
    BY <1>1, <1>3 DEF Carries
  <2>2. IF Lo' <= Linked' THEN Carries(enc.tail, Linked)' ELSE enc'.tail = Anchor
    BY <1>1, <1>2, <1>10 DEF Carries
  <2> QED BY <1>1, <1>5, <2>1, <2>2, Zenon DEF Encoder
<1>14. Sender'
  <2>1. snd.pc \in {"back", "forth"} => next'[snd.entry] = next[snd.entry]
    <3>1. snd.pc \in {"back", "forth"} => snd.entry \in heap /\ pack[snd.entry] = taken
      BY DEF Chain, Sender, Carries
    <3> QED BY <1>5, <1>6, <3>1, ListNumbers DEF Chain, Numbered
  <2> QED BY <1>1, <1>2, <1>7, <2>1 DEF Chain, Sender
<1> QED BY <1>8, <1>9, <1>12, <1>13, <1>14, Zenon DEF Chain

(* The last pack leads to the new one, which is the last one from then on. *)
LEMMA ChainAddPublish ==
  ASSUME ListTypeOK, Counted, Chain, AddPublish
  PROVE  Chain'
<1> DEFINE n == enc.new
           t == enc.tail
<1>1. /\ enc.pc = "publish" /\ enc'.pc \in {"idle", "pack"}
      /\ next' = [next EXCEPT ![t] = n]
      /\ UNCHANGED <<prev, heap, pack, packed, taken, snd>>
  BY DEF AddPublish
<1>2. /\ Adding /\ Linked = packed - 1 /\ ~Adding' /\ Linked' = packed /\ Lo' = Lo
  BY <1>1 DEF Adding, Linked, Lo
<1>3. /\ n \in heap /\ pack[n] = packed /\ next[n] = Anchor
      /\ IF Lo <= Linked THEN t \in heap /\ pack[t] = Linked ELSE t = Anchor
  BY <1>1, <1>2 DEF Chain, Encoder, Carries
<1> HIDE DEF n, t
<1>4. /\ next \in [Links -> Links] /\ packed \in Int /\ Lo \in Int /\ taken \in Int
      /\ t \in Links /\ Anchor \in Links /\ t # n
  BY <1>2, <1>3, ListTyped, ListNumbers
<1>5. next'[t] = n /\ \A m \in Links \ {t} : next'[m] = next[m]
  BY <1>1, <1>4
<1>6. \A m \in heap : /\ m # Anchor /\ m \in Links /\ pack[m] \in Int
                      /\ Lo <= pack[m] /\ pack[m] <= packed
  BY ListNumbers DEF Chain, Numbered, Counted
<1>7. \A m \in heap : (pack[m] = packed => m = n) /\ (pack[m] = Linked => m = t)
  BY <1>2, <1>3, <1>4, <1>6 DEF Chain, Numbered
<1>8. Numbered'
  <2>1. taken' <= Linked'
    BY <1>1, <1>2, <1>4 DEF Chain, Numbered
  <2> QED BY <1>1, <1>2, <2>1 DEF Chain, Numbered
<1>9. Forward'
  <2>1. ASSUME NEW m \in heap, pack[m] < packed
        PROVE  next'[m] \in heap /\ pack[next'[m]] = pack[m] + 1
    <3>1. CASE pack[m] = Linked
      <4>1. m = t
        BY <1>7, <3>1
      <4> QED BY <1>2, <1>3, <1>4, <1>5, <3>1, <4>1
    <3>2. CASE pack[m] < Linked
      <4>1. m # t
        BY <1>3, <1>4, <1>6, <3>2
      <4>2. next'[m] = next[m]
        BY <1>5, <1>6, <4>1
      <4> QED BY <3>2, <4>2 DEF Chain, Forward, Carries
    <3> QED BY <1>2, <1>4, <1>6, <2>1, <3>1, <3>2
  <2>2. ASSUME NEW m \in heap, pack[m] = packed
        PROVE  next'[m] = Anchor
    <3>1. m = n
      BY <1>7, <2>2
    <3> QED BY <1>3, <1>4, <1>5, <1>6, <3>1
  <2>3. Lo <= packed /\ next'[Anchor] \in heap /\ pack[next'[Anchor]] = Lo
    <3>1. CASE Lo <= Linked
      <4>1. t # Anchor
        BY <1>3, <1>6, <3>1
      <4>2. next'[Anchor] = next[Anchor]
        BY <1>4, <1>5, <4>1
      <4> QED BY <1>2, <1>4, <3>1, <4>2 DEF Chain, Forward, Carries
    <3>2. CASE ~(Lo <= Linked)
      <4>1. next'[Anchor] = n
        BY <1>3, <1>5, <3>2
      <4>2. Lo = packed
        BY <1>2, <1>3, <1>4, <1>6, <3>2
      <4> QED BY <1>3, <1>4, <4>1, <4>2
    <3> QED BY <3>1, <3>2
  <2> QED BY <1>1, <1>2, <2>1, <2>2, <2>3 DEF Forward, Carries
<1>10. prev[Anchor] = n
  BY <1>1 DEF Chain, Backward, n
<1>11. snd.pc = "forth" => snd.next # Anchor
  BY <1>2 DEF Chain, Sender
<1>12. Backward'
  <2>1. \A m \in heap : (pack[m] = Lo \/ (snd.pc = "forth" /\ pack[m] = taken + 1))
                          => prev[m] = Anchor
    BY <1>1 DEF Chain, Backward
  <2>2. Lo <= packed
    BY <1>3, <1>6
  <2> QED BY <1>1, <1>2, <1>3, <1>10, <1>11, <2>1, <2>2 DEF Backward, Carries
<1>13. Encoder'
  BY <1>2 DEF Encoder
<1>14. Sender'
  <2>1. snd.pc \in {"back", "forth"} => next'[snd.entry] = next[snd.entry]
    <3>1. ASSUME snd.pc \in {"back", "forth"} PROVE snd.entry \in heap /\ snd.entry # t
      <4>1. /\ snd.entry \in heap /\ next[snd.entry] # Anchor
        BY <1>2, <3>1 DEF Chain, Sender, Carries
      <4>2. pack[snd.entry] # Linked
        BY <4>1 DEF Chain, Forward
      <4> QED BY <1>3, <1>6, <4>1, <4>2
    <3> QED BY <1>5, <1>6, <3>1
  <2> QED BY <1>1, <1>2, <2>1 DEF Chain, Sender, Carries
<1> QED BY <1>8, <1>9, <1>12, <1>13, <1>14, Zenon DEF Chain

(* The first pack is the one after the last that was taken.                *)
LEMMA ChainTake ==
  ASSUME ListTypeOK, Counted, Chain, Take
  PROVE  Chain' /\ taken' = taken + 1 /\ taken' <= packed
<1> DEFINE e == next[Anchor]
<1>1. /\ snd.pc = "idle" /\ e # Anchor
      /\ snd'.pc = "send" /\ snd'.entry = e
      /\ taken' = IF e \in Nodes THEN pack[e] ELSE taken
      /\ UNCHANGED <<next, prev, heap, pack, packed, enc>>
  <2>1. snd \in Senders
    BY ListTyped
  <2> QED BY <2>1 DEF Take, Senders
<1>2. Lo = taken + 1 /\ Lo <= Linked /\ e \in heap /\ pack[e] = Lo
  BY <1>1 DEF Lo, Chain, Forward, Carries
<1>3. taken' = Lo /\ Lo' = Lo /\ Linked' = Linked
  BY <1>1, <1>2, ListNumbers DEF Lo, Linked, Adding
<1>4. Numbered' /\ Forward'
  BY <1>1, <1>2, <1>3 DEF Chain, Numbered, Forward, Carries
<1>5. Backward'
  BY <1>1, <1>2, <1>3 DEF Chain, Backward, Carries
<1>6. Encoder'
  BY <1>1, <1>2, <1>3 DEF Chain, Encoder, Carries, Adding
<1>7. Sender'
  BY <1>1, <1>2, <1>3 DEF Sender, Carries
<1>8. Linked <= packed
  BY ListNumbers DEF Linked
<1>9. taken' <= packed
  BY <1>2, <1>3, <1>8, ListNumbers
<1> QED BY <1>2, <1>3, <1>4, <1>5, <1>6, <1>7, <1>9, Zenon DEF Chain

(* The entry leads back to the head, and when a pack is being added the    *)
(* entry is not the last one.                                              *)
LEMMA ChainDelRead ==
  ASSUME ListTypeOK, Counted, Chain, DelRead, ~clash'
  PROVE  Chain'
<1> DEFINE e == snd.entry
<1>1. /\ snd.pc = "send" /\ snd'.pc = "back" /\ snd'.entry = e
      /\ snd'.prev = prev[e] /\ snd'.next = next[e]
      /\ ~(Adding /\ next[e] = Anchor)
      /\ UNCHANGED <<next, prev, heap, pack, packed, taken, enc>>
  <2>1. snd \in Senders
    BY ListTyped
  <2> QED BY <2>1 DEF DelRead, Senders
<1>2. Lo = taken /\ Lo' = Lo /\ Linked' = Linked /\ (Adding' <=> Adding)
  BY <1>1 DEF Lo, Linked, Adding
<1>3. e \in heap /\ pack[e] = taken /\ taken <= Linked
  BY <1>1 DEF Chain, Sender, Carries, Numbered
<1> HIDE DEF e
<1>4. Numbered' /\ Forward'
  BY <1>1, <1>2 DEF Chain, Numbered, Forward, Carries
<1>5. Backward'
  BY <1>1, <1>2 DEF Chain, Backward, Carries
<1>6. Encoder'
  BY <1>1, <1>2 DEF Chain, Encoder, Carries
<1>7. prev[e] = Anchor
  <2>1. ~(enc.pc = "front" /\ e = enc.new)
    <3>1. enc.pc = "front" => pack[enc.new] = packed /\ Linked = packed - 1
      BY DEF Chain, Encoder, Adding, Carries, Linked
    <3> QED BY <1>3, <3>1, ListNumbers
  <2> QED BY <1>2, <1>3, <2>1 DEF Chain, Backward
<1>8. Sender'
  BY <1>1, <1>2, <1>3, <1>7 DEF Sender, Carries, e
<1> QED BY <1>4, <1>5, <1>6, <1>8, Zenon DEF Chain

(* The second pack leads back to the head; or the head to itself, when     *)
(* there is no other.                                                      *)
LEMMA ChainDelBack ==
  ASSUME ListTypeOK, Counted, Chain, DelBack
  PROVE  Chain'
<1> DEFINE e == snd.entry
           f == snd.next
<1>1. /\ snd.pc = "back" /\ snd'.pc = "forth" /\ snd'.entry = e
      /\ snd'.prev = snd.prev /\ snd'.next = f
      /\ prev' = [prev EXCEPT ![f] = snd.prev]
      /\ UNCHANGED <<next, heap, pack, packed, taken, enc>>
  <2>1. snd \in Senders
    BY ListTyped
  <2> QED BY <2>1 DEF DelBack, Senders
<1>2. Lo = taken /\ Lo' = Lo /\ Linked' = Linked /\ (Adding' <=> Adding)
  BY <1>1 DEF Lo, Linked, Adding
<1>3. /\ e \in heap /\ pack[e] = taken /\ taken <= Linked
      /\ snd.prev = Anchor /\ f = next[e] /\ (Adding => f # Anchor)
  BY <1>1 DEF Chain, Sender, Carries, Numbered
<1> HIDE DEF e, f
<1>4. /\ prev \in [Links -> Links] /\ f \in Links /\ Anchor \in Links
      /\ \A m \in heap : m \in Links /\ m # Anchor /\ pack[m] \in Int
      /\ taken \in Int /\ Linked \in Int /\ packed \in Int
  BY <1>3, ListTyped, ListNumbers DEF f, Senders
<1>5. prev'[f] = Anchor /\ \A m \in Links \ {f} : prev'[m] = prev[m]
  BY <1>1, <1>3, <1>4
<1>6. IF taken < Linked THEN f \in heap /\ pack[f] = taken + 1 ELSE f = Anchor
  BY <1>3, <1>4 DEF Chain, Forward, Carries
<1>7. Numbered' /\ Forward'
  BY <1>1, <1>2 DEF Chain, Numbered, Forward, Carries
<1>8. Backward'
  <2>1. ASSUME NEW m \in heap, pack[m] = taken, ~(enc.pc = "front" /\ m = enc.new)
        PROVE  prev'[m] = Anchor
    <3>1. prev[m] = Anchor
      BY <1>2, <2>1 DEF Chain, Backward
    <3> QED BY <1>4, <1>5, <3>1
  <2>2. ASSUME NEW m \in heap, pack[m] = taken + 1
        PROVE  prev'[m] = Anchor
    <3>1. CASE taken < Linked
      <4>1. m = f
        BY <1>6, <2>2, <3>1 DEF Chain, Numbered
      <4> QED BY <1>5, <4>1
    <3>2. CASE ~(taken < Linked)
      <4>1. f = Anchor /\ ~Adding
        BY <1>3, <1>6, <3>2
      <4>2. Linked = packed /\ taken = packed
        BY <1>3, <1>4, <3>2, <4>1 DEF Linked
      <4>3. pack[m] <= packed
        BY ListNumbers DEF Counted
      <4> QED BY <1>4, <2>2, <4>2, <4>3
    <3> QED BY <3>1, <3>2
  <2>3. IF enc.pc = "publish" THEN prev'[Anchor] = enc.new
        ELSE IF Lo <= Linked /\ f # Anchor
          THEN prev'[Anchor] \in heap /\ pack[prev'[Anchor]] = Linked
          ELSE prev'[Anchor] = Anchor
    <3>1. CASE f = Anchor
      <4>1. enc.pc # "publish"
        BY <1>3, <3>1 DEF Adding
      <4> QED BY <1>5, <3>1, <4>1
    <3>2. CASE f # Anchor
      <4>1. prev'[Anchor] = prev[Anchor]
        BY <1>4, <1>5, <3>2
      <4> QED BY <1>1, <3>2, <4>1 DEF Chain, Backward, Carries
    <3> QED BY <3>1, <3>2
  <2> QED BY <1>1, <1>2, <2>1, <2>2, <2>3 DEF Backward, Carries
<1>9. Encoder'
  BY <1>1, <1>2 DEF Chain, Encoder, Carries
<1>10. Sender'
  BY <1>1, <1>2, <1>3 DEF Sender, Carries
<1> QED BY <1>7, <1>8, <1>9, <1>10, Zenon DEF Chain

(* The head leads to the second pack; the first is freed, and no other     *)
(* pack leads to it.                                                       *)
LEMMA ChainDelForth ==
  ASSUME ListTypeOK, Counted, Chain, DelForth
  PROVE  Chain'
<1> DEFINE e == snd.entry
           f == snd.next
<1>1. /\ snd.pc = "forth" /\ snd'.pc = "idle"
      /\ next' = [next EXCEPT ![snd.prev] = f]
      /\ heap' = heap \ {e}
      /\ UNCHANGED <<prev, pack, packed, taken, enc>>
  BY DEF DelForth
<1>2. Lo = taken /\ Lo' = taken + 1 /\ Linked' = Linked /\ (Adding' <=> Adding)
  BY <1>1 DEF Lo, Linked, Adding
<1>3. /\ e \in heap /\ pack[e] = taken /\ taken <= Linked
      /\ snd.prev = Anchor /\ f = next[e] /\ (Adding => f # Anchor)
  BY <1>1 DEF Chain, Sender, Carries, Numbered
<1> HIDE DEF e
<1>4. /\ next \in [Links -> Links] /\ f \in Links /\ Anchor \in Links
      /\ \A m \in heap : m \in Links /\ m # Anchor /\ pack[m] \in Int
      /\ taken \in Int /\ Linked \in Int /\ packed \in Int
  BY ListTyped, ListNumbers DEF Senders
<1>5. IF taken < Linked THEN f \in heap /\ pack[f] = taken + 1 ELSE f = Anchor
  BY <1>3, <1>4 DEF Chain, Forward, Carries
<1>6. \A m \in heap : m \in heap' \/ pack[m] = taken
  BY <1>1, <1>3
<1>7. \A m \in heap' : m \in heap /\ taken + 1 <= pack[m]
  <2>1. \A m \in heap : m # e => pack[m] # taken
    BY <1>3 DEF Chain, Numbered
  <2>2. \A m \in heap : taken <= pack[m]
    BY <1>2 DEF Chain, Numbered
  <2> QED BY <1>1, <1>4, <2>1, <2>2
<1>8. next'[Anchor] = f /\ \A m \in heap : next'[m] = next[m]
  BY <1>1, <1>3, <1>4
<1> HIDE DEF f
<1>9. Numbered'
  <2>1. \A k, m \in heap' : pack[k] = pack[m] => k = m
    BY <1>7, Zenon DEF Chain, Numbered
  <2> QED BY <1>1, <1>2, <1>3, <1>7, <2>1 DEF Numbered
<1>10. Forward'
  <2>1. ASSUME NEW m \in heap', pack[m] < Linked
        PROVE  next'[m] \in heap' /\ pack[next'[m]] = pack[m] + 1
    <3>1. next[m] \in heap /\ pack[next[m]] = pack[m] + 1
      BY <1>7, <2>1 DEF Chain, Forward, Carries
    <3>2. pack[m] + 1 # taken
      BY <1>4, <1>7
    <3> QED BY <1>6, <1>7, <1>8, <3>1, <3>2
  <2>2. \A m \in heap' : pack[m] = Linked => next'[m] = Anchor
    BY <1>7, <1>8 DEF Chain, Forward
  <2>3. IF taken + 1 <= Linked THEN f \in heap' /\ pack[f] = taken + 1 ELSE f = Anchor
    BY <1>4, <1>5, <1>6
  <2> QED BY <1>1, <1>2, <1>8, <2>1, <2>2, <2>3 DEF Forward, Carries
<1>11. Backward'
  <2>1. ASSUME NEW m \in heap', pack[m] = taken + 1, ~(enc.pc = "front" /\ m = enc.new)
        PROVE  prev[m] = Anchor
    BY <1>1, <1>7, <2>1 DEF Chain, Backward
  <2>2. CASE enc.pc = "publish"
    BY <1>1, <1>2, <2>1, <2>2 DEF Chain, Backward
  <2>3. CASE enc.pc # "publish" /\ taken < Linked
    <3>1. f # Anchor
      BY <1>4, <1>5, <2>3
    <3>2. prev[Anchor] \in heap /\ pack[prev[Anchor]] = Linked
      BY <1>2, <1>3, <2>3, <3>1 DEF Chain, Backward, Carries, f
    <3>3. prev[Anchor] \in heap'
      BY <1>4, <1>6, <2>3, <3>2
    <3>4. Carries(prev[Anchor], Linked)' /\ enc'.pc # "publish" /\ snd'.pc # "forth"
      BY <1>1, <1>2, <2>3, <3>2, <3>3 DEF Carries
    <3>5. taken + 1 <= Linked
      BY <1>4, <2>3
    <3> QED BY <1>1, <1>2, <2>1, <3>4, <3>5 DEF Backward
  <2>4. CASE enc.pc # "publish" /\ ~(taken < Linked)
    <3>1. f = Anchor
      BY <1>5, <2>4
    <3>2. prev[Anchor] = Anchor
      BY <1>1, <2>4, <3>1 DEF Chain, Backward, f
    <3>3. ~(taken + 1 <= Linked)
      BY <1>4, <2>4
    <3> QED BY <1>1, <1>2, <2>1, <2>4, <3>2, <3>3 DEF Backward
  <2> QED BY <2>2, <2>3, <2>4
<1>12. Encoder'
  <2> SUFFICES ASSUME Adding PROVE Encoder'
    BY <1>2 DEF Encoder
  <2>1. taken < Linked /\ Linked = packed - 1
    BY <1>3, <1>5, <1>4 DEF Linked
  <2>2. enc.new \in heap /\ pack[enc.new] = packed
    BY DEF Chain, Encoder, Carries
  <2>3. enc.new \in heap'
    BY <1>4, <1>6, <2>1, <2>2
  <2>4. enc.tail \in heap /\ pack[enc.tail] = Linked
    BY <1>2, <1>3 DEF Chain, Encoder, Carries
  <2>5. enc.tail \in heap'
    BY <1>4, <1>6, <2>1, <2>4
  <2>6. enc.pc = "publish" => next'[enc.new] = Anchor
    BY <1>8, <2>2 DEF Chain, Encoder
  <2>7. taken + 1 <= Linked
    BY <1>4, <2>1
  <2> QED BY <1>1, <1>2, <2>2, <2>3, <2>4, <2>5, <2>6, <2>7 DEF Encoder, Carries
<1>13. Sender'
  BY <1>1 DEF Sender
<1> QED BY <1>9, <1>10, <1>11, <1>12, <1>13, Zenon DEF Chain

-----------------------------------------------------------------------------

(* The empty list points to itself in both directions. *)
LEMMA ListInvInit ==
  ASSUME ListInit
  PROVE  ListInv
<1>1. Anchor \in Links /\ Nodes \subseteq Links /\ 0 \in 0 .. MaxPacks
  BY ListAssumption DEF Links
<1>2. enc \in Encoders /\ snd \in Senders
  BY <1>1 DEF ListInit, Encoders, Senders
<1>3. /\ next \in [Links -> Links] /\ prev \in [Links -> Links] /\ heap = {}
      /\ pack \in [Nodes -> 0 .. MaxPacks] /\ packed \in 0 .. MaxPacks
      /\ taken \in 0 .. packed /\ clash \in BOOLEAN
  <2>1. next = [n \in Links |-> n] /\ prev = [n \in Links |-> n] /\ heap = {}
    BY Zenon DEF ListInit
  <2>2. pack = [n \in Nodes |-> 0] /\ packed = 0 /\ taken = 0 /\ clash = FALSE
    BY Zenon DEF ListInit
  <2>3. next \in [Links -> Links] /\ prev \in [Links -> Links]
    BY <2>1
  <2>4. pack \in [Nodes -> 0 .. MaxPacks]
    BY <1>1, <2>2
  <2>5. taken \in 0 .. packed /\ packed \in 0 .. MaxPacks
    BY <1>1, <2>2
  <2> QED BY <2>1, <2>2, <2>3, <2>4, <2>5
<1>4. ListTypeOK
  BY <1>2, <1>3, Zenon DEF ListTypeOK, Encoders, Senders
<1>5. /\ enc.pc = "idle" /\ snd.pc = "idle" /\ packed = 0 /\ taken = 0
      /\ next[Anchor] = Anchor /\ prev[Anchor] = Anchor
      /\ \A n \in Nodes : pack[n] = 0
  BY <1>1, Zenon DEF ListInit
<1>6. Lo = 1 /\ Linked = 0 /\ ~Adding
  BY <1>5 DEF Lo, Linked, Adding
<1>7. Chain
  BY <1>3, <1>5, <1>6 DEF Chain, Numbered, Forward, Backward, Encoder, Sender
<1> QED BY <1>4, <1>5, <1>7 DEF ListInv, Counted

(* Type correctness holds even after a clash.                              *)
LEMMA ListTypes ==
  ASSUME ListTypeOK, Counted, ListNext
  PROVE  ListTypeOK' /\ Counted'
<1>1. /\ next \in [Links -> Links] /\ prev \in [Links -> Links]
      /\ heap \subseteq Nodes /\ pack \in [Nodes -> 0 .. MaxPacks]
      /\ packed \in 0 .. MaxPacks /\ taken \in 0 .. packed
      /\ enc \in Encoders /\ snd \in Senders
      /\ clash \in BOOLEAN /\ MaxPacks \in Nat
  BY ListTyped, ListAssumption
<1>2. Anchor \in Links /\ Nodes \subseteq Links
  BY DEF Links
<1>3. CASE StartFrame
  <2>1. enc' \in Encoders /\ packed < MaxPacks
    BY <1>1, <1>3 DEF StartFrame, Encoders
  <2> QED BY <1>3, <2>1, Zenon DEF StartFrame, ListTypeOK, Counted, Encoders
<1>4. CASE NewPack
  <2>1. PICK n \in Nodes \ heap :
          /\ heap' = heap \cup {n}
          /\ next' = [next EXCEPT ![n] = n] /\ prev' = [prev EXCEPT ![n] = n]
          /\ pack' = [pack EXCEPT ![n] = packed + 1]
          /\ enc' = [pc |-> "front", new |-> n, tail |-> prev[Anchor]]
    BY <1>4, Zenon DEF NewPack
  <2>2. packed' = packed + 1 /\ packed < MaxPacks /\ UNCHANGED <<taken, snd>>
    BY <1>4 DEF NewPack, Counted
  <2>3. packed' \in 0 .. MaxPacks /\ taken' \in 0 .. packed'
    BY <1>1, <2>2
  <2>4. /\ next' \in [Links -> Links] /\ prev' \in [Links -> Links]
        /\ pack' \in [Nodes -> 0 .. MaxPacks] /\ heap' \subseteq Nodes
    BY <1>1, <1>2, <2>1, <2>2, <2>3
  <2>5. enc' \in Encoders
    BY <1>1, <1>2, <2>1 DEF Encoders
  <2>6. clash' \in BOOLEAN
    BY <1>4, Zenon DEF NewPack
  <2>7. \A m \in Nodes : pack'[m] <= packed'
    BY <1>1, <2>1, <2>2 DEF Counted
  <2>8. enc'.pc # "pack"
    BY <2>1
  <2> QED
    BY <1>1, <2>2, <2>3, <2>4, <2>5, <2>6, <2>7, <2>8, Zenon
       DEF ListTypeOK, Counted, Encoders, Senders
<1>5. CASE AddFront
  <2>1. enc.new \in Links /\ enc.tail \in Links
    BY <1>1 DEF Encoders
  <2>2. enc' \in Encoders /\ enc'.pc # "pack"
    BY <1>1, <1>5 DEF AddFront, Encoders
  <2>3. next' \in [Links -> Links] /\ prev' \in [Links -> Links]
    BY <1>1, <1>2, <1>5, <2>1 DEF AddFront
  <2> QED BY <1>5, <2>2, <2>3, Zenon DEF AddFront, ListTypeOK, Counted, Encoders
<1>6. CASE AddPublish
  <2>1. enc.new \in Links /\ enc.tail \in Links
    BY <1>1 DEF Encoders
  <2>2. enc' \in Encoders /\ (enc'.pc = "pack" => packed < MaxPacks)
    BY <1>2, <1>6 DEF AddPublish, Encoders
  <2>3. next' \in [Links -> Links]
    BY <1>1, <1>6, <2>1 DEF AddPublish
  <2> QED BY <1>6, <2>2, <2>3, Zenon DEF AddPublish, ListTypeOK, Counted, Encoders
<1>7. CASE Take
  <2>1. next[Anchor] \in Links
    BY <1>1, <1>2
  <2>2. snd' \in Senders
    BY <1>1, <1>7, <2>1 DEF Take, Senders
  <2>3. taken' \in 0 .. packed
    BY <1>1, <1>7 DEF Take, Counted
  <2> QED BY <1>7, <2>2, <2>3, Zenon DEF Take, ListTypeOK, Counted, Senders
<1>8. CASE DelRead
  <2>1. prev[snd.entry] \in Links /\ next[snd.entry] \in Links
    BY <1>1 DEF Senders
  <2>2. snd' \in Senders
    BY <1>1, <1>8, <2>1 DEF DelRead, Senders
  <2>3. clash' \in BOOLEAN
    BY <1>8, Zenon DEF DelRead
  <2> QED BY <1>8, <2>2, <2>3, Zenon DEF DelRead, ListTypeOK, Counted, Senders
<1>9. CASE DelBack
  <2>1. snd.prev \in Links /\ snd.next \in Links
    BY <1>1 DEF Senders
  <2>2. snd' \in Senders /\ prev' \in [Links -> Links]
    BY <1>1, <1>9, <2>1 DEF DelBack, Senders
  <2> QED BY <1>9, <2>2, Zenon DEF DelBack, ListTypeOK, Counted, Senders
<1>10. CASE DelForth
  <2>1. snd.prev \in Links /\ snd.next \in Links
    BY <1>1 DEF Senders
  <2>2. snd' \in Senders /\ next' \in [Links -> Links] /\ heap' \subseteq Nodes
    BY <1>1, <1>2, <1>10, <2>1 DEF DelForth, Senders
  <2> QED BY <1>10, <2>2, Zenon DEF DelForth, ListTypeOK, Counted, Senders
<1> QED
  BY <1>3, <1>4, <1>5, <1>6, <1>7, <1>8, <1>9, <1>10, Zenon DEF ListNext

(* What a frame that starts leaves as it is: everything but the place.     *)
LEMMA ChainStart ==
  ASSUME ListTypeOK, Chain, StartFrame
  PROVE  Chain'
<1>1. /\ enc.pc = "idle" /\ enc'.pc = "pack"
      /\ UNCHANGED <<next, prev, heap, pack, packed, taken, snd>>
  <2>1. enc \in Encoders
    BY ListTyped
  <2> QED BY <2>1 DEF StartFrame, Encoders
<1>2. ~Adding /\ ~Adding' /\ Linked' = Linked /\ Lo' = Lo
  BY <1>1 DEF Adding, Linked, Lo
<1>3. Numbered' /\ Forward'
  BY <1>1, <1>2 DEF Chain, Numbered, Forward, Carries
<1>4. Backward'
  BY <1>1, <1>2 DEF Chain, Backward, Carries
<1>5. Encoder' /\ Sender'
  BY <1>1, <1>2 DEF Chain, Encoder, Sender, Carries
<1> QED BY <1>3, <1>4, <1>5, Zenon DEF Chain

(* Every step of either thread keeps the list invariant, one lemma per     *)
(* step.                                                                   *)
LEMMA ListInvNext ==
  ASSUME ListInv, [ListNext]_listVars
  PROVE  ListInv'
<1>1. CASE ListNext
  <2>1. ListTypeOK' /\ Counted'
    BY <1>1, ListTypes DEF ListInv
  <2>2. ~clash' => ~clash
    BY <1>1, Zenon DEF ListNext, StartFrame, NewPack, AddFront, AddPublish, Take,
       DelRead, DelBack, DelForth
  <2>3. ASSUME ~clash' PROVE Chain'
    BY <1>1, <2>2, <2>3, ChainStart, ChainNewPack, ChainAddFront, ChainAddPublish,
       ChainTake, ChainDelRead, ChainDelBack, ChainDelForth, Zenon
       DEF ListNext, ListInv
  <2> QED BY <2>1, <2>3 DEF ListInv
<1>2. CASE UNCHANGED listVars
  <2>1. UNCHANGED <<next, prev, heap, pack, packed, taken, enc, snd, clash>>
    BY <1>2, Zenon DEF listVars
  <2>2. /\ ListTypeOK' <=> ListTypeOK
        /\ Counted' <=> Counted
    BY <2>1, Zenon DEF ListTypeOK, Counted
  <2>3. Lo' = Lo /\ (Adding' <=> Adding)
    BY <2>1, Zenon DEF Lo, Adding
  <2>4. Linked' = Linked
    BY <2>1, <2>3, Zenon DEF Linked
  <2>5. /\ Numbered' <=> Numbered
        /\ Forward' <=> Forward
        /\ Backward' <=> Backward
        /\ Encoder' <=> Encoder
        /\ Sender' <=> Sender
    BY <2>1, <2>3, <2>4, Zenon DEF Numbered, Forward, Backward, Encoder, Sender, Carries
  <2> QED BY <2>1, <2>2, <2>5, Zenon DEF ListInv, Chain
<1> QED BY <1>1, <1>2

(* As long as the last pack is not unlinked while another is added behind  *)
(* it, packs are sent in order and each once, and neither thread uses a    *)
(* node that was freed (saveStream and vdRTPSendThread in rtsp_server.c,   *)
(* list_add_tail and list_del in list.h).                                  *)
THEOREM ListSafe == ListSpec => []ListSound
<1>1. ListInv => ListSound
  <2> SUFFICES ASSUME ListInv, ~clash PROVE ListSound
    BY DEF ListSound
  <2>1. Chain /\ ListTypeOK
    BY DEF ListInv
  <2>2. packed \in Int /\ taken \in Int /\ taken <= packed
        /\ \A n \in heap : n # Anchor
    BY <2>1, ListNumbers, ListTyped
  <2>3. (snd.pc = "idle" /\ next[Anchor] # Anchor) => pack[next[Anchor]] = taken + 1
    BY <2>1 DEF Chain, Forward, Lo, Carries
  <2>4. snd.pc # "idle" => snd.entry \in heap
    BY <2>1 DEF Chain, Sender, Carries
  <2>5. Adding => enc.tail \in heap \cup {Anchor}
    BY <2>1 DEF Chain, Encoder, Carries
  <2>6. ASSUME enc.pc = "idle", snd.pc = "idle"
        PROVE  next[Anchor] = Anchor <=> taken = packed
    <3>1. Linked = packed /\ Lo = taken + 1
      BY <2>6 DEF Linked, Adding, Lo
    <3> QED BY <2>1, <2>2, <3>1 DEF Chain, Forward, Carries
  <2> QED BY <2>3, <2>4, <2>5, <2>6, Zenon DEF ListSound
<1> QED BY <1>1, ListInvInit, ListInvNext, PTL DEF ListSpec

-----------------------------------------------------------------------------
(* The pipeline.                                                           *)

(* The first parts of the order, and what at most stays of the stages that *)
(* were stopped: one of some parts, and nothing if IPC_Init returned.      *)
FirstParts(k) == {Order[j] : j \in 1 .. k}
Leftovers(parts) == {{}} \cup {{p} : p \in parts}

(* While IPC_Init goes on, the parts before the next one are up.           *)
InitUp ==
  main.what = "init" =>
    /\ main.k \in 1 .. 15 /\ up = FirstParts(main.k - 1)
    /\ getter = "none" /\ ~getFlag /\ ~inited /\ ~stuck
    /\ ispInited <=> main.k > 4

(* The stream thread runs only while everything is up and main has not got *)
(* beyond waiting for it; its flag is set until main tells it to stop.     *)
GetterRuns ==
  /\ inited /\ (main.what = "run" \/ main = At("exit", 5)) => getFlag
  /\ main.what # "init" /\ ~inited => getter = "none" /\ ~getFlag
  /\ getter \in {"loop", "frame"} =>
       up = Parts /\ (main.what \in {"run", "join"} \/ main = At("exit", 5))

(* The first k parts are up, and leftovers of what was stopped before; or  *)
(* IPC_Init failed in the stage that is being stopped.                     *)
StagesUp(k, parts) ==
  \E L \in Leftovers(parts) : (inited => L = {}) /\ up = FirstParts(k) \cup L
StagePartly(i, j) == ~inited /\ \E k \in i .. j : up = FirstParts(k)

(* What is up at each step of the exit while every stop succeeded.         *)
UpAtExit ==
  ~stuck =>
    /\ main.what \in {"run", "join"} =>
         inited /\ up \in {FirstParts(14), FirstParts(15)} /\ ispInited
    /\ main = At("exit", 5) =>
         /\ \/ inited /\ up \in {FirstParts(14), FirstParts(15)}
            \/ StagePartly(12, 13)
         /\ ispInited
    /\ main.what = "venc" =>
         /\ (inited /\ up = FirstParts(14)) \/ StagePartly(12, 13)
         /\ ispInited
    /\ main = At("exit", 4) =>
         (StagesUp(12, {"VencChn"}) \/ StagePartly(10, 11)) /\ ispInited
    /\ main = At("exit", 3) =>
         (StagesUp(10, {"VencChn"}) \/ StagePartly(7, 9)) /\ ispInited
    /\ main = At("exit", 2) =>
         \/ StagesUp(7, {"VencChn", "VpssGrp"}) /\ ispInited
         \/ StagePartly(2, 6) /\ (ispInited <=> "Isp" \in up)
    /\ main.what = "isp" =>
         \/ StagesUp(5, {"VencChn", "VpssGrp", "ViDev"}) /\ ispInited
         \/ StagePartly(2, 4) /\ (ispInited <=> "Isp" \in up)
    /\ main = At("exit", 1) =>
         \/ StagesUp(2, {"VencChn", "VpssGrp", "ViDev", "IspMem"})
         \/ StagePartly(0, 1)
    /\ main.what = "ended" =>
         StagesUp(0, {"VencChn", "VpssGrp", "ViDev", "IspMem"})
    /\ main.what # "hang"

(* Each step of the exit belongs to its stage.                             *)
MainShape ==
  /\ main.what = "exit" => main.k \in 1 .. 5
  /\ main.what \in {"join", "venc"} => main.k = 5
  /\ main.what = "isp" => main.k = 2

PipeInv == PipeTypeOK /\ InitUp /\ GetterRuns /\ UpAtExit /\ MainShape

(* The parts, counted and cut into prefixes.                               *)
LEMMA OrderShape ==
  /\ Len(Order) = 15 /\ Len(StageEnd) = 5
  /\ Parts = FirstParts(15)
  /\ FirstParts(0) = {}
  /\ \A k \in 1 .. 15 : FirstParts(k) = FirstParts(k - 1) \cup {Order[k]}
<1>1. Len(Order) = 15 /\ Len(StageEnd) = 5 /\ DOMAIN Order = 1 .. 15
  BY DEF Order, StageEnd
<1>2. Parts = FirstParts(15)
  BY <1>1 DEF Parts, Range, FirstParts
<1>3. FirstParts(0) = {}
  BY DEF FirstParts
<1>4. ASSUME NEW k \in 1 .. 15
      PROVE FirstParts(k) = FirstParts(k - 1) \cup {Order[k]}
  BY DEF FirstParts
<1> QED BY <1>1, <1>2, <1>3, <1>4

(* The prefixes of the order, by name.                                     *)
LEMMA Prefixes ==
  /\ FirstParts(1) = {"VB"}
  /\ FirstParts(2) = {"VB", "SYS"}
  /\ FirstParts(3) = {"VB", "SYS", "IspMem"}
  /\ FirstParts(4) = {"VB", "SYS", "IspMem", "Isp"}
  /\ FirstParts(5) = {"VB", "SYS", "IspMem", "Isp", "IspRun"}
  /\ FirstParts(6) = FirstParts(5) \cup {"ViDev"}
  /\ FirstParts(7) = FirstParts(5) \cup {"ViDev", "ViChn"}
  /\ FirstParts(8) = FirstParts(7) \cup {"VpssGrp"}
  /\ FirstParts(9) = FirstParts(7) \cup {"VpssGrp", "VpssGrpStart"}
  /\ FirstParts(10) = FirstParts(7) \cup {"VpssGrp", "VpssGrpStart", "VpssChn"}
  /\ FirstParts(11) = FirstParts(10) \cup {"BindVi"}
  /\ FirstParts(12) = FirstParts(10) \cup {"BindVi", "BindVenc"}
  /\ FirstParts(13) = FirstParts(12) \cup {"VencChn"}
  /\ FirstParts(14) = FirstParts(12) \cup {"VencChn", "VencRecv"}
  /\ FirstParts(15) = FirstParts(14) \cup {"Getter"}
BY OrderShape DEF Order

(* The label IPC_Init goes to, by part.                                    *)
LEMMA StagesAre ==
  ASSUME NEW k \in 1 .. 15
  PROVE  StageOf(k) = IF k <= 2 THEN 1 ELSE IF k <= 7 THEN 2
                      ELSE IF k <= 10 THEN 3 ELSE IF k <= 12 THEN 4 ELSE 5
BY DEF StageOf, StageEnd

(* Two calls, the second made only if the first succeeded.                 *)
LEMMA TriedTwo ==
  ASSUME NEW a, NEW b, NEW t \in Tried(<<a, b>>)
  PROVE  \/ t.done = {} /\ t.left = {a}
         \/ t.done = {a} /\ t.left = {b}
         \/ t.done = {a, b} /\ t.left = {}
<1>1. PICK n \in 0 .. 2 :
        t = [done |-> Range(SubSeq(<<a, b>>, 1, n)),
             left |-> IF n < 2 THEN {<<a, b>>[n + 1]} ELSE {}]
  BY DEF Tried
<1>2. /\ Range(SubSeq(<<a, b>>, 1, 0)) = {}
      /\ Range(SubSeq(<<a, b>>, 1, 1)) = {a}
      /\ Range(SubSeq(<<a, b>>, 1, 2)) = {a, b}
  BY DEF Range
<1>3. n = 0 \/ n = 1 \/ n = 2
  BY <1>1
<1> QED BY <1>1, <1>2, <1>3

(* What a step must not change for the types to stay.                      *)
LEMMA PipeTypeKept ==
  ASSUME PipeTypeOK, up' \subseteq Parts,
         NEW what \in {"init", "run", "exit", "join", "venc", "isp", "hang",
                       "ended"},
         NEW k \in 0 .. 15, main' = [what |-> what, k |-> k],
         inited' \in BOOLEAN, ispInited' \in BOOLEAN, getFlag' \in BOOLEAN,
         stuck' \in BOOLEAN, crashed' \in BOOLEAN,
         getter' \in {"none", "loop", "frame", "returned"}
  PROVE  PipeTypeOK'
<1>1. main' \in [what : {"init", "run", "exit", "join", "venc", "isp", "hang",
                        "ended"}, k : 0 .. Len(Order)]
  BY OrderShape
<1>2. {inited', ispInited', getFlag', stuck', crashed'} \subseteq BOOLEAN
  OBVIOUS
<1> QED BY <1>1, <1>2, Zenon DEF PipeTypeOK

(* The Booleans, one by one.                                               *)
LEMMA PipeBooleans ==
  ASSUME PipeTypeOK
  PROVE  /\ inited \in BOOLEAN /\ ispInited \in BOOLEAN /\ getFlag \in BOOLEAN
         /\ stuck \in BOOLEAN /\ crashed \in BOOLEAN
BY DEF PipeTypeOK

(* A part comes up.                                                        *)
LEMMA PipeStart ==
  ASSUME PipeInv, StartPart
  PROVE  PipeInv'
<1> USE OrderShape DEF StartPart, Starting, At
<1>0. main \in [what : {"init", "run", "exit", "join", "venc", "isp", "hang",
                       "ended"}, k : 0 .. 15]
  BY DEF PipeInv, PipeTypeOK
<1>1. /\ main.what = "init" /\ main.k \in 1 .. 15 /\ up = FirstParts(main.k - 1)
      /\ getter = "none" /\ ~getFlag /\ ~inited /\ ~stuck
      /\ ispInited <=> main.k > 4
  BY DEF PipeInv, InitUp
<1>2. up' = FirstParts(main.k)
  BY <1>1
<1>3. Order[main.k] = "Isp" <=> main.k = 4
  BY <1>1 DEF Order
<1>4. Order[main.k] = "Getter" <=> main.k = 15
  BY <1>1 DEF Order
<1>5. CASE main.k = 15
  <2>1. main' = [what |-> "run", k |-> 0]
    BY <1>5
  <2>2. /\ up' = FirstParts(15) /\ getter' = "loop"
        /\ inited' /\ getFlag' /\ ispInited'
    <3>1. up' = FirstParts(15) /\ getter' = "loop"
      BY <1>1, <1>2, <1>4, <1>5
    <3>2. inited' /\ getFlag'
      BY <1>1, <1>4, <1>5, Zenon
    <3>3. ispInited
      BY <1>1, <1>5
    <3> QED BY <3>1, <3>2, <3>3, Zenon
  <2>3. PipeTypeOK'
    BY <2>1, <2>2, <1>1 DEF PipeInv, PipeTypeOK
  <2> QED BY <2>1, <2>2, <2>3, <1>1 DEF PipeInv, InitUp, GetterRuns, UpAtExit,
                                          MainShape
<1>6. CASE main.k # 15
  <2>1. main' = [what |-> "init", k |-> main.k + 1]
    BY <1>6
  <2>2. /\ up' = FirstParts(main.k)
        /\ ~inited' /\ ~getFlag' /\ getter' = "none"
        /\ ispInited' <=> main.k + 1 > 4
    <3>1. up' = FirstParts(main.k) /\ getter' = "none"
      BY <1>1, <1>2, <1>4, <1>6
    <3>2. ~inited' /\ ~getFlag'
      BY <1>1, <1>4, <1>6, Zenon
    <3>3. ispInited \/ main.k = 4 <=> main.k + 1 > 4
      BY <1>1
    <3>4. ispInited' <=> (ispInited \/ main.k = 4)
      BY <1>1, <1>3, Zenon
    <3> QED BY <3>1, <3>2, <3>3, <3>4, Zenon
  <2>4. FirstParts(main.k) \subseteq Parts
    BY <1>1 DEF FirstParts, Parts, Range, Order
  <2>3. PipeTypeOK'
    BY <2>1, <2>2, <2>4, <1>1, <1>6 DEF PipeInv, PipeTypeOK
  <2> QED BY <2>1, <2>2, <2>3, <1>1, <1>6 DEF PipeInv, InitUp, GetterRuns, UpAtExit,
                                          MainShape
<1> QED BY <1>5, <1>6

(* A part does not come up: the exit begins at its stage.                  *)
LEMMA PipeFail ==
  ASSUME PipeInv, FailPart
  PROVE  PipeInv'
<1> USE OrderShape DEF FailPart, Starting, At
<1>1. /\ main.what = "init" /\ main.k \in 1 .. 15 /\ up = FirstParts(main.k - 1)
      /\ getter = "none" /\ ~getFlag /\ ~inited /\ ~stuck
      /\ ispInited <=> main.k > 4
  BY DEF PipeInv, InitUp
<1>2. main.k # 15
  BY <1>1 DEF Order
<1>3. /\ UNCHANGED <<inited, up, ispInited, getFlag, getter, stuck, crashed>>
      /\ main' = [what |-> "exit", k |-> StageOf(main.k)]
  OBVIOUS
<1>4. StageOf(main.k) \in 1 .. 5
  BY <1>1, StagesAre
<1>5. PipeTypeOK'
  BY <1>3, <1>4 DEF PipeInv, PipeTypeOK
<1>6. GetterRuns' /\ InitUp' /\ MainShape'
  BY <1>1, <1>3, <1>4 DEF GetterRuns, InitUp, MainShape
<1>7. UpAtExit'
  <2>1. CASE main.k \in 1 .. 2
    <3>1. StageOf(main.k) = 1 /\ main.k - 1 \in 0 .. 1 /\ StagePartly(0, 1)
      BY <1>1, <2>1, StagesAre DEF StagePartly
    <3> QED BY <3>1, <1>3 DEF UpAtExit, StagePartly
  <2>2. CASE main.k \in 3 .. 7
    <3>1. StageOf(main.k) = 2 /\ main.k - 1 \in 2 .. 6 /\ StagePartly(2, 6)
      BY <1>1, <2>2, StagesAre DEF StagePartly
    <3>2. "Isp" \in FirstParts(main.k - 1) <=> main.k > 4
      BY <1>1, <2>2 DEF FirstParts, Order
    <3> QED BY <3>1, <3>2, <1>1, <1>3 DEF UpAtExit, StagePartly
  <2>3. CASE main.k \in 8 .. 10
    <3>1. StageOf(main.k) = 3 /\ main.k - 1 \in 7 .. 9 /\ StagePartly(7, 9)
      BY <1>1, <2>3, StagesAre DEF StagePartly
    <3> QED BY <3>1, <1>1, <1>3 DEF UpAtExit, StagePartly
  <2>4. CASE main.k \in 11 .. 12
    <3>1. StageOf(main.k) = 4 /\ main.k - 1 \in 10 .. 11 /\ StagePartly(10, 11)
      BY <1>1, <2>4, StagesAre DEF StagePartly
    <3> QED BY <3>1, <1>1, <1>3 DEF UpAtExit, StagePartly
  <2>5. CASE main.k \in 13 .. 14
    <3>1. StageOf(main.k) = 5 /\ main.k - 1 \in 12 .. 13 /\ StagePartly(12, 13)
      BY <1>1, <2>5, StagesAre DEF StagePartly
    <3> QED BY <3>1, <1>1, <1>3 DEF UpAtExit, StagePartly
  <2> QED BY <1>1, <1>2, <2>1, <2>2, <2>3, <2>4, <2>5
<1> QED BY <1>5, <1>6, <1>7 DEF PipeInv

(* The stream thread is not created, and IPC_Init returns.                 *)
LEMMA PipeFailGetter ==
  ASSUME PipeInv, FailGetter
  PROVE  PipeInv'
<1> USE OrderShape DEF FailGetter, Starting, At
<1>1. /\ main.what = "init" /\ main.k \in 1 .. 15 /\ up = FirstParts(main.k - 1)
      /\ getter = "none" /\ ~getFlag /\ ~inited /\ ~stuck
      /\ ispInited <=> main.k > 4
  BY DEF PipeInv, InitUp
<1>2. main.k = 15
  BY <1>1 DEF Order
<1>3. /\ up' = FirstParts(14) /\ main' = [what |-> "run", k |-> 0]
      /\ inited' /\ getFlag' /\ ispInited' /\ getter' = "none"
  BY <1>1, <1>2
<1>4. PipeTypeOK'
  BY <1>3 DEF PipeInv, PipeTypeOK
<1>5. InitUp' /\ GetterRuns' /\ MainShape'
  BY <1>1, <1>3 DEF InitUp, GetterRuns, MainShape
<1>6. UpAtExit'
  BY <1>1, <1>3 DEF UpAtExit
<1> QED BY <1>4, <1>5, <1>6 DEF PipeInv

(* The stream thread changes nothing but itself.                           *)
LEMMA PipeGetter ==
  ASSUME PipeInv, GetterLoop \/ FrameDone \/ GetterFails
  PROVE  PipeInv'
<1>1. /\ UNCHANGED <<main, inited, up, ispInited, getFlag, stuck, crashed>>
      /\ getter \in {"loop", "frame"} /\ getter' \in {"loop", "frame", "returned"}
  BY DEF GetterLoop, FrameDone, GetterFails
<1>2. PipeTypeOK'
  BY <1>1 DEF PipeInv, PipeTypeOK
<1>3. InitUp' /\ GetterRuns' /\ MainShape'
  BY <1>1 DEF PipeInv, InitUp, GetterRuns, MainShape
<1>4. UpAtExit'
  BY <1>1 DEF PipeInv, UpAtExit, StagePartly, StagesUp
<1> QED BY <1>2, <1>3, <1>4 DEF PipeInv

(* The exit begins.                                                        *)
LEMMA PipeKeys ==
  ASSUME PipeInv, Keys
  PROVE  PipeInv'
<1> USE OrderShape DEF Keys, At
<1>1. /\ UNCHANGED <<inited, up, ispInited, getFlag, getter, stuck, crashed>>
      /\ main.what = "run" /\ main' = [what |-> "exit", k |-> 5]
  OBVIOUS
<1>2. PipeTypeOK'
  <2>1. up' \subseteq Parts /\ getter' \in {"none", "loop", "frame", "returned"}
    BY <1>1 DEF PipeInv, PipeTypeOK
  <2> QED BY <1>1, <2>1, PipeBooleans, PipeTypeKept DEF PipeInv
<1>3. InitUp' /\ GetterRuns' /\ MainShape'
  BY <1>1 DEF PipeInv, InitUp, GetterRuns, MainShape
<1>4. UpAtExit'
  BY <1>1 DEF PipeInv, UpAtExit
<1> QED BY <1>2, <1>3, <1>4 DEF PipeInv

(* The stream thread is told to stop if it was started.                    *)
LEMMA PipeStopGetStream ==
  ASSUME PipeInv, StopGetStream
  PROVE  PipeInv'
<1> USE OrderShape DEF StopGetStream, At, Exiting
<1>1. /\ UNCHANGED <<inited, up, ispInited, getter, stuck, crashed>>
      /\ main = [what |-> "exit", k |-> 5]
      /\ main' = [what |-> IF getFlag THEN "join" ELSE "venc", k |-> 5]
      /\ getFlag' = FALSE
  OBVIOUS
<1>2. PipeTypeOK'
  <2>1. up' \subseteq Parts /\ getter' \in {"none", "loop", "frame", "returned"}
    BY <1>1 DEF PipeInv, PipeTypeOK
  <2>2. /\ inited' \in BOOLEAN /\ ispInited' \in BOOLEAN /\ getFlag' \in BOOLEAN
        /\ stuck' \in BOOLEAN /\ crashed' \in BOOLEAN
    BY <1>1, PipeBooleans DEF PipeInv
  <2>3. CASE getFlag
    <3>1. main' = [what |-> "join", k |-> 5]
      BY <1>1, <2>3
    <3>2. "join" \in {"init", "run", "exit", "join", "venc", "isp", "hang", "ended"}
      OBVIOUS
    <3> HIDE DEF StopGetStream, At, Exiting
    <3> QED BY <2>1, <2>2, <3>1, <3>2, PipeTypeKept DEF PipeInv
  <2>4. CASE ~getFlag
    <3>1. main' = [what |-> "venc", k |-> 5]
      BY <1>1, <2>4
    <3>2. "venc" \in {"init", "run", "exit", "join", "venc", "isp", "hang", "ended"}
      OBVIOUS
    <3> HIDE DEF StopGetStream, At, Exiting
    <3> QED BY <2>1, <2>2, <3>1, <3>2, PipeTypeKept DEF PipeInv
  <2> QED BY <2>3, <2>4
<1>3. inited <=> getFlag
  BY <1>1, PipeBooleans DEF PipeInv, GetterRuns
<1>4. InitUp' /\ GetterRuns' /\ MainShape'
  BY <1>1, <1>3 DEF PipeInv, InitUp, GetterRuns, MainShape
<1>5. UpAtExit'
  <2>1. CASE getFlag
    BY <1>1, <1>3, <2>1 DEF PipeInv, UpAtExit, StagePartly
  <2>2. CASE ~getFlag
    BY <1>1, <1>3, <2>2 DEF PipeInv, UpAtExit, StagePartly
  <2> QED BY <2>1, <2>2
<1> QED BY <1>2, <1>4, <1>5 DEF PipeInv

(* The stream thread has returned, or never was.                           *)
LEMMA PipeJoinGetter ==
  ASSUME PipeInv, JoinGetter
  PROVE  PipeInv'
<1> USE OrderShape DEF JoinGetter, At, Exiting, Join
<1>1. /\ UNCHANGED <<inited, ispInited, getter, getFlag, stuck>>
      /\ main = [what |-> "join", k |-> 5]
      /\ main' = [what |-> "venc", k |-> 5] /\ up' = up \ {"Getter"}
      /\ crashed' \in BOOLEAN
      /\ getter \in {"none", "returned"}
  BY DEF PipeInv, PipeTypeOK
<1>2. PipeTypeOK'
  <2>1. up' \subseteq Parts
    BY <1>1 DEF PipeInv, PipeTypeOK
  <2> QED BY <1>1, <2>1, PipeBooleans, PipeTypeKept DEF PipeInv
<1>3. /\ FirstParts(15) \ {"Getter"} = FirstParts(14)
      /\ FirstParts(14) \ {"Getter"} = FirstParts(14)
  BY Prefixes
<1>4. InitUp' /\ GetterRuns' /\ MainShape'
  BY <1>1 DEF PipeInv, InitUp, GetterRuns, MainShape
<1>5. UpAtExit'
  BY <1>1, <1>3 DEF PipeInv, UpAtExit
<1> QED BY <1>2, <1>4, <1>5 DEF PipeInv

(* What a stop leaves, whatever it is a stop of.                           *)
LEMMA StopOutcome ==
  ASSUME PipeInv, NEW o, Stop(o),
         UNCHANGED <<inited, ispInited, getFlag, getter, crashed>>
  PROVE  /\ up' \subseteq Parts
         /\ {inited', ispInited', getFlag', stuck', crashed'} \subseteq BOOLEAN
         /\ getter' \in {"none", "loop", "frame", "returned"}
         /\ ~stuck' => ~stuck /\ up' = up \ o.done /\ o.left \cap up = {}
<1>1. stuck' \in BOOLEAN
  BY Zenon DEF Stop
<1>2. {inited, ispInited, getFlag, stuck, crashed} \subseteq BOOLEAN
  BY DEF PipeInv, PipeTypeOK
<1>3. {inited', ispInited', getFlag', stuck', crashed'} \subseteq BOOLEAN
  BY <1>1, <1>2
<1>4. ~stuck' => ~stuck /\ up' = up \ o.done /\ o.left \cap up = {}
  BY Zenon DEF Stop
<1> QED BY <1>3, <1>4 DEF PipeInv, PipeTypeOK, Stop

(* The encoder is stopped, but not if only its channel is up.              *)
LEMMA PipeStopVenc ==
  ASSUME PipeInv, StopVenc
  PROVE  PipeInv'
<1> USE OrderShape
<1>1. /\ UNCHANGED <<inited, ispInited, getFlag, getter, crashed>>
      /\ main = [what |-> "venc", k |-> 5] /\ main' = [what |-> "exit", k |-> 4]
  BY DEF StopVenc, Exiting, At
<1>2. PICK t \in Tried(<<"VencRecv", "VencChn">>) : Stop(t)
  BY DEF StopVenc
<1>3. PipeTypeOK'
  BY <1>1, <1>2, StopOutcome DEF PipeTypeOK
<1>4. ~stuck' => StagesUp(12, {"VencChn"})' /\ ispInited'
  <2> SUFFICES ASSUME ~stuck'
               PROVE  StagesUp(12, {"VencChn"})' /\ ispInited'
    OBVIOUS
  <2>1. ~stuck /\ up' = up \ t.done /\ t.left \cap up = {}
    BY <1>1, <1>2, StopOutcome
  <2>2. \/ t.done = {} /\ t.left = {"VencRecv"}
        \/ t.done = {"VencRecv"} /\ t.left = {"VencChn"}
        \/ t.done = {"VencRecv", "VencChn"} /\ t.left = {}
    BY TriedTwo
  <2>3. /\ ispInited'
        /\ \/ inited /\ up = FirstParts(14)
           \/ ~inited /\ (up = FirstParts(12) \/ up = FirstParts(13))
    BY <1>1, <2>1 DEF PipeInv, UpAtExit, StagePartly
  <2>4. up' = FirstParts(12) \/ (~inited /\ up' = FirstParts(12) \cup {"VencChn"})
    BY <2>1, <2>2, <2>3, Prefixes
  <2> QED BY <2>3, <2>4, <1>1 DEF StagesUp, Leftovers
<1>5. InitUp' /\ GetterRuns' /\ MainShape'
  BY <1>1 DEF PipeInv, InitUp, GetterRuns, MainShape, At
<1>6. UpAtExit'
  BY <1>1, <1>4 DEF UpAtExit, At
<1> QED BY <1>3, <1>5, <1>6 DEF PipeInv

(* The bindings are removed.                                               *)
LEMMA PipeUnBind ==
  ASSUME PipeInv, UnBind
  PROVE  PipeInv'
<1> USE OrderShape
<1>1. /\ UNCHANGED <<inited, ispInited, getFlag, getter, crashed>>
      /\ main = [what |-> "exit", k |-> 4] /\ main' = [what |-> "exit", k |-> 3]
  BY DEF UnBind, Exiting, At
<1>2. PICK t \in Tried(<<"BindVi", "BindVenc">>) : Stop(t)
  BY DEF UnBind
<1>3. PipeTypeOK'
  BY <1>1, <1>2, StopOutcome DEF PipeTypeOK
<1>4. ~stuck' => StagesUp(10, {"VencChn"})' /\ ispInited'
  <2> SUFFICES ASSUME ~stuck'
               PROVE  StagesUp(10, {"VencChn"})' /\ ispInited'
    OBVIOUS
  <2>1. ~stuck /\ up' = up \ t.done /\ t.left \cap up = {}
    BY <1>1, <1>2, StopOutcome
  <2>2. \/ t.done = {} /\ t.left = {"BindVi"}
        \/ t.done = {"BindVi"} /\ t.left = {"BindVenc"}
        \/ t.done = {"BindVi", "BindVenc"} /\ t.left = {}
    BY TriedTwo
  <2>3. ispInited' /\ (StagesUp(12, {"VencChn"}) \/ StagePartly(10, 11))
    BY <1>1, <2>1 DEF PipeInv, UpAtExit, At
  <2>4. CASE StagesUp(12, {"VencChn"})
    <3>1. PICK L \in Leftovers({"VencChn"}) :
            (inited => L = {}) /\ up = FirstParts(12) \cup L
      BY <2>4 DEF StagesUp
    <3>2. up' = FirstParts(10) \cup L
      BY <2>1, <2>2, <3>1, Prefixes DEF Leftovers
    <3> QED BY <1>1, <2>3, <3>1, <3>2 DEF StagesUp
  <2>5. CASE StagePartly(10, 11)
    <3>1. ~inited /\ (up = FirstParts(10) \/ up = FirstParts(11))
      BY <2>5 DEF StagePartly
    <3>2. up' = FirstParts(10) \cup {}
      BY <2>1, <2>2, <3>1, Prefixes
    <3> QED BY <1>1, <2>3, <3>2 DEF StagesUp, Leftovers
  <2> QED BY <2>3, <2>4, <2>5
<1>5. InitUp' /\ GetterRuns' /\ MainShape'
  BY <1>1 DEF PipeInv, InitUp, GetterRuns, MainShape, At
<1>6. UpAtExit'
  BY <1>1, <1>4 DEF UpAtExit, At
<1> QED BY <1>3, <1>5, <1>6 DEF PipeInv

(* The VPSS is stopped, but not if only its group is up.                   *)
LEMMA PipeStopVpss ==
  ASSUME PipeInv, StopVpss
  PROVE  PipeInv'
<1> USE OrderShape
<1>1. /\ UNCHANGED <<inited, ispInited, getFlag, getter, crashed>>
      /\ main = [what |-> "exit", k |-> 3] /\ main' = [what |-> "exit", k |-> 2]
  BY DEF StopVpss, Exiting, At
<1>2. PICK c \in Dropped({"VpssChn"}), t \in Tried(<<"VpssGrpStart", "VpssGrp">>) :
        Stop([done |-> c.done \cup t.done, left |-> c.left \cup t.left])
  BY DEF StopVpss
<1>3. PipeTypeOK'
  BY <1>1, <1>2, StopOutcome DEF PipeTypeOK
<1>4. ~stuck' => StagesUp(7, {"VencChn", "VpssGrp"})' /\ ispInited'
  <2> SUFFICES ASSUME ~stuck'
               PROVE  StagesUp(7, {"VencChn", "VpssGrp"})' /\ ispInited'
    OBVIOUS
  <2>0. PICK o : o = [done |-> c.done \cup t.done, left |-> c.left \cup t.left]
    OBVIOUS
  <2>1. ~stuck /\ up' = up \ (c.done \cup t.done) /\ (c.left \cup t.left) \cap up = {}
    <3>1. ~stuck /\ up' = up \ o.done /\ o.left \cap up = {}
      BY <1>1, <1>2, <2>0, StopOutcome
    <3> QED BY <2>0, <3>1
  <2>2. \/ t.done = {} /\ t.left = {"VpssGrpStart"}
        \/ t.done = {"VpssGrpStart"} /\ t.left = {"VpssGrp"}
        \/ t.done = {"VpssGrpStart", "VpssGrp"} /\ t.left = {}
    BY TriedTwo
  <2>3. \/ c.done = {"VpssChn"} /\ c.left = {}
        \/ c.done = {} /\ c.left = {"VpssChn"}
    <3>1. PICK f \in SUBSET {"VpssChn"} : c = [done |-> {"VpssChn"} \ f, left |-> f]
      BY DEF Dropped
    <3>2. f = {} \/ f = {"VpssChn"}
      OBVIOUS
    <3> QED BY <3>1, <3>2
  <2>4. ispInited' /\ (StagesUp(10, {"VencChn"}) \/ StagePartly(7, 9))
    BY <1>1, <2>1 DEF PipeInv, UpAtExit, At
  <2>5. CASE StagesUp(10, {"VencChn"})
    <3>1. PICK L \in Leftovers({"VencChn"}) :
            (inited => L = {}) /\ up = FirstParts(10) \cup L
      BY <2>5 DEF StagesUp
    <3>2. up' = FirstParts(7) \cup L
      BY <2>1, <2>2, <2>3, <3>1, Prefixes DEF Leftovers
    <3>3. L \in Leftovers({"VencChn", "VpssGrp"})
      BY DEF Leftovers
    <3> QED BY <1>1, <2>4, <3>1, <3>2, <3>3 DEF StagesUp
  <2>6. CASE StagePartly(7, 9)
    <3>1. ~inited /\ (up = FirstParts(7) \/ up = FirstParts(8) \/ up = FirstParts(9))
      BY <2>6 DEF StagePartly
    <3>2. up' = FirstParts(7) \/ up' = FirstParts(7) \cup {"VpssGrp"}
      BY <2>1, <2>2, <2>3, <3>1, Prefixes
    <3> QED BY <1>1, <2>4, <3>1, <3>2 DEF StagesUp, Leftovers
  <2> QED BY <2>4, <2>5, <2>6
<1>5. InitUp' /\ GetterRuns' /\ MainShape'
  BY <1>1 DEF PipeInv, InitUp, GetterRuns, MainShape, At
<1>6. UpAtExit'
  BY <1>1, <1>4 DEF UpAtExit, At
<1> QED BY <1>3, <1>5, <1>6 DEF PipeInv

(* The input is stopped, but not if only its device is up.                 *)
LEMMA PipeStopVi ==
  ASSUME PipeInv, StopVi
  PROVE  PipeInv'
<1> USE OrderShape
<1>1. /\ UNCHANGED <<inited, ispInited, getFlag, getter, crashed>>
      /\ main = [what |-> "exit", k |-> 2] /\ main' = [what |-> "isp", k |-> 2]
  BY DEF StopVi, Exiting, At
<1>2. PICK t \in Tried(<<"ViChn", "ViDev">>) : Stop(t)
  BY DEF StopVi
<1>3. PipeTypeOK'
  BY <1>1, <1>2, StopOutcome DEF PipeTypeOK
<1>4. ~stuck' => \/ StagesUp(5, {"VencChn", "VpssGrp", "ViDev"})' /\ ispInited'
                 \/ StagePartly(2, 4)' /\ (ispInited' <=> "Isp" \in up')
  <2> SUFFICES ASSUME ~stuck'
               PROVE  \/ StagesUp(5, {"VencChn", "VpssGrp", "ViDev"})' /\ ispInited'
                      \/ StagePartly(2, 4)' /\ (ispInited' <=> "Isp" \in up')
    OBVIOUS
  <2>1. ~stuck /\ up' = up \ t.done /\ t.left \cap up = {}
    BY <1>1, <1>2, StopOutcome
  <2>2. \/ t.done = {} /\ t.left = {"ViChn"}
        \/ t.done = {"ViChn"} /\ t.left = {"ViDev"}
        \/ t.done = {"ViChn", "ViDev"} /\ t.left = {}
    BY TriedTwo
  <2>3. \/ StagesUp(7, {"VencChn", "VpssGrp"}) /\ ispInited
        \/ StagePartly(2, 6) /\ (ispInited <=> "Isp" \in up)
    BY <1>1, <2>1 DEF PipeInv, UpAtExit, At
  <2>4. CASE StagesUp(7, {"VencChn", "VpssGrp"}) /\ ispInited
    <3>1. PICK L \in Leftovers({"VencChn", "VpssGrp"}) :
            (inited => L = {}) /\ up = FirstParts(7) \cup L
      BY <2>4 DEF StagesUp
    <3>2. up' = FirstParts(5) \cup L
      BY <2>1, <2>2, <3>1, Prefixes DEF Leftovers
    <3>3. L \in Leftovers({"VencChn", "VpssGrp", "ViDev"})
      BY DEF Leftovers
    <3> QED BY <1>1, <2>4, <3>1, <3>2, <3>3 DEF StagesUp
  <2>5. CASE StagePartly(2, 6) /\ (ispInited <=> "Isp" \in up)
    <3>1. PICK k \in 2 .. 6 : up = FirstParts(k) /\ ~inited
      BY <2>5 DEF StagePartly
    <3>2. CASE k \in 2 .. 4
      <4>1. up' = up
        <5>1. k = 2 \/ k = 3 \/ k = 4
          BY <3>2
        <5>2. ~("ViChn" \in up) /\ ~("ViDev" \in up)
          BY <3>1, <5>1, Prefixes
        <5> QED BY <2>1, <2>2, <5>2
      <4> QED BY <1>1, <2>5, <3>1, <3>2, <4>1 DEF StagePartly
    <3>3. CASE k = 5 \/ k = 6
      <4>1. up' = FirstParts(5) \/ up' = FirstParts(5) \cup {"ViDev"}
        BY <2>1, <2>2, <3>1, <3>3, Prefixes
      <4>2. ispInited
        BY <2>5, <3>1, <3>3, Prefixes
      <4> QED BY <1>1, <3>1, <4>1, <4>2 DEF StagesUp, Leftovers
    <3> QED BY <3>1, <3>2, <3>3
  <2> QED BY <2>3, <2>4, <2>5
<1>5. InitUp' /\ GetterRuns' /\ MainShape'
  BY <1>1 DEF PipeInv, InitUp, GetterRuns, MainShape, At
<1>6. UpAtExit'
  BY <1>1, <1>4 DEF UpAtExit, At
<1> QED BY <1>3, <1>5, <1>6 DEF PipeInv

(* The system is left with what the stops before gave up on.               *)
LEMMA PipeStopSys ==
  ASSUME PipeInv, StopSys
  PROVE  PipeInv'
<1> USE OrderShape
<1>1. /\ UNCHANGED <<inited, ispInited, getFlag, getter, crashed>>
      /\ main = [what |-> "exit", k |-> 1] /\ main' = [what |-> "ended", k |-> 0]
  BY DEF StopSys, Exiting, At
<1>2. PICK c \in Dropped({"SYS", "VB"}) : Stop(c)
  BY DEF StopSys
<1>3. PipeTypeOK'
  BY <1>1, <1>2, StopOutcome DEF PipeTypeOK
<1>4. ~stuck' => StagesUp(0, {"VencChn", "VpssGrp", "ViDev", "IspMem"})'
  <2> SUFFICES ASSUME ~stuck'
               PROVE  StagesUp(0, {"VencChn", "VpssGrp", "ViDev", "IspMem"})'
    OBVIOUS
  <2>1. ~stuck /\ up' = up \ c.done /\ c.left \cap up = {}
    BY <1>1, <1>2, StopOutcome
  <2>2. c.done = {"SYS", "VB"} \ c.left
    BY DEF Dropped
  <2>3. up' = up \ {"SYS", "VB"}
    BY <2>1, <2>2
  <2>4. StagesUp(2, {"VencChn", "VpssGrp", "ViDev", "IspMem"}) \/ StagePartly(0, 1)
    BY <1>1, <2>1 DEF PipeInv, UpAtExit, At
  <2>5. CASE StagesUp(2, {"VencChn", "VpssGrp", "ViDev", "IspMem"})
    <3>1. PICK L \in Leftovers({"VencChn", "VpssGrp", "ViDev", "IspMem"}) :
                 (inited => L = {}) /\ up = FirstParts(2) \cup L
      BY <2>5 DEF StagesUp
    <3>2. up' = FirstParts(0) \cup L
      BY <2>3, <3>1, Prefixes DEF Leftovers
    <3> QED BY <1>1, <3>1, <3>2 DEF StagesUp
  <2>6. CASE StagePartly(0, 1)
    <3>1. up = FirstParts(0) \/ up = FirstParts(1)
      BY <2>6 DEF StagePartly
    <3>2. up' = FirstParts(0) \cup {}
      BY <2>3, <3>1, Prefixes
    <3> QED BY <3>2 DEF StagesUp, Leftovers
  <2> QED BY <2>4, <2>5, <2>6
<1>5. InitUp' /\ GetterRuns' /\ MainShape'
  BY <1>1 DEF PipeInv, InitUp, GetterRuns, MainShape, At
<1>6. UpAtExit'
  BY <1>1, <1>4 DEF UpAtExit, At
<1> QED BY <1>3, <1>5, <1>6 DEF PipeInv

(* The ISP is stopped, but not if only its memory is up.                   *)
LEMMA PipeStopIsp ==
  ASSUME PipeInv, StopIsp
  PROVE  PipeInv'
<1> USE OrderShape
<1>1. /\ UNCHANGED <<inited, getFlag, getter>> /\ ~ispInited'
      /\ ispInited' \in BOOLEAN
      /\ main = [what |-> "isp", k |-> 2]
      /\ main' = [what |-> "exit", k |-> 1] \/ main' = [what |-> "hang", k |-> 0]
  BY DEF StopIsp, Exiting, At, PipeInv, MainShape
<1>2. {inited, ispInited, getFlag, stuck, crashed} \subseteq BOOLEAN /\ up \subseteq Parts
  BY DEF PipeInv, PipeTypeOK
<1>3. ~stuck => \/ StagesUp(5, {"VencChn", "VpssGrp", "ViDev"}) /\ ispInited
                \/ StagePartly(2, 4) /\ (ispInited <=> "Isp" \in up)
  BY <1>1 DEF PipeInv, UpAtExit
<1>4. ~stuck => (ispInited => "Isp" \in up)
  <2>1. StagesUp(5, {"VencChn", "VpssGrp", "ViDev"}) => "Isp" \in up
    BY Prefixes DEF StagesUp
  <2> QED BY <1>3, <2>1
<1>5. CASE ~ispInited
  <2>1. main' = [what |-> "exit", k |-> 1] /\ UNCHANGED <<up, stuck, crashed>>
    BY <1>5 DEF StopIsp, At
  <2>2. ~stuck => StagesUp(2, {"VencChn", "VpssGrp", "ViDev", "IspMem"})'
    <3>1. ~stuck =>
            /\ ~inited /\ "Isp" \notin up
            /\ up = FirstParts(2) \/ up = FirstParts(3) \/ up = FirstParts(4)
      BY <1>3, <1>5 DEF StagePartly
    <3>2. ~stuck => ~inited /\ (up = FirstParts(2) \/ up = FirstParts(2) \cup {"IspMem"})
      BY <3>1, Prefixes
    <3> QED BY <1>1, <2>1, <3>2 DEF StagesUp, Leftovers
  <2>3. PipeTypeOK'
    BY <1>1, <1>2, <2>1 DEF PipeInv, PipeTypeOK
  <2>4. InitUp' /\ GetterRuns' /\ MainShape'
    BY <1>1, <2>1 DEF PipeInv, InitUp, GetterRuns, MainShape, At
  <2>5. UpAtExit'
    BY <2>1, <2>2 DEF UpAtExit, At
  <2> QED BY <2>3, <2>4, <2>5 DEF PipeInv
<1>6. ASSUME ispInited, NEW o, Stop(o), crashed' \in BOOLEAN,
             \/ /\ o = [done |-> {"Isp", "IspMem", "IspRun"}, left |-> {}]
                /\ main' = [what |-> "exit", k |-> 1]
             \/ o = [done |-> {}, left |-> {"Isp"}]
      PROVE  PipeInv'
  <2>1. stuck' \in BOOLEAN /\ up' \subseteq Parts
    BY <1>2, <1>6, Zenon DEF Stop
  <2>2. ~stuck' => ~stuck /\ up' = up \ o.done /\ o.left \cap up = {}
    BY <1>6, Zenon DEF Stop
  <2>3. PipeTypeOK'
    <3>1. {inited', ispInited', getFlag', stuck', crashed'} \subseteq BOOLEAN
      BY <1>1, <1>2, <1>6, <2>1
    <3>2. main' \in [what : {"init", "run", "exit", "join", "venc", "isp", "hang",
                           "ended"}, k : 0 .. Len(Order)]
      BY <1>1
    <3>3. getter' \in {"none", "loop", "frame", "returned"}
      BY <1>1 DEF PipeInv, PipeTypeOK
    <3> QED BY <2>1, <3>1, <3>2, <3>3, Zenon DEF PipeTypeOK
  <2>4. InitUp' /\ GetterRuns' /\ MainShape'
    BY <1>1 DEF PipeInv, InitUp, GetterRuns, MainShape, At
  <2>5. ~stuck' => /\ main' = [what |-> "exit", k |-> 1]
                   /\ StagesUp(2, {"VencChn", "VpssGrp", "ViDev", "IspMem"})'
    <3> SUFFICES ASSUME ~stuck'
                 PROVE  /\ main' = [what |-> "exit", k |-> 1]
                        /\ StagesUp(2, {"VencChn", "VpssGrp", "ViDev", "IspMem"})'
      OBVIOUS
    <3>1. ~stuck /\ "Isp" \in up
      BY <1>4, <1>6, <2>2
    <3>2. o.done = {"Isp", "IspMem", "IspRun"} /\ main' = [what |-> "exit", k |-> 1]
      BY <1>6, <2>2, <3>1
    <3>3. up' = up \ {"Isp", "IspMem", "IspRun"}
      BY <2>2, <3>2
    <3>4. CASE StagesUp(5, {"VencChn", "VpssGrp", "ViDev"})
      <4>1. PICK L \in Leftovers({"VencChn", "VpssGrp", "ViDev"}) :
                   (inited => L = {}) /\ up = FirstParts(5) \cup L
        BY <3>4 DEF StagesUp
      <4>2. up' = FirstParts(2) \cup L
        BY <3>3, <4>1, Prefixes DEF Leftovers
      <4>3. L \in Leftovers({"VencChn", "VpssGrp", "ViDev", "IspMem"})
        BY DEF Leftovers
      <4> QED BY <1>1, <3>2, <4>1, <4>2, <4>3 DEF StagesUp
    <3>5. CASE StagePartly(2, 4)
      <4>1. up = FirstParts(2) \/ up = FirstParts(3) \/ up = FirstParts(4)
        BY <3>5 DEF StagePartly
      <4>2. up' = FirstParts(2) \cup {}
        BY <3>1, <3>3, <4>1, Prefixes
      <4> QED BY <3>2, <4>2 DEF StagesUp, Leftovers
    <3> QED BY <1>3, <3>1, <3>4, <3>5
  <2>6. UpAtExit'
    BY <2>5 DEF UpAtExit, At
  <2> QED BY <2>3, <2>4, <2>6 DEF PipeInv
<1>7. CASE ispInited
  <2>1. crashed' \in BOOLEAN
    BY <1>2, <1>7 DEF StopIsp, Join
  <2>2. CASE Stop([done |-> {"Isp", "IspMem", "IspRun"}, left |-> {}]) /\ main' = At("exit", 1)
    BY <1>6, <1>7, <2>1, <2>2 DEF At
  <2>3. CASE Stop([done |-> {}, left |-> {"Isp"}])
    BY <1>6, <1>7, <2>1, <2>3
  <2> QED BY <1>7, <2>2, <2>3, Zenon DEF StopIsp
<1> QED BY <1>5, <1>7

(* Nothing is up at first.                                                 *)
LEMMA PipeInvInit == PipeInit => PipeInv
<1> SUFFICES ASSUME PipeInit PROVE PipeInv
  OBVIOUS
<1> USE OrderShape DEF PipeInit, At
<1>1. PipeTypeOK
  <2>1. {inited, ispInited, getFlag, stuck, crashed} = {FALSE} /\ up \subseteq Parts
    OBVIOUS
  <2>2. main.what = "init" /\ main.k = 1 /\ main = [what |-> "init", k |-> 1] /\ Len(Order) = 15
    OBVIOUS
  <2>3. main \in [what : {"init", "run", "exit", "join", "venc", "isp", "hang",
                        "ended"}, k : 0 .. Len(Order)]
    BY <2>2
  <2>4. {inited, ispInited, getFlag, stuck, crashed} \subseteq BOOLEAN
    BY <2>1
  <2> QED BY <2>1, <2>3, <2>4, Zenon DEF PipeTypeOK
<1> QED BY <1>1 DEF PipeInv, InitUp, GetterRuns, UpAtExit,
                                          MainShape

(* A process that was killed stops where it is.                            *)
LEMMA PipeKilled == PipeInv /\ Killed => PipeInv'
<1> SUFFICES ASSUME PipeInv, Killed PROVE PipeInv'
  OBVIOUS
<1>1. crashed' = TRUE /\ UNCHANGED <<main, inited, up, ispInited, getFlag, getter, stuck>>
  BY Zenon DEF Killed
<1>2. {inited, ispInited, getFlag, stuck, crashed}' \subseteq BOOLEAN
  BY <1>1, Zenon DEF PipeInv, PipeTypeOK
<1>3. PipeTypeOK'
  BY <1>1, <1>2, Zenon DEF PipeInv, PipeTypeOK
<1>4. InitUp' /\ GetterRuns' /\ MainShape'
  BY <1>1 DEF PipeInv, InitUp, GetterRuns, MainShape
<1>5. UpAtExit'
  BY <1>1 DEF PipeInv, UpAtExit, StagePartly, StagesUp
<1> QED BY <1>3, <1>4, <1>5 DEF PipeInv

(* Every step of main and of the stream thread keeps the invariant.        *)
LEMMA PipeInvNext == PipeInv /\ [PipeNext]_pipeVars => PipeInv'
<1> SUFFICES ASSUME PipeInv, [PipeNext]_pipeVars PROVE PipeInv'
  OBVIOUS
<1>1. CASE UNCHANGED pipeVars
  BY <1>1 DEF pipeVars, PipeInv, PipeTypeOK, InitUp, GetterRuns, UpAtExit, MainShape,
              StagePartly, StagesUp
<1> QED
  BY <1>1, PipeStart, PipeFail, PipeFailGetter, PipeKeys, PipeGetter, PipeStopGetStream,
     PipeKilled, PipeJoinGetter, PipeStopVenc, PipeUnBind, PipeStopVpss, PipeStopVi, PipeStopIsp,
     PipeStopSys, Zenon DEF PipeNext, MainNext, Exit

(* The pipeline's variables keep their types (hp_ipc.c, camera.c).          *)
THEOREM PipeTypeCorrect == PipeSpec => []PipeTypeOK
<1>1. PipeInv => PipeTypeOK
  BY DEF PipeInv
<1> QED BY <1>1, PipeInvInit, PipeInvNext, PTL DEF PipeSpec

(* The stream thread asks for frames only while everything it needs is up: *)
(* IPC_exit stops nothing before it has joined vdGetVencStreamProc.        *)
THEOREM GetterSafe == PipeSpec => []GetterBacked
<1>1. PipeInv => GetterBacked
  BY DEF PipeInv, GetterRuns, GetterBacked
<1> QED BY <1>1, PipeInvInit, PipeInvNext, PTL DEF PipeSpec

(* Whatever part of IPC_Init failed, its labels and IPC_exit leave nothing *)
(* up when no stop fails, or at most the first part of the failed stage.   *)
THEOREM AllReleased == PipeSpec => []Released
<1>1. PipeInv => Released
  <2> SUFFICES ASSUME PipeInv, main.what = "ended", ~stuck
               PROVE  IF inited THEN up = {}
                      ELSE \E part \in {"IspMem", "ViDev", "VpssGrp", "VencChn"} : up \subseteq {part}
    BY DEF Released
  <2>1. PICK L \in Leftovers({"VencChn", "VpssGrp", "ViDev", "IspMem"}) :
               (inited => L = {}) /\ up = FirstParts(0) \cup L
    BY DEF PipeInv, UpAtExit, StagesUp
  <2>2. up = L
    BY <2>1, OrderShape
  <2> QED BY <2>1, <2>2 DEF Leftovers
<1> QED BY <1>1, PipeInvInit, PipeInvNext, PTL DEF PipeSpec

-----------------------------------------------------------------------------
(* The process.                                                            *)

(* A step of the process, as each part sees it.                            *)
LEMMA IpcStep ==
  ASSUME [IpcNext]_ipcVars
  PROVE  [RtspNext]_rtspVars /\ [ListNext]_listVars /\ [PipeNext]_pipeVars
<1>1. CASE UNCHANGED ipcVars
  BY <1>1, Zenon DEF ipcVars
<1>2. CASE Main
  BY <1>2, Zenon DEF Main, PipeNext
<1>3. CASE ClientComes
  BY <1>3, Zenon DEF ClientComes, RtspNext
<1>4. CASE ClientLeaves
  <2>1. PICK c \in Conns : Teardown(c) \/ RecvFails(c)
    BY <1>4, Zenon DEF ClientLeaves
  <2>2. RtspNext
    BY <2>1, Zenon DEF RtspNext, ClientThread
  <2> QED BY <1>4, <2>2, Zenon DEF ClientLeaves
<1>5. CASE Rtsp
  <2>1. CASE Accept \/ Fill
    BY <1>5, <2>1, Zenon DEF Rtsp, RtspNext
  <2>2. ASSUME NEW c \in Conns,
               Loop(c) \/ Query(c) \/ Setup(c) \/ PlayAnswer(c) \/ Play(c)
               \/ TeardownAnswer(c) \/ Close(c)
        PROVE  RtspNext
    BY <2>2, Zenon DEF RtspNext, ClientThread
  <2> QED BY <1>5, <2>1, <2>2, Zenon DEF Rtsp
<1>6. CASE SaveStart
  BY <1>6, Zenon DEF SaveStart, ListNext
<1>7. CASE SavePack
  BY <1>7, Zenon DEF SavePack, ListNext
<1>8. CASE SaveEnd
  BY <1>8, Zenon DEF SaveEnd, ListNext, PipeNext
<1>9. CASE NoSave
  BY <1>9, Zenon DEF NoSave, PipeNext
<1>10. CASE Send
  BY <1>10, Zenon DEF Send, SendStart, SendStatus, SendPort, SendIP, SendPacket,
                      SendEnd, ListNext
<1>11. CASE BrokenPipe
  BY <1>11, Zenon DEF BrokenPipe, PipeNext
<1> QED BY <1>1, <1>2, <1>3, <1>4, <1>5, <1>6, <1>7, <1>8, <1>9, <1>10, <1>11, Zenon
        DEF IpcNext

(* hp-ipc implements the RTSP server, the list of packs and the pipeline   *)
(* it is made of: the process (camera.c, hp_ipc.c) lets each of them do    *)
(* only what it does alone.                                                *)
THEOREM IpcImplementsParts == IpcSpec => RtspSpec /\ ListSpec /\ PipeSpec
<1>1. IpcInit => RtspInit /\ ListInit /\ PipeInit
  BY DEF IpcInit
<1>2. [IpcNext]_ipcVars =>
        [RtspNext]_rtspVars /\ [ListNext]_listVars /\ [PipeNext]_pipeVars
  BY IpcStep
<1> QED BY <1>1, <1>2, PTL DEF IpcSpec, RtspSpec, ListSpec, PipeSpec

(* In the process, too, no answer goes out on the connection of an earlier *)
(* client (rtsp_server.c).                                                 *)
THEOREM IpcNewest == IpcSpec => []NewestOnly
BY IpcImplementsParts, NewestServed, PTL

(* In the process, too, clients that come one after the other are received *)
(* from and answered by their own thread (RtspClientMsg).                  *)
THEOREM IpcAnswered == IpcSpec => []OrderlyAnswers
BY IpcImplementsParts, ClientAnswered, PTL

(* In the process, too, their stream runs into no connection (VENC_Sent).  *)
THEOREM IpcDirected == IpcSpec => []OrderlyStream
BY IpcImplementsParts, StreamDirected, PTL

(* In the process, too, tidy clients leave the server listening and at     *)
(* most one stream socket open (RtspServerListen).                         *)
THEOREM IpcListens == IpcSpec => []TidyListens
BY IpcImplementsParts, SocketsBounded, PTL

(* In the process, too, packs are sent in order and each once, and no node *)
(* is used after it was freed, unless the threads meet at the last pack    *)
(* (saveStream and vdRTPSendThread).                                       *)
THEOREM IpcListSafe == IpcSpec => []ListSound
BY IpcImplementsParts, ListSafe, PTL

(* In the process, too, the stream thread asks for frames only while       *)
(* everything it needs is up (vdGetVencStreamProc and IPC_exit).           *)
THEOREM IpcBacked == IpcSpec => []GetterBacked
BY IpcImplementsParts, GetterSafe, PTL

(* In the process, too, nothing of the hardware stays taken, whatever part *)
(* fails to come up, but the first of its stage (IPC_Init and IPC_exit).   *)
THEOREM IpcReleases == IpcSpec => []Released
BY IpcImplementsParts, AllReleased, PTL

-----------------------------------------------------------------------------

(* What VENC_Sent keeps has its types, and it has packets to send from the *)
(* moment it found the client SENDING.                                     *)
Under == {"port", "ip", "packets"}
SenderTypes ==
  /\ seqnum \in Nat /\ left \in 0 .. MaxFragments
  /\ venc \in Under \cup {"status", "done"}
  /\ to \in [port : 0 .. MaxConns, ip : 0 .. MaxConns]
  /\ served \in Nat /\ late \in BOOLEAN
  /\ venc \in Under <=> left > 0

(* Every step keeps them, for the slot names a client that came.           *)
LEMMA SenderTypesNext ==
  ASSUME RtspTypeOK, SenderTypes, [IpcNext]_ipcVars
  PROVE  SenderTypes'
<1> USE IpcAssumption DEF SenderTypes
<1>1. CASE UNCHANGED rtpVars
  BY <1>1 DEF rtpVars
<1>2. CASE ClientComes \/ ClientLeaves
  <2>1. seqnum' \in Nat /\ UNCHANGED <<left, venc, to>> /\ served' \in Nat
    BY <1>2 DEF ClientComes, ClientLeaves, ResetSeqnum
  <2>2. late' \in BOOLEAN
    BY <1>2, Zenon DEF ClientComes, ClientLeaves
  <2> QED BY <2>1, <2>2
<1>3. CASE SendStart \/ SendStatus
  <2>1. venc \notin Under
    <3>1. CASE SendStart
      BY <3>1 DEF SendStart, Under
    <3>2. CASE SendStatus
      BY <3>2 DEF SendStatus, Under
    <3> QED BY <1>3, <3>1, <3>2
  <2>2. /\ UNCHANGED <<seqnum, to, served, late>>
        /\ \/ venc' = "port" /\ left' \in 1 .. MaxFragments
           \/ venc' \in {"status", "done"} /\ left' = left
    BY <1>3, Zenon DEF SendStart, SendStatus
  <2>3. CASE venc' = "port" /\ left' \in 1 .. MaxFragments
    BY <2>2, <2>3 DEF Under
  <2>4. CASE venc' \in {"status", "done"} /\ left' = left
    BY <2>1, <2>2, <2>4 DEF Under
  <2> QED BY <2>2, <2>3, <2>4
<1>4. CASE SendPort \/ SendIP
  <2>1. slot.owner \in 0 .. MaxConns /\ slot.port \in 0 .. MaxConns
    BY DEF RtspTypeOK
  <2>2. venc \in Under /\ venc' \in Under
    BY <1>4 DEF SendPort, SendIP, Under
  <2>3. UNCHANGED <<seqnum, left, served, late>>
    BY <1>4, Zenon DEF SendPort, SendIP
  <2>4. to' = [to EXCEPT !.port = slot.port] \/ to' = [to EXCEPT !.ip = slot.owner]
    BY <1>4, Zenon DEF SendPort, SendIP
  <2> QED BY <2>1, <2>2, <2>3, <2>4
<1>7. CASE SendPacket
  <2>1. venc = "packets" /\ left > 0 /\ left \in Nat
    BY <1>7 DEF SendPacket, Under
  <2>2. /\ left' = left - 1 /\ seqnum' = seqnum + 1 /\ late' = late
        /\ served' = served + 1 \/ served' = served
        /\ \/ left = 1 /\ venc' = "done" /\ to' = Nowhere
           \/ left # 1 /\ venc' = venc /\ to' = to
    BY <1>7, Zenon DEF SendPacket
  <2>3. Nowhere \in [port : 0 .. MaxConns, ip : 0 .. MaxConns]
    BY RtspAssumption DEF Nowhere
  <2>4. CASE left = 1 /\ venc' = "done" /\ to' = Nowhere
    BY <2>1, <2>2, <2>3, <2>4 DEF Under
  <2>5. CASE left # 1 /\ venc' = venc /\ to' = to
    BY <2>1, <2>2, <2>5 DEF Under
  <2> QED BY <2>2, <2>4, <2>5
<1>5. CASE \/ Main \/ Rtsp \/ BrokenPipe \/ SaveStart \/ SavePack \/ SaveEnd \/ NoSave
           \/ SendEnd
  <2>1. UNCHANGED rtpVars
    BY <1>5, Zenon DEF Main, Rtsp, BrokenPipe, SaveStart, SavePack, SaveEnd, NoSave, SendEnd
  <2> QED BY <1>1, <2>1
<1>6. CASE UNCHANGED ipcVars
  <2>1. UNCHANGED rtpVars
    BY <1>6, Zenon DEF ipcVars
  <2> QED BY <1>1, <2>1
<1> QED BY <1>2, <1>3, <1>4, <1>5, <1>6, <1>7, Zenon DEF IpcNext, Send

(* Nothing is sent at first.                                               *)
LEMMA SenderTypesInit ==
  ASSUME IpcInit
  PROVE  SenderTypes
<1>1. /\ seqnum = 0 /\ left = 0 /\ venc = "done" /\ to = Nowhere
      /\ served = 0 /\ late = FALSE
  BY Zenon DEF IpcInit
<1>2. late \in BOOLEAN
  BY <1>1, Zenon
<1>3. to \in [port : 0 .. MaxConns, ip : 0 .. MaxConns]
  BY <1>1, RtspAssumption DEF Nowhere
<1>4. venc \notin Under /\ venc \in {"status", "done"} /\ ~(left > 0)
  BY <1>1 DEF Under
<1>5. seqnum \in Nat /\ served \in Nat /\ left \in 0 .. MaxFragments
  BY <1>1, IpcAssumption
<1> QED BY <1>2, <1>3, <1>4, <1>5, Zenon DEF SenderTypes

(* Every variable of the process keeps its type: descriptors, the slot,    *)
(* the list, the pipeline and the RTP sender's counts (hp-ipc).            *)
THEOREM IpcTypeCorrect == IpcSpec => []IpcTypeOK
<1>1. RtspSpec => []RtspTypeOK
  BY RtspTypes
<1>2. ListSpec => []ListTypeOK
  <2>1. ListInv => ListTypeOK
    BY DEF ListInv
  <2> QED BY <2>1, ListInvInit, ListInvNext, PTL DEF ListSpec
<1>3. PipeSpec => []PipeTypeOK
  BY PipeTypeCorrect
<1>4. IpcInit => SenderTypes
  BY SenderTypesInit
<1>5. RtspTypeOK /\ SenderTypes /\ [IpcNext]_ipcVars => SenderTypes'
  BY SenderTypesNext
<1>6. RtspTypeOK /\ ListTypeOK /\ PipeTypeOK /\ SenderTypes => IpcTypeOK
  <2>1. Under \cup {"status", "done"} = {"status", "port", "ip", "packets", "done"}
    BY DEF Under
  <2> QED BY <2>1, Zenon DEF IpcTypeOK, SenderTypes
<1> QED BY <1>1, <1>2, <1>3, <1>4, <1>5, <1>6, IpcImplementsParts, PTL DEF IpcSpec

-----------------------------------------------------------------------------

(* From the moment the slot is cleared for an orderly client until that    *)
(* leaves, the slot's number counts its packets; and until the next one    *)
(* comes, a pack under way is for it.                                      *)
Numbers ==
  (Orderly /\ ~late) =>
    /\ slot.status # "IDLE" \/ listener.pc = "fill" =>
         seqnum = served /\ (venc = "packets" => to.ip = slot.owner)
    /\ venc = "ip" => to.port \in {0, slot.owner}
    /\ venc = "packets" => to.port \in {0, to.ip}
    /\ listener.pc = "fill" => ~(left > 0) /\ slot.status = "IDLE"

IpcInv == OrderlyInv /\ SenderTypes /\ Numbers

(* What an orderly sequence of clients did it goes on to be only while it  *)
(* was.                                                                    *)
LEMMA OrderlyBefore ==
  ASSUME OrderlyInv, [RtspNext]_rtspVars, Orderly'
  PROVE  Orderly /\ OneClient /\ RtspTypeOK
<1>1. disorder \subseteq disorder'
  BY DEF RtspNext, rtspVars, Accept, Reset, Fill, ClientThread, Loop, Query, Setup,
         PlayAnswer, Play, TeardownAnswer, Teardown, RecvFails, Close, Disorder
<1> QED BY <1>1 DEF Orderly, OrderlyInv

(* A request is only served while the slot is the client's, so none but    *)
(* the listener brings an IDLE slot back.                                  *)
LEMMA NumbersServer ==
  ASSUME OrderlyInv, SenderTypes, Numbers, Rtsp
  PROVE  Numbers'
<1> SUFFICES ASSUME Orderly', ~late'
             PROVE  Numbers'
  BY DEF Numbers
<1>1. RtspNext
  <2>1. CASE Accept \/ Fill
    BY <2>1 DEF RtspNext
  <2>2. ASSUME NEW c \in Conns,
               Loop(c) \/ Query(c) \/ Setup(c) \/ PlayAnswer(c) \/ Play(c)
               \/ TeardownAnswer(c) \/ Close(c)
        PROVE  RtspNext
    BY <2>2, Zenon DEF RtspNext, ClientThread
  <2> QED BY <2>1, <2>2, Zenon DEF Rtsp
<1>2. Orderly /\ OneClient /\ RtspTypeOK
  BY <1>1, OrderlyBefore
<1>3. UNCHANGED <<seqnum, left, venc, to, served, late>>
  BY DEF Rtsp, rtpVars
<1>4. slot \in Slots /\ listener \in Listeners /\ thread \in [Conns -> Threads]
  BY <1>2, Typed
<1>5. CASE Accept
  <2>1. UNCHANGED slot /\ listener'.pc \in {"reset", "exited"}
    BY <1>4, <1>5 DEF Accept, Listeners
  <2> QED BY <1>2, <1>3, <2>1 DEF Numbers
<1>6. CASE Fill
  <2>1. listener.pc = "fill" /\ listener'.pc = "accept"
    BY <1>6 DEF Fill
  <2>2. venc \notin {"ip", "packets"}
    BY <1>2, <1>3, <2>1 DEF Numbers, SenderTypes, Under
  <2> QED BY <1>2, <1>3, <2>1, <2>2 DEF Numbers
<1>7. ASSUME NEW c \in Conns, Play(c)
      PROVE  Numbers'
  <2>1. Alive(c) /\ thread[c].pc = "play"
    BY <1>7 DEF Play, Alive
  <2>2. slot.status # "IDLE" /\ listener.pc = "accept"
    BY <1>2, <2>1 DEF OneClient, Holds
  <2>3. slot'.owner = slot.owner /\ UNCHANGED listener
    BY <1>4, <1>7 DEF Play, Slots
  <2> QED BY <1>2, <1>3, <2>2, <2>3 DEF Numbers
<1>8. ASSUME NEW c \in Conns,
             \/ Loop(c) \/ Query(c) \/ Setup(c) \/ PlayAnswer(c) \/ TeardownAnswer(c)
             \/ Close(c)
      PROVE  Numbers'
  <2>1. slot'.owner = slot.owner /\ slot'.status = slot.status /\ UNCHANGED listener
    BY <1>4, <1>8 DEF Loop, Query, Setup, PlayAnswer, TeardownAnswer, Close, Slots
  <2> QED BY <1>2, <1>3, <2>1 DEF Numbers
<1> QED BY <1>5, <1>6, <1>7, <1>8, Zenon DEF Rtsp

(* When the listener clears the slot no pack is under way, or it is late.  *)
LEMMA NumbersCome ==
  ASSUME SenderTypes, ClientComes
  PROVE  Numbers'
<1> SUFFICES ASSUME ~late'
             PROVE  Numbers'
  BY DEF Numbers
<1>1. ~(left > 0) /\ UNCHANGED left /\ served' = 0
  BY DEF ClientComes
<1>2. seqnum' = 0
  BY <1>1 DEF ClientComes, ResetSeqnum
<1>3. slot'.status = "IDLE"
  BY DEF ClientComes, Reset, EmptySlot
<1>4. venc' \notin {"ip", "packets"}
  BY <1>1, Zenon DEF ClientComes, SenderTypes, Under
<1> QED BY <1>1, <1>2, <1>3, <1>4 DEF Numbers

(* A client leaves an IDLE slot that is still its own, and the listener is *)
(* not about to fill it.                                                   *)
LEMMA NumbersLeave ==
  ASSUME OrderlyInv, Numbers, ClientLeaves
  PROVE  Numbers'
<1> SUFFICES ASSUME Orderly', ~late'
             PROVE  Numbers'
  BY DEF Numbers
<1>1. PICK c \in Conns : Teardown(c) \/ RecvFails(c)
  BY DEF ClientLeaves
<1>2. RtspNext
  BY <1>1, Zenon DEF RtspNext, ClientThread
<1>3. Orderly /\ OneClient /\ RtspTypeOK
  BY <1>2, OrderlyBefore
<1>4. slot \in Slots
  BY <1>3, Typed
<1>5. Alive(c)
  BY <1>1 DEF Teardown, RecvFails, Alive
<1>6. listener.pc = "accept" /\ UNCHANGED listener
  BY <1>1, <1>3, <1>5 DEF OneClient, Holds, Teardown, RecvFails
<1>7. slot'.status = "IDLE" /\ slot'.owner = slot.owner
  BY <1>1, <1>4 DEF Teardown, RecvFails, Slots
<1>8. UNCHANGED <<venc, to, late>>
  BY DEF ClientLeaves
<1> QED BY <1>3, <1>6, <1>7, <1>8 DEF Numbers

(* A packet is counted for the client it is numbered for, and the address  *)
(* is taken from a slot that is one client's.                              *)
LEMMA NumbersSend ==
  ASSUME OrderlyInv, SenderTypes, Numbers, Send
  PROVE  Numbers'
<1>1. UNCHANGED <<slot, listener, disorder, late>>
  BY DEF Send, SendStart, SendStatus, SendPort, SendIP, SendPacket, SendEnd, rtspVars,
         rtpVars
<1> SUFFICES ASSUME Orderly, ~late
             PROVE  /\ slot.status # "IDLE" \/ listener.pc = "fill" =>
                         seqnum' = served' /\ (venc' = "packets" => to'.ip = slot.owner)
                    /\ venc' = "ip" => to'.port \in {0, slot.owner}
                    /\ venc' = "packets" => to'.port \in {0, to'.ip}
                    /\ listener.pc = "fill" => ~(left' > 0) /\ slot.status = "IDLE"
  BY <1>1 DEF Numbers, Orderly
<1>2. CASE SendStart
  BY <1>2 DEF SendStart, Numbers
<1>3. CASE SendStatus
  BY <1>3 DEF SendStatus, Numbers
<1>4. CASE SendPort
  <2>1. slot.port \in {0, slot.owner}
    BY DEF OrderlyInv, OneClient
  <2>2. venc' = "ip" /\ to'.port = slot.port /\ UNCHANGED <<seqnum, left, served>>
    BY <1>4 DEF SendPort, SenderTypes
  <2> QED BY <2>1, <2>2 DEF Numbers
<1>5. CASE SendIP
  <2>1. /\ venc = "ip" /\ venc' = "packets" /\ UNCHANGED <<seqnum, left, served>>
        /\ to'.ip = slot.owner /\ to'.port = to.port
    BY <1>5 DEF SendIP, SenderTypes
  <2> QED BY <2>1 DEF Numbers
<1>6. CASE SendPacket
  <2>1. venc = "packets" /\ left > 0 /\ left' = left - 1 /\ left \in Nat
    BY <1>6 DEF SendPacket, SenderTypes, Under
  <2>2. /\ seqnum' = seqnum + 1 /\ (to.ip = slot.owner => served' = served + 1)
        /\ venc' = "done" \/ (venc' = venc /\ to' = to)
    BY <1>6, Zenon DEF SendPacket
  <2>3. listener.pc # "fill"
    BY <2>1 DEF Numbers
  <2> QED BY <2>1, <2>2, <2>3 DEF Numbers
<1>7. CASE SendEnd
  BY <1>7 DEF SendEnd, rtpVars, Numbers
<1> QED BY <1>2, <1>3, <1>4, <1>5, <1>6, <1>7, Zenon DEF Send

(* In the process, with clients that come one after the other, RTP packets *)
(* are numbered from 0 for each client and addressed to one, unless one    *)
(* came while a pack for another was under way (VENC_Sent and              *)
(* RtspServerListen).                                                      *)
THEOREM IpcNumbers == IpcSpec => []NumberedFromZero
<1>1. IpcInit => IpcInv
  <2> SUFFICES ASSUME IpcInit
               PROVE  IpcInv
    OBVIOUS
  <2>1. OrderlyInv
    BY OrderlyInit DEF IpcInit
  <2>2. slot.status = "IDLE" /\ listener.pc = "accept" /\ venc = "done"
    BY DEF IpcInit, RtspInit, EmptySlot
  <2> QED BY <2>1, <2>2, SenderTypesInit DEF IpcInv, Numbers
<1>2. IpcInv /\ [IpcNext]_ipcVars => IpcInv'
  <2> SUFFICES ASSUME IpcInv, [IpcNext]_ipcVars
               PROVE  IpcInv'
    OBVIOUS
  <2>1. OrderlyInv'
    BY IpcStep, OrderlyNext DEF IpcInv
  <2>2. Numbers'
    <3>1. CASE UNCHANGED <<rtspVars, rtpVars>>
      BY <3>1 DEF IpcInv, Numbers, Orderly, rtspVars, rtpVars
    <3>2. CASE UNCHANGED ipcVars
      BY <3>1, <3>2 DEF ipcVars
    <3>3. CASE Main \/ BrokenPipe \/ SaveStart \/ SavePack \/ SaveEnd \/ NoSave
      BY <3>1, <3>3 DEF Main, BrokenPipe, SaveStart, SavePack, SaveEnd, NoSave
    <3>4. CASE ClientComes \/ ClientLeaves \/ Rtsp \/ Send
      BY <3>4, NumbersCome, NumbersLeave, NumbersServer, NumbersSend DEF IpcInv
    <3> QED BY <3>2, <3>3, <3>4, Zenon DEF IpcNext
  <2>3. SenderTypes'
    BY SenderTypesNext DEF IpcInv, OrderlyInv
  <2> QED BY <2>1, <2>2, <2>3 DEF IpcInv
<1>3. IpcInv => NumberedFromZero
  BY DEF IpcInv, Numbers, NumberedFromZero
<1> QED BY <1>1, <1>2, <1>3, PTL DEF IpcSpec

=============================================================================
