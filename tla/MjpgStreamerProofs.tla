------------------------- MODULE MjpgStreamerProofs --------------------------
(***************************************************************************)
(* What is proved of mjpg-streamer-lite for any output plugins, clients    *)
(* and pictures.                                                           *)
(***************************************************************************)
EXTENDS MjpgStreamer, TLAPS

(* The types by name; pictures are those shown so far. *)
Mains == {"open", "start", "outputs", "pause", "unopened", "halt", "outs",
          "hang", "exited"}
Workers == {"none", "loop", "read", "lock", "fill", "cleanup", "done"}
Places == {"none", "loop", "lock", "wait", "woken", "copy", "copying", "write",
           "done"}
Pictures == {Filling, Freed} \cup 0 .. published
Typed ==
  /\ main \in Mains /\ stop \in BOOLEAN /\ destroyed \in BOOLEAN /\ oom \in BOOLEAN
  /\ started \subseteq Outputs /\ stopped \subseteq Outputs
  /\ owner \in Readers \cup {Input, None}
  /\ published \in 0 .. MaxFrames /\ buf \in Pictures
  /\ worker \in Workers /\ pc \in [Readers -> Places]
  /\ got \in [Readers -> Pictures] /\ since \in [Readers -> 0 .. published]
  /\ cancelled \subseteq Outputs \cup {Input}

(* The input thread starts when its plugin is run, a plugin's thread when  *)
(* that is; nothing is cancelled or destroyed before the signal.           *)
Startup ==
  /\ main \in {"open", "start"} => worker = "none"
  /\ \A w \in Writers \ started : pc[w] = "none"
  /\ ~stop => /\ main \in {"open", "start", "outputs", "pause"}
              /\ ~destroyed /\ cancelled = {}

(* A picture that is to come fits, and malloc failed only in a thread that *)
(* has ended.                                                              *)
Room ==
  /\ worker \in {"lock", "fill"} => published < MaxFrames
  /\ oom => WorkerGone

(* The mutex is with the thread that fills or copies as long as it exists. *)
Locked ==
  ~destroyed =>
    /\ worker = "fill" => owner = Input
    /\ \A r \in Readers : pc[r] \in {"copy", "copying"} => owner = r

(* Unless it is being read the newest picture is in the buffer.            *)
Newest == worker \notin {"fill", "cleanup", "done"} => buf = published

Inv == Typed /\ Startup /\ Room /\ Locked /\ Newest /\ QuietUntilStopped

-----------------------------------------------------------------------------

(* Threads do not take each other's names.                                 *)
LEMMA Names ==
  /\ Input # None
  /\ \A r \in Readers : r # Input /\ r # None
  /\ \A o \in Outputs : o # Input /\ o # None
  /\ Writers \subseteq Readers /\ Writers \subseteq Outputs /\ Server \in Outputs
  /\ Clients \subseteq Readers /\ Writers \cap Clients = {}
BY MjpgAssumption, NamesAssumption DEF Readers, Outputs, Input, None

(* Nothing runs and no picture is published when main begins. *)
LEMMA InvInit ==
  ASSUME Init
  PROVE  Inv
<1> USE MjpgAssumption
<1>1. 0 \in 0 .. MaxFrames /\ 0 \in 0 .. 0
  OBVIOUS
<1>2. /\ main = "open" /\ ~stop /\ started = {} /\ stopped = {} /\ owner = None
      /\ ~destroyed /\ buf = 0 /\ published = 0 /\ worker = "none"
      /\ cancelled = {} /\ ~oom
  BY Zenon DEF Init
<1>3. \A r \in Readers : pc[r] = "none" /\ got[r] = 0 /\ since[r] = 0
  BY DEF Init
<1>4. pc \in [Readers -> Places]
  BY DEF Init, Places
<1>5. since \in [Readers -> 0 .. published] /\ got \in [Readers -> Pictures]
  <2>1. 0 \in Pictures /\ 0 \in 0 .. published
    BY <1>1, <1>2 DEF Pictures
  <2> QED BY <2>1 DEF Init
<1>6. Typed
  <2>1. main \in Mains /\ worker \in Workers /\ buf \in Pictures
    BY <1>2 DEF Mains, Workers, Pictures
  <2>2. owner \in Readers \cup {Input, None} /\ published \in 0 .. MaxFrames
    BY <1>1, <1>2
  <2>3. stop \in BOOLEAN /\ destroyed \in BOOLEAN /\ oom \in BOOLEAN
    BY Zenon DEF Init
  <2> QED BY <1>2, <1>4, <1>5, <2>1, <2>2, <2>3 DEF Typed
<1>7. Startup /\ Room /\ Locked /\ Newest
  BY <1>2, <1>3, Names DEF Startup, Room, Locked, Newest
<1>8. QuietUntilStopped
  BY <1>2, <1>3, Names DEF QuietUntilStopped
<1> QED BY <1>6, <1>7, <1>8 DEF Inv

-----------------------------------------------------------------------------

(* What a reader's step has to keep: the mutex changes hands only between  *)
(* it and nobody, and is with it if it copies.                             *)
LEMMA ReaderKeeps ==
  ASSUME Inv, NEW r \in Readers, NEW p \in Places,
         UNCHANGED readerOnly, pc' = [pc EXCEPT ![r] = p],
         got' \in [Readers -> Pictures], since' \in [Readers -> 0 .. published],
         \/ owner' = owner
         \/ owner = None /\ owner' = r
         \/ owner = r /\ owner' = None,
         r \notin Writers \ started,
         (~destroyed /\ p \in {"copy", "copying"}) => owner' = r,
         ~stop => (owner' = r <=> p \in {"copy", "copying"})
  PROVE  Inv'
<1>1. UNCHANGED <<main, stop, started, stopped, destroyed, buf, published, worker,
                  cancelled, oom>>
  BY Zenon DEF readerOnly
<1>2. Typed /\ pc \in [Readers -> Places]
  BY Zenon DEF Inv, Typed
<1>3. /\ pc' \in [Readers -> Places] /\ pc'[r] = p
      /\ \A q \in Readers \ {r} : pc'[q] = pc[q]
  BY <1>2
<1>4. r # Input /\ r # None /\ Input # None /\ \A q \in Readers : q # None
  BY Names
<1>5. /\ owner' = Input <=> owner = Input
      /\ \A q \in Readers \ {r} : owner' = q <=> owner = q
  BY <1>4
<1>6. Typed'
  <2>1. owner' \in Readers \cup {Input, None}
    BY <1>2 DEF Typed
  <2> QED BY <1>1, <1>2, <1>3, <2>1, Zenon DEF Typed, Pictures
<1>7. Startup'
  BY <1>1, <1>3, Names DEF Inv, Startup
<1>8. Room' /\ Newest'
  BY <1>1, Zenon DEF Inv, Room, Newest, WorkerGone
<1>9. Locked'
  BY <1>1, <1>3, <1>5 DEF Inv, Locked
<1>10. QuietUntilStopped'
  BY <1>1, <1>3, <1>5 DEF Inv, QuietUntilStopped
<1> QED BY <1>6, <1>7, <1>8, <1>9, <1>10 DEF Inv

(* A reader moves from a place where it does not copy to another.          *)
LEMMA ReaderMoves ==
  ASSUME Inv, NEW r \in Readers, NEW p \in Places \ {"copy", "copying"},
         UNCHANGED <<readerOnly, owner, got>>, pc' = [pc EXCEPT ![r] = p],
         since' \in [Readers -> 0 .. published],
         r \in Clients \/ pc[r] # "none", pc[r] \notin {"copy", "copying"}
  PROVE  Inv'
<1>1. UNCHANGED readerOnly /\ owner' = owner /\ got' = got
  OBVIOUS
<1>2. got \in [Readers -> Pictures]
  BY DEF Inv, Typed
<1>3. r \notin Writers \ started
  BY Names DEF Inv, Startup
<1>4. ~stop => ~(owner = r)
  BY DEF Inv, QuietUntilStopped
<1> QED BY <1>1, <1>2, <1>3, <1>4, ReaderKeeps

(* A step of a client or output thread keeps the invariant. *)
LEMMA InvReader ==
  ASSUME Inv, NEW r \in Readers, Connect(r) \/ Spurious(r) \/ Reader(r)
  PROVE  Inv'
<1>1. /\ pc \in [Readers -> Places] /\ since \in [Readers -> 0 .. published]
      /\ got \in [Readers -> Pictures] /\ published \in Nat /\ buf \in Pictures
  BY MjpgAssumption DEF Inv, Typed
<1>2. Over(r) \in {"none", "done"}
  BY DEF Over
<1>3. pc[r] # "none" => r \notin Writers \ started
  BY DEF Inv, Startup
<1>4. CASE Connect(r)
  <2>1. /\ UNCHANGED <<readerOnly, owner, got>> /\ UNCHANGED since
        /\ pc[r] = "none" /\ r \in Clients
        /\ \E p \in {"loop", "lock"} : pc' = [pc EXCEPT ![r] = p]
    BY <1>4 DEF Connect, Goto
  <2> QED BY <1>1, <2>1, ReaderMoves DEF Places
<1>5. CASE ReaderLoop(r)
  <2>1. /\ UNCHANGED <<readerOnly, owner, got>> /\ UNCHANGED since
        /\ pc[r] = "loop"
        /\ \E p \in {Over(r), "lock"} : pc' = [pc EXCEPT ![r] = p]
    BY <1>5 DEF ReaderLoop, Goto
  <2> QED BY <1>1, <1>2, <2>1, ReaderMoves DEF Places
<1>6. CASE Wait(r)
  <2>1. /\ UNCHANGED <<readerOnly, owner, got>>
        /\ pc[r] = "lock" /\ pc' = [pc EXCEPT ![r] = "wait"]
        /\ since' = [since EXCEPT ![r] = published]
    BY <1>6 DEF Wait, Goto
  <2>2. since' \in [Readers -> 0 .. published]
    BY <1>1, <2>1
  <2> QED BY <2>1, <2>2, ReaderMoves DEF Places
<1>7. CASE Spurious(r)
  <2>1. /\ UNCHANGED <<readerOnly, owner, got>> /\ UNCHANGED since
        /\ pc[r] = "wait" /\ pc' = [pc EXCEPT ![r] = "woken"]
    BY <1>7 DEF Spurious, Goto
  <2> QED BY <1>1, <2>1, ReaderMoves DEF Places
<1>8. CASE Relock(r)
  <2>1. /\ UNCHANGED readerOnly /\ UNCHANGED <<got, since>>
        /\ pc[r] = "woken" /\ pc' = [pc EXCEPT ![r] = "copy"]
        /\ IF destroyed THEN owner' = owner ELSE owner = None /\ owner' = r
    BY <1>8 DEF Relock, Goto, Acquire
  <2>2. ~stop => ~destroyed
    BY DEF Inv, Startup
  <2>3. "copy" \in Places
    BY DEF Places
  <2> QED BY <1>1, <1>3, <2>1, <2>2, <2>3, ReaderKeeps
<1>9. CASE Copy(r)
  <2>1. /\ UNCHANGED readerOnly /\ UNCHANGED <<owner, since>>
        /\ pc[r] = "copy" /\ pc' = [pc EXCEPT ![r] = "copying"]
        /\ got' = [got EXCEPT ![r] = buf]
    BY <1>9 DEF Copy, Goto
  <2>2. got' \in [Readers -> Pictures]
    BY <1>1, <2>1
  <2>3. (~destroyed => owner = r) /\ (~stop => owner = r)
    BY <2>1 DEF Inv, Locked, QuietUntilStopped
  <2>4. "copying" \in Places
    BY DEF Places
  <2> QED BY <1>1, <1>3, <2>1, <2>2, <2>3, <2>4, ReaderKeeps
<1>10. CASE CopyFails(r) \/ Copied(r)
  <2>1. PICK p \in {Over(r), "write"} :
          /\ UNCHANGED readerOnly /\ UNCHANGED <<got, since>>
          /\ pc[r] \in {"copy", "copying"} /\ pc' = [pc EXCEPT ![r] = p]
          /\ owner' = IF owner = r THEN None ELSE owner
    BY <1>10 DEF CopyFails, Copied, Goto, Release
  <2>2. p \in Places /\ p \notin {"copy", "copying"}
    BY <1>2 DEF Places
  <2>3. owner' # r
    BY <2>1, Names
  <2>4. r \notin Writers \ started
    BY <1>3, <2>1
  <2> QED BY <1>1, <2>1, <2>2, <2>3, <2>4, ReaderKeeps
<1>11. CASE Write(r)
  <2>1. /\ UNCHANGED <<readerOnly, owner, got>> /\ UNCHANGED since
        /\ pc[r] = "write"
        /\ \E p \in {Over(r), "loop"} : pc' = [pc EXCEPT ![r] = p]
    BY <1>11 DEF Write, Goto
  <2> QED BY <1>1, <1>2, <2>1, ReaderMoves DEF Places
<1>12. CASE WaitCancelled(r)
  <2>1. /\ UNCHANGED readerOnly /\ UNCHANGED <<got, since>>
        /\ pc[r] \in {"wait", "woken"} /\ pc' = [pc EXCEPT ![r] = "done"]
        /\ owner' = owner \/ (owner = None /\ owner' = r)
        /\ r \in cancelled
    BY <1>12 DEF WaitCancelled, Goto, Acquire
  <2>2. stop = TRUE
    BY <2>1 DEF Inv, Startup, Typed
  <2>3. "done" \in Places
    BY DEF Places
  <2> QED BY <1>1, <1>3, <2>1, <2>2, <2>3, ReaderKeeps
<1>13. CASE WriteCancelled(r)
  <2>1. /\ UNCHANGED <<readerOnly, owner, got>> /\ UNCHANGED since
        /\ pc[r] = "write" /\ pc' = [pc EXCEPT ![r] = "done"]
    BY <1>13 DEF WriteCancelled, Goto
  <2> QED BY <1>1, <2>1, ReaderMoves DEF Places
<1> QED
  BY <1>4, <1>5, <1>6, <1>7, <1>8, <1>9, <1>10, <1>11, <1>12, <1>13, Zenon
     DEF Reader

-----------------------------------------------------------------------------

(* The input thread moves, and everything else is as it was.               *)
LEMMA WorkerMoves ==
  ASSUME Inv, UNCHANGED workerOnly, UNCHANGED <<owner, buf, published, pc, got, oom>>,
         worker' \in Workers \ {"none", "fill"}, worker \notin {"none", "cleanup", "done"},
         worker' = "lock" => published < MaxFrames,
         worker = "fill" => stop /\ worker' = "cleanup"
  PROVE  Inv'
<1>1. UNCHANGED <<main, stop, started, stopped, destroyed, since, cancelled>>
  BY Zenon DEF workerOnly
<1>2. Typed'
  BY <1>1, Zenon DEF Inv, Typed, Pictures
<1>3. Startup'
  BY <1>1, Zenon DEF Inv, Startup
<1>4. Room'
  BY DEF Inv, Room, WorkerGone
<1>5. Locked' /\ Newest'
  BY <1>1 DEF Inv, Locked, Newest
<1>6. QuietUntilStopped'
  BY <1>1 DEF Inv, QuietUntilStopped
<1> QED BY <1>2, <1>3, <1>4, <1>5, <1>6 DEF Inv

(* A step of the input thread, its cancellation included, keeps the        *)
(* invariant.                                                              *)
LEMMA InvWorker ==
  ASSUME Inv, Worker
  PROVE  Inv'
<1>1. /\ pc \in [Readers -> Places] /\ since \in [Readers -> 0 .. published]
      /\ got \in [Readers -> Pictures] /\ published \in 0 .. MaxFrames
      /\ worker \in Workers /\ owner \in Readers \cup {Input, None}
      /\ Input \in cancelled => stop
  BY DEF Inv, Typed, Startup
<1>2. UNCHANGED <<main, stop, started, stopped, destroyed, since, cancelled>>
  BY Zenon DEF Worker, workerOnly, WorkerLoop, Event, WorkerCancelled, NewBuffer,
     ShowFrame, FillFails, FillCancelled, Cleanup
<1>3. CASE WorkerLoop \/ WorkerCancelled \/ FillCancelled
  <2>1. /\ UNCHANGED workerOnly /\ UNCHANGED <<owner, buf, published, pc, got, oom>>
        /\ worker' \in {"read", "cleanup"} /\ worker \in {"loop", "read", "fill"}
        /\ worker = "fill" => stop /\ worker' = "cleanup"
    BY <1>1, <1>3 DEF WorkerLoop, WorkerCancelled, FillCancelled, WorkerGoto
  <2> QED BY <2>1, WorkerMoves DEF Workers
<1>4. CASE Event
  <2>1. /\ UNCHANGED workerOnly /\ UNCHANGED <<owner, buf, published, pc, got, oom>>
        /\ worker' \in {"loop", "cleanup", "lock"} /\ worker = "read"
        /\ worker' = "lock" => published < MaxFrames
    BY <1>4 DEF Event, WorkerGoto
  <2> QED BY <2>1, WorkerMoves DEF Workers
<1>5. CASE NewBuffer
  <2>1. /\ worker = "lock" /\ worker' \in {"fill", "cleanup"}
        /\ UNCHANGED <<published, pc, got>>
        /\ IF destroyed THEN owner' = owner ELSE owner = None /\ owner' = Input
        /\ buf' = IF worker' = "fill" THEN Filling ELSE 0
        /\ oom' = (worker' = "cleanup")
    BY <1>5 DEF NewBuffer, WorkerGoto, Acquire
  <2>2. Typed'
    <3>1. buf' \in Pictures'
      BY <1>1, <2>1, MjpgAssumption DEF Pictures
    <3>2. worker' \in Workers /\ oom' \in BOOLEAN
      BY <2>1 DEF Workers
    <3>3. owner' \in Readers \cup {Input, None}
      BY <1>1, <2>1
    <3>4. got' \in [Readers -> Pictures']
      BY <1>1, <2>1, Zenon DEF Pictures
    <3> QED BY <1>2, <2>1, <3>1, <3>2, <3>3, <3>4, Zenon DEF Inv, Typed
  <2>3. Startup'
    BY <1>2, <2>1 DEF Inv, Startup
  <2>4. Room' /\ Newest'
    BY <2>1 DEF Inv, Room, Newest, WorkerGone
  <2>5. Locked'
    BY <1>2, <2>1, Names DEF Inv, Locked
  <2>6. QuietUntilStopped'
    <3>1. ~stop => ~destroyed
      BY DEF Inv, Startup
    <3> QED BY <1>2, <2>1, <3>1, Names DEF Inv, QuietUntilStopped
  <2> QED BY <2>2, <2>3, <2>4, <2>5, <2>6 DEF Inv
<1>6. CASE ShowFrame \/ FillFails
  <2>1. /\ worker = "fill" /\ worker' \in {"loop", "cleanup"} /\ UNCHANGED <<got, oom>>
        /\ owner' = IF owner = Input THEN None ELSE owner
        /\ \/ published' = published + 1 /\ buf' = published + 1 /\ worker' = "loop"
           \/ published' = published /\ buf' = 0 /\ worker' = "cleanup"
    BY <1>6 DEF ShowFrame, FillFails, WorkerGoto, Release
  <2>2. /\ pc' \in [Readers -> Places]
        /\ \A r \in Readers : pc'[r] = pc[r] \/ (pc[r] = "wait" /\ pc'[r] = "woken")
    <3>1. CASE FillFails
      <4>1. pc' = pc
        BY <3>1, Zenon DEF FillFails
      <4> QED BY <1>1, <4>1
    <3>2. CASE ShowFrame
      <4>1. pc' = [r \in Readers |-> IF pc[r] = "wait" THEN "woken" ELSE pc[r]]
        BY <3>2, Zenon DEF ShowFrame
      <4>2. "woken" \in Places
        BY DEF Places
      <4> QED BY <1>1, <4>1, <4>2
    <3> QED BY <1>6, <3>1, <3>2
  <2>3. published < MaxFrames /\ ~oom
    BY <2>1 DEF Inv, Room, WorkerGone
  <2>4. Typed'
    <3>1. published' \in 0 .. MaxFrames /\ buf' \in Pictures'
      BY <1>1, <2>1, <2>3, MjpgAssumption DEF Pictures
    <3>2. Pictures \subseteq Pictures' /\ 0 .. published \subseteq 0 .. published'
      BY <1>1, <2>1 DEF Pictures
    <3>3. got' \in [Readers -> Pictures'] /\ since' \in [Readers -> 0 .. published']
      BY <1>1, <1>2, <2>1, <3>2
    <3>4. owner' \in Readers \cup {Input, None} /\ worker' \in Workers
      BY <1>1, <2>1 DEF Workers
    <3> QED BY <1>2, <2>1, <2>2, <3>1, <3>3, <3>4, Zenon DEF Inv, Typed
  <2>5. Startup'
    BY <1>2, <2>1, <2>2, Names DEF Inv, Startup
  <2>6. Room' /\ Newest'
    BY <2>1, <2>3 DEF Room, Newest, WorkerGone
  <2>7. Locked'
    BY <1>2, <2>1, <2>2, Names DEF Inv, Locked
  <2>8. QuietUntilStopped'
    BY <1>2, <2>1, <2>2, <2>3, Names DEF Inv, QuietUntilStopped
  <2> QED BY <2>4, <2>5, <2>6, <2>7, <2>8 DEF Inv
<1>7. CASE Cleanup
  <2>1. /\ worker = "cleanup" /\ worker' = "done"
        /\ UNCHANGED <<owner, published, pc, oom>>
        /\ buf' \in {0, Freed}
        /\ \A r \in Readers : got'[r] \in {got[r], Freed}
        /\ got' = [r \in Readers |-> got'[r]]
    BY <1>7 DEF Cleanup, WorkerGoto
  <2>2. Typed'
    <3>1. 0 \in Pictures /\ Freed \in Pictures /\ Pictures' = Pictures
      BY <1>1, <2>1, MjpgAssumption DEF Pictures
    <3>2. got' \in [Readers -> Pictures] /\ buf' \in Pictures
      BY <1>1, <2>1, <3>1
    <3>3. worker' \in Workers
      BY <2>1 DEF Workers
    <3> QED BY <1>2, <2>1, <3>1, <3>2, <3>3, Zenon DEF Inv, Typed
  <2>3. Startup'
    BY <1>2, <2>1 DEF Inv, Startup
  <2>4. Room' /\ Newest' /\ Locked'
    BY <1>2, <2>1 DEF Inv, Room, Newest, Locked, WorkerGone
  <2>5. QuietUntilStopped'
    BY <1>2, <2>1 DEF Inv, QuietUntilStopped
  <2> QED BY <2>2, <2>3, <2>4, <2>5 DEF Inv
<1> QED BY <1>3, <1>4, <1>5, <1>6, <1>7, Zenon DEF Worker

-----------------------------------------------------------------------------

(* main touches neither mutex nor buffer; it runs threads before the       *)
(* signal, and cancels and destroys after it.                              *)
LEMMA MainMoves ==
  ASSUME Inv, UNCHANGED mainOnly, UNCHANGED <<worker, pc>>,
         main' \in Mains, main' \in {"open", "start"} => worker = "none",
         started \subseteq started', started' \subseteq Outputs,
         stopped' \subseteq Outputs, cancelled' \subseteq Outputs \cup {Input},
         stop' \in BOOLEAN, stop => stop',
         ~stop' => main' \in {"open", "start", "outputs", "pause"} /\ cancelled' = {}
  PROVE  Inv'
<1>1. UNCHANGED <<owner, destroyed, buf, published, got, since, oom>>
  BY Zenon DEF mainOnly
<1>2. Typed'
  BY <1>1, Zenon DEF Inv, Typed, Pictures
<1>3. Startup'
  BY <1>1 DEF Inv, Startup
<1>4. Room' /\ Locked' /\ Newest'
  BY <1>1, Zenon DEF Inv, Room, Locked, Newest, WorkerGone
<1>5. QuietUntilStopped'
  BY <1>1, Zenon DEF Inv, QuietUntilStopped
<1> QED BY <1>2, <1>3, <1>4, <1>5 DEF Inv

(* A step of main, who starts and cancels the others, keeps the invariant. *)
LEMMA InvMain ==
  ASSUME Inv, Main
  PROVE  Inv'
<1>1. /\ main \in Mains /\ stop \in BOOLEAN /\ started \subseteq Outputs
      /\ stopped \subseteq Outputs /\ cancelled \subseteq Outputs \cup {Input}
      /\ pc \in [Readers -> Places]
      /\ ~stop => main \in {"open", "start", "outputs", "pause"} /\ cancelled = {}
      /\ main \in {"open", "start"} => worker = "none"
  BY Zenon DEF Inv, Typed, Startup
<1>2. CASE OpenPlugins \/ Interrupt \/ CallNull \/ Exit
  <2>1. /\ UNCHANGED mainOnly
        /\ UNCHANGED <<worker, pc, started, stopped, cancelled>>
    BY <1>2, Zenon DEF OpenPlugins, Interrupt, CallNull, Exit
  <2>2. \/ main = "open" /\ main' = "start" /\ stop' = stop
        \/ main' \in {"unopened", "halt"} /\ stop' = TRUE
        \/ main \in {"unopened", "outs"} /\ main' = "exited" /\ stop' = stop
    BY <1>2 DEF OpenPlugins, Interrupt, CallNull, Exit
  <2>3. stop = TRUE \/ main \notin {"unopened", "outs"}
    BY <1>1
  <2>4. main' \in Mains
    BY <2>2 DEF Mains
  <2> QED BY <1>1, <2>1, <2>2, <2>3, <2>4, MainMoves
<1>3. CASE StopInput
  <2>1. /\ UNCHANGED mainOnly /\ UNCHANGED <<worker, pc, started, stopped, stop>>
        /\ main = "halt" /\ main' \in {"outs", "exited"}
        /\ cancelled' \subseteq cancelled \cup {Input}
    BY <1>3 DEF StopInput, Cancel
  <2>2. stop = TRUE
    BY <1>1, <2>1
  <2>3. main' \in Mains
    BY <2>1 DEF Mains
  <2> QED BY <1>1, <2>1, <2>2, <2>3, MainMoves
<1>4. CASE RunInput
  <2>1. /\ UNCHANGED mainOnly /\ UNCHANGED <<stop, started, stopped, pc, cancelled>>
        /\ main = "start" /\ main' = "outputs" /\ worker' = "loop" /\ worker = "none"
    BY <1>1, <1>4 DEF RunInput
  <2>2. UNCHANGED <<owner, destroyed, buf, published, got, since, oom>>
    BY <2>1, Zenon DEF mainOnly
  <2>3. main' \in Mains /\ worker' \in Workers
    BY <2>1 DEF Mains, Workers
  <2>4. Typed'
    BY <2>1, <2>2, <2>3, Zenon DEF Inv, Typed, Pictures
  <2>5. Startup'
    BY <2>1, <2>2 DEF Inv, Startup
  <2>6. Room' /\ Locked' /\ Newest'
    BY <2>1, <2>2 DEF Inv, Room, Locked, Newest, WorkerGone
  <2>7. QuietUntilStopped'
    BY <2>1, <2>2 DEF Inv, QuietUntilStopped
  <2> QED BY <2>4, <2>5, <2>6, <2>7 DEF Inv
<1>5. CASE RunOutput
  <2>1. PICK o \in Outputs \ started :
          /\ started' = started \cup {o}
          /\ pc' = IF o \in Writers THEN [pc EXCEPT ![o] = "loop"] ELSE pc
    BY <1>5 DEF RunOutput
  <2>2. /\ UNCHANGED mainOnly /\ UNCHANGED <<stop, stopped, worker, cancelled>>
        /\ main = "outputs" /\ main' \in {"outputs", "pause"}
    BY <1>5 DEF RunOutput
  <2>3. UNCHANGED <<owner, destroyed, buf, published, got, since, oom>>
    BY <2>2, Zenon DEF mainOnly
  <2>4. /\ pc' \in [Readers -> Places]
        /\ \A r \in Readers : r # o => pc'[r] = pc[r]
        /\ \A r \in Readers : pc'[r] = pc[r] \/ (pc[r] = "none" /\ pc'[r] = "loop")
    <3>1. CASE o \in Writers
      <4>1. pc[o] = "none" /\ o \in Readers
        BY <3>1, Names DEF Inv, Startup
      <4>2. pc' = [pc EXCEPT ![o] = "loop"]
        BY <2>1, <3>1
      <4> QED BY <1>1, <4>1, <4>2 DEF Places
    <3>2. CASE o \notin Writers
      BY <1>1, <2>1, <3>2
    <3> QED BY <3>1, <3>2
  <2>5. main' \in Mains
    BY <2>2 DEF Mains
  <2>6. Typed'
    BY <1>1, <2>1, <2>2, <2>3, <2>4, <2>5, Zenon DEF Inv, Typed, Pictures
  <2>7. Startup'
    BY <2>1, <2>2, <2>3, <2>4, Names DEF Inv, Startup
  <2>8. Room' /\ Newest'
    BY <2>2, <2>3, Zenon DEF Inv, Room, Newest, WorkerGone
  <2>9. Locked'
    BY <2>2, <2>3, <2>4 DEF Inv, Locked
  <2>10. QuietUntilStopped'
    BY <2>2, <2>3, <2>4 DEF Inv, QuietUntilStopped
  <2> QED BY <2>6, <2>7, <2>8, <2>9, <2>10 DEF Inv
<1>6. CASE StopOutput
  <2>1. /\ UNCHANGED <<stop, started, owner, buf, published, worker, pc, got, since, oom>>
        /\ destroyed' = TRUE /\ main = "outs" /\ main' \in {"outs", "hang", "exited"}
        /\ \E o \in Outputs : /\ stopped' = stopped \cup {o}
                             /\ cancelled' \subseteq cancelled \cup {o}
    BY <1>6 DEF StopOutput, Cancel
  <2>2. stop = TRUE
    BY <1>1, <2>1
  <2>3. main' \in Mains
    BY <2>1 DEF Mains
  <2>4. stopped' \subseteq Outputs /\ cancelled' \subseteq Outputs \cup {Input}
    BY <1>1, <2>1
  <2>5. Typed'
    BY <1>1, <2>1, <2>3, <2>4, Zenon DEF Inv, Typed, Pictures
  <2>6. Startup'
    BY <2>1, <2>2 DEF Inv, Startup
  <2>7. Room' /\ Locked' /\ Newest'
    BY <2>1, Zenon DEF Inv, Room, Locked, Newest, WorkerGone
  <2>8. QuietUntilStopped'
    BY <2>1, <2>2 DEF QuietUntilStopped
  <2> QED BY <2>5, <2>6, <2>7, <2>8 DEF Inv
<1> QED BY <1>2, <1>3, <1>4, <1>5, <1>6, Zenon DEF Main

(* The three together: every step keeps the invariant. *)
LEMMA InvNext ==
  ASSUME Inv, [Next]_vars
  PROVE  Inv'
<1>1. CASE Next
  BY <1>1, InvMain, InvWorker, InvReader, Zenon DEF Next
<1>2. CASE UNCHANGED vars
  <2>1. UNCHANGED <<main, stop, started, stopped, owner, destroyed, buf, published,
                    worker, pc, got, since, cancelled, oom>>
    BY <1>2, Zenon DEF vars
  <2>2. Typed' /\ Startup'
    BY <2>1, Zenon DEF Inv, Typed, Pictures, Startup
  <2>3. Room' /\ Locked' /\ Newest' /\ QuietUntilStopped'
    BY <2>1, Zenon DEF Inv, Room, Locked, Newest, WorkerGone, QuietUntilStopped
  <2> QED BY <2>2, <2>3 DEF Inv
<1> QED BY <1>1, <1>2

(* Every variable of the program keeps its type.                           *)
THEOREM MjpgTypes == Spec => []TypeOK
<1>1. Inv => TypeOK
  <2> SUFFICES ASSUME Inv PROVE TypeOK
    OBVIOUS
  <2>1. Typed /\ published \in 0 .. MaxFrames
    BY DEF Inv, Typed
  <2>2. Pictures \subseteq {Filling, Freed} \cup 0 .. MaxFrames
    BY <2>1, MjpgAssumption DEF Pictures
  <2>3. /\ buf \in {Filling, Freed} \cup 0 .. MaxFrames
        /\ got \in [Readers -> {Filling, Freed} \cup 0 .. MaxFrames]
    BY <2>1, <2>2 DEF Typed
  <2>4. {stop, destroyed, oom} \subseteq BOOLEAN
    BY <2>1 DEF Typed
  <2> QED BY <2>1, <2>3, <2>4, Zenon DEF TypeOK, Typed, Mains, Workers, Places
<1> QED BY <1>1, InvInit, InvNext, PTL DEF Spec

(* Until SIGINT no thread ends with the mutex, on whichever path, and no   *)
(* two copy or fill at a time (worker_thread of input_file and output_file, *)
(* send_stream and send_snapshot).                                         *)
THEOREM MutexReturned == Spec => []QuietUntilStopped
<1>1. Inv => QuietUntilStopped
  BY DEF Inv
<1> QED BY <1>1, InvInit, InvNext, PTL DEF Spec

-----------------------------------------------------------------------------

(* The board is open while the input thread shows pictures and the mutex   *)
(* is there.                                                               *)
Open == ~WorkerGone /\ ~destroyed

(* What a step does to the board: it is given up for good, a picture is    *)
(* shown, a copy made of the newest one, or nothing.                       *)
LEMMA BoardUse ==
  ASSUME Inv, Next
  PROVE  /\ Open' => Open
         /\ published' \in {published, published + 1}
         /\ Open' => \/ published' = published + 1 /\ got' = got
                     \/ published' = published /\ got' = got
                     \/ published' = published /\ \E r \in Readers :
                          got' = [got EXCEPT ![r] = published]
<1> DEFINE P == /\ Open' => Open
                /\ published' \in {published, published + 1}
                /\ Open' => \/ published' = published + 1 /\ got' = got
                            \/ published' = published /\ got' = got
                            \/ published' = published /\ \E r \in Readers :
                                 got' = [got EXCEPT ![r] = published]
<1>1. CASE Main
  <2>1. UNCHANGED <<published, got>>
    BY <1>1, Zenon DEF Main, OpenPlugins, RunInput, RunOutput, Interrupt, CallNull,
       StopInput, StopOutput, Exit, mainOnly
  <2>2. destroyed => destroyed'
    BY <1>1, Zenon DEF Main, OpenPlugins, RunInput, RunOutput, Interrupt, CallNull,
       StopInput, StopOutput, Exit, mainOnly
  <2>3. CASE RunInput
    <3>1. ~WorkerGone
      BY <2>3 DEF RunInput, WorkerGone, Inv, Startup
    <3> QED BY <2>1, <2>2, <3>1 DEF Open
  <2>4. CASE ~RunInput
    <3>1. worker' = worker
      BY <1>1, <2>4, Zenon DEF Main, OpenPlugins, RunOutput, Interrupt, CallNull,
         StopInput, StopOutput, Exit, mainOnly
    <3>2. WorkerGone' <=> WorkerGone
      BY <3>1, Zenon DEF WorkerGone
    <3> QED BY <2>1, <2>2, <3>2 DEF Open
  <2> QED BY <2>3, <2>4
<1>2. CASE Worker
  <2>1. destroyed' = destroyed
    BY <1>2, Zenon DEF Worker, workerOnly, WorkerLoop, Event, WorkerCancelled,
       NewBuffer, ShowFrame, FillFails, FillCancelled, Cleanup
  <2>2. CASE ShowFrame
    <3>1. worker = "fill" /\ published' = published + 1 /\ got' = got
      BY <2>2 DEF ShowFrame, WorkerGoto
    <3> QED BY <2>1, <3>1 DEF Open, WorkerGone
  <2>3. CASE Cleanup
    <3>1. worker' = "done" /\ published' = published
      BY <2>3 DEF Cleanup, WorkerGoto
    <3> QED BY <3>1 DEF Open, WorkerGone
  <2>4. CASE WorkerLoop \/ Event \/ WorkerCancelled \/ NewBuffer \/ FillFails
             \/ FillCancelled
    <3>1. UNCHANGED <<published, got>>
      BY <2>4, Zenon DEF WorkerLoop, Event, WorkerCancelled, NewBuffer, FillFails,
         FillCancelled
    <3>2. worker \in {"loop", "read", "lock", "fill"}
      BY <2>4 DEF WorkerLoop, Event, WorkerCancelled, NewBuffer, FillFails,
         FillCancelled, WorkerGoto
    <3> QED BY <2>1, <3>1, <3>2 DEF Open, WorkerGone
  <2> QED BY <1>2, <2>2, <2>3, <2>4, Zenon DEF Worker
<1>3. ASSUME NEW r \in Readers, Connect(r) \/ Spurious(r) \/ Reader(r) PROVE P
  <2>1. UNCHANGED <<worker, destroyed, published, buf>>
    BY <1>3, Zenon DEF Reader, Connect, Spurious, ReaderLoop, Wait, Relock, Copy,
       CopyFails, Copied, Write, WaitCancelled, WriteCancelled, readerOnly
  <2>2. Open' <=> Open
    BY <2>1, Zenon DEF Open, WorkerGone
  <2>3. CASE Copy(r)
    <3>1. pc[r] = "copy" /\ got' = [got EXCEPT ![r] = buf]
      BY <2>3 DEF Copy, Goto
    <3>2. ASSUME Open PROVE buf = published
      <4>1. owner = r
        BY <3>1, <3>2 DEF Open, Inv, Locked
      <4>2. worker # "fill"
        BY <3>2, <4>1, Names DEF Open, Inv, Locked
      <4> QED BY <3>2, <4>2 DEF Open, WorkerGone, Inv, Newest
    <3> QED BY <2>1, <2>2, <3>1, <3>2
  <2>4. CASE ~Copy(r)
    <3>1. got' = got
      BY <1>3, <2>4, Zenon DEF Reader, Connect, Spurious, ReaderLoop, Wait, Relock,
         CopyFails, Copied, Write, WaitCancelled, WriteCancelled
    <3> QED BY <2>1, <2>2, <3>1
  <2> QED BY <2>3, <2>4
<1> QED BY <1>1, <1>2, <1>3, Zenon DEF Next

(* Every step is a step of the frame board, or one the board does not see. *)
LEMMA BoardStep ==
  ASSUME Inv, Inv', [Next]_vars
  PROVE  [Board!BoardNext]_Board!boardVars
<1>1. CASE UNCHANGED vars
  BY <1>1, Zenon DEF vars, Board!boardVars, WorkerGone
<1>2. CASE Next /\ ~Open'
  <2>1. published' \in {published, published + 1}
    BY <1>2, BoardUse
  <2>2. got' \in [Readers -> 0 .. published' \cup {Filling, Freed}]
    BY DEF Inv, Typed, Pictures
  <2>3. Board!Abandon
    BY <1>2, <2>1, <2>2 DEF Board!Abandon, Open
  <2> QED BY <2>3 DEF Board!BoardNext
<1>3. CASE Next /\ Open'
  <2>1. /\ Open
        /\ \/ published' = published + 1 /\ got' = got
           \/ published' = published /\ got' = got
           \/ published' = published /\ \E r \in Readers :
                got' = [got EXCEPT ![r] = published]
    BY <1>3, BoardUse
  <2>2. (~WorkerGone /\ ~destroyed) /\ (~WorkerGone /\ ~destroyed)'
    BY <1>3, <2>1 DEF Open
  <2>3. CASE published' = published + 1 /\ got' = got
    <3>1. Board!Publish
      BY <2>2, <2>3 DEF Board!Publish
    <3> QED BY <3>1 DEF Board!BoardNext
  <2>4. CASE published' = published /\ got' = got
    BY <2>2, <2>4 DEF Board!boardVars
  <2>5. ASSUME published' = published,
               NEW r \in Readers, got' = [got EXCEPT ![r] = published]
        PROVE  Board!BoardNext
    <3>1. Board!See(r)
      BY <2>2, <2>5 DEF Board!See
    <3> QED BY <3>1 DEF Board!BoardNext
  <2> QED BY <2>1, <2>3, <2>4, <2>5
<1> QED BY <1>1, <1>2, <1>3

(* Until the input thread ends or the mutex is destroyed, each copy a      *)
(* plugin or client makes is the newest complete picture: the buffer, its  *)
(* mutex and condition implement the board (input_file.c and the readers   *)
(* in output_file.c and httpd.c).                                          *)
THEOREM BoardImplemented == Spec => ImplementsBoard
<1>1. Init => Board!BoardInit
  BY DEF Init, Board!BoardInit, WorkerGone
<1>2. Inv /\ Inv' /\ [Next]_vars => [Board!BoardNext]_Board!boardVars
  BY BoardStep
<1> QED
  BY <1>1, <1>2, InvInit, InvNext, PTL DEF Spec, ImplementsBoard, Board!BoardSpec

=============================================================================
