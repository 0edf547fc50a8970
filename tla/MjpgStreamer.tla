---------------------------- MODULE MjpgStreamer -----------------------------
(***************************************************************************)
(* mjpg-streamer-lite (mjpg_streamer.c and plugins/): one input plugin     *)
(* (input_file) whose thread puts pictures into a global buffer, output    *)
(* plugins whose threads copy them (output_file; output_rtsp and           *)
(* output_autofocus wait for a picture in the same way), and the clients   *)
(* of output_http, each with a thread of its own that nobody cancels.      *)
(* They share a mutex and a condition variable without a predicate.        *)
(*                                                                         *)
(* The signal handler runs in the main thread: it sets a flag, cancels the *)
(* plugins' threads and destroys mutex and condition without joining any   *)
(* thread.  Cancellation is deferred: it takes effect in read, open, write *)
(* and pthread_cond_wait, and the latter takes the mutex back first.       *)
(***************************************************************************)
EXTENDS Integers

CONSTANTS
  Writers,   \* output plugins with one thread that copies pictures
  Server,    \* the plugin output_http
  Clients,   \* threads of its clients, used again when a client has left
  MaxFrames  \* bound: pictures of a behaviour

ASSUME MjpgAssumption == Writers \cap Clients = {} /\ MaxFrames \in Nat

VARIABLES
  main,      \* what the main thread does
  stop,      \* global.stop
  started,   \* output plugins that run
  stopped,   \* output plugins whose stop was called
  owner,     \* the thread that has in[0].db
  destroyed, \* in[0].db and in[0].db_update were destroyed
  buf,       \* in[0].buf: the number of the picture, 0 when there is none
  published, \* pictures completed so far
  worker,    \* the input thread
  pc,        \* the threads that copy
  got,       \* the last copy of each
  since,     \* history: pictures published when it began to wait
  cancelled, \* threads with a cancellation pending
  oom        \* history: malloc failed in the input thread

vars == <<main, stop, started, stopped, owner, destroyed, buf, published,
          worker, pc, got, since, cancelled, oom>>

Outputs == Writers \cup {Server}
Readers == Writers \cup Clients
Input == "input"
None == "none"

ASSUME NamesAssumption == {Input, None} \cap (Readers \cup Outputs) = {}

(* What buf points to besides pictures: one that is being read, or memory  *)
(* that was freed.                                                         *)
Filling == -1
Freed == -2

Init ==
  /\ main = "open" /\ stop = FALSE
  /\ started = {} /\ stopped = {}
  /\ owner = None /\ destroyed = FALSE
  /\ buf = 0 /\ published = 0
  /\ worker = "none"
  /\ pc = [r \in Readers |-> "none"]
  /\ got = [r \in Readers |-> 0]
  /\ since = [r \in Readers |-> 0]
  /\ cancelled = {} /\ oom = FALSE

Live == main # "exited"

(* A destroyed mutex cannot be taken: the call fails, and its result is    *)
(* never looked at.                                                        *)
Acquire(t) == IF destroyed THEN UNCHANGED owner ELSE owner = None /\ owner' = t
Release(t) == owner' = IF owner = t THEN None ELSE owner

-----------------------------------------------------------------------------
(* main. *)

mainOnly == <<owner, destroyed, buf, published, got, since, oom>>

OpenPlugins ==
  /\ main = "open"
  /\ main' = "start"
  /\ UNCHANGED <<stop, started, stopped, worker, pc, cancelled, mainOnly>>

RunInput ==
  /\ main = "start"
  /\ worker' = "loop"
  /\ main' = "outputs"
  /\ UNCHANGED <<stop, started, stopped, pc, cancelled, mainOnly>>

RunOutput ==
  /\ main = "outputs"
  /\ \E o \in Outputs \ started :
       /\ started' = started \cup {o}
       /\ pc' = IF o \in Writers THEN [pc EXCEPT ![o] = "loop"] ELSE pc
  /\ main' = IF started' = Outputs THEN "pause" ELSE main
  /\ UNCHANGED <<stop, stopped, worker, cancelled, mainOnly>>

(* SIGINT, for which the handler is set before the plugins are opened. *)
Interrupt ==
  /\ main \in {"open", "start", "outputs", "pause"}
  /\ stop' = TRUE
  /\ main' = IF main = "open" THEN "unopened" ELSE "halt"
  /\ UNCHANGED <<started, stopped, worker, pc, cancelled, mainOnly>>

(* The stop function of a plugin that was not opened is 0. *)
CallNull ==
  /\ main = "unopened"
  /\ main' = "exited"
  /\ UNCHANGED <<stop, started, stopped, worker, pc, cancelled, mainOnly>>

(* pthread_cancel of a thread that ended, or was never created, may crash. *)
Cancel(t, alive, next) ==
  /\ cancelled' = IF alive THEN cancelled \cup {t} ELSE cancelled
  /\ main' \in IF alive THEN next ELSE next \cup {"exited"}

StopInput ==
  /\ main = "halt"
  /\ Cancel(Input, worker \notin {"none", "done"}, {"outs"})
  /\ UNCHANGED <<stop, started, stopped, worker, pc, mainOnly>>

Waiting == {r \in Readers : pc[r] \in {"wait", "woken"}}
Running(o) == o \in started /\ (o \in Writers => pc[o] # "done")

(* The plugin is stopped and in[i] is torn down for it; the first one's    *)
(* is the input, which other threads may still use: destroying a condition *)
(* with waiters may block.                                                 *)
StopOutput ==
  /\ main = "outs"
  /\ \E o \in Outputs \ stopped :
       LET busy == ~destroyed /\ (Waiting # {} \/ owner # None)
       IN  /\ stopped' = stopped \cup {o}
           /\ Cancel(o, Running(o), IF busy THEN {"outs", "hang"} ELSE {"outs"})
           /\ destroyed' = TRUE
  /\ UNCHANGED <<stop, started, owner, buf, published, worker, pc, got, since, oom>>

Exit ==
  /\ main = "outs" /\ stopped = Outputs
  /\ main' = "exited"
  /\ UNCHANGED <<stop, started, stopped, worker, pc, cancelled, mainOnly>>

Main == \/ OpenPlugins \/ RunInput \/ RunOutput \/ Interrupt \/ CallNull
        \/ StopInput \/ StopOutput \/ Exit

-----------------------------------------------------------------------------
(* worker_thread of input_file. *)

workerOnly == <<main, stop, started, stopped, destroyed, since, cancelled>>

WorkerGoto(from, to) == Live /\ worker = from /\ worker' \in to

WorkerLoop ==
  /\ WorkerGoto("loop", IF stop THEN {"cleanup"} ELSE {"read"})
  /\ UNCHANGED <<workerOnly, owner, buf, published, pc, got, oom>>

(* An event: a new file that could be opened, one to ignore, or an error,  *)
(* a file that is gone again for one, that ends the thread.                *)
Event ==
  /\ WorkerGoto("read", {"loop", "cleanup"}
                        \cup IF published < MaxFrames THEN {"lock"} ELSE {})
  /\ UNCHANGED <<workerOnly, owner, buf, published, pc, got, oom>>

WorkerCancelled ==
  /\ Input \in cancelled
  /\ WorkerGoto("read", {"cleanup"})
  /\ UNCHANGED <<workerOnly, owner, buf, published, pc, got, oom>>

(* Mutant: the buffer is replaced before the mutex is taken. *)
NewBufferEarly ==
  /\ WorkerGoto("lock", {"fill"})
  /\ buf' = Filling
  /\ UNCHANGED <<workerOnly, owner, published, pc, got, oom>>

(* The mutex is taken and the buffer allocated anew; when that fails the   *)
(* thread ends with the mutex.                                             *)
NewBuffer ==
  /\ WorkerGoto("lock", {"fill", "cleanup"})
  /\ Acquire(Input)
  /\ buf' = IF worker' = "fill" THEN Filling ELSE 0
  /\ oom' = (worker' = "cleanup")
  /\ UNCHANGED <<workerOnly, published, pc, got>>

(* Mutant: only one waiting thread is woken. *)
ShowFrameSignal ==
  /\ WorkerGoto("fill", {"loop"})
  /\ published' = published + 1 /\ buf' = published + 1
  /\ \E w \in {r \in Readers : pc[r] = "wait"} \cup {None} :
       /\ w = None => \A r \in Readers : pc[r] # "wait"
       /\ pc' = [r \in Readers |-> IF r = w THEN "woken" ELSE pc[r]]
  /\ Release(Input)
  /\ UNCHANGED <<workerOnly, got, oom>>

(* The picture was read, or as much of the file as read returned, which is *)
(* the picture then: every waiting thread is woken.                        *)
ShowFrame ==
  /\ WorkerGoto("fill", {"loop"})
  /\ published' = published + 1 /\ buf' = published + 1
  /\ pc' = [r \in Readers |-> IF pc[r] = "wait" THEN "woken" ELSE pc[r]]
  /\ Release(Input)
  /\ UNCHANGED <<workerOnly, got, oom>>

(* Mutant: the size, which is -1 by then, is not set to 0. *)
FillFailsKeepsSize ==
  /\ WorkerGoto("fill", {"cleanup"})
  /\ buf' = -3
  /\ Release(Input)
  /\ UNCHANGED <<workerOnly, published, pc, got, oom>>

(* Mutant: the mutex is kept. *)
FillFailsKeepsMutex ==
  /\ WorkerGoto("fill", {"cleanup"})
  /\ buf' = 0
  /\ UNCHANGED <<workerOnly, owner, published, pc, got, oom>>

(* The picture could not be read: there is none. *)
FillFails ==
  /\ WorkerGoto("fill", {"cleanup"})
  /\ buf' = 0
  /\ Release(Input)
  /\ UNCHANGED <<workerOnly, published, pc, got, oom>>

(* read is a cancellation point, the mutex is never unlocked. *)
FillCancelled ==
  /\ Input \in cancelled
  /\ WorkerGoto("fill", {"cleanup"})
  /\ UNCHANGED <<workerOnly, owner, buf, published, pc, got, oom>>

(* worker_cleanup frees the buffer, without the mutex, and the pointer     *)
(* stays.                                                                  *)
Cleanup ==
  /\ WorkerGoto("cleanup", {"done"})
  /\ buf' = IF buf = 0 THEN 0 ELSE Freed
  /\ got' = [r \in Readers |-> IF pc[r] = "copying" /\ buf # 0 THEN Freed ELSE got[r]]
  /\ UNCHANGED <<workerOnly, owner, published, pc, oom>>

Worker == \/ WorkerLoop \/ Event \/ WorkerCancelled \/ NewBuffer \/ ShowFrame
          \/ FillFails \/ FillCancelled \/ Cleanup

-----------------------------------------------------------------------------
(* worker_thread of output_file, send_stream and send_snapshot. *)

readerOnly == <<main, stop, started, stopped, destroyed, buf, published, worker,
                cancelled, oom>>

Goto(r, from, to) ==
  /\ Live /\ pc[r] = from
  /\ \E p \in to : pc' = [pc EXCEPT ![r] = p]

(* A thread that ends; a client's place is free for the next one. *)
Over(r) == IF r \in Clients THEN "none" ELSE "done"

(* server_thread accepts a client: send_stream looks at the flag before    *)
(* each picture, send_snapshot never does.                                 *)
Connect(r) ==
  /\ r \in Clients /\ Server \in started \ cancelled
  /\ Goto(r, "none", {"loop", "lock"})
  /\ UNCHANGED <<readerOnly, owner, got, since>>

ReaderLoop(r) ==
  /\ Goto(r, "loop", IF stop THEN {Over(r)} ELSE {"lock"})
  /\ UNCHANGED <<readerOnly, owner, got, since>>

(* The mutex is taken, and given up by pthread_cond_wait. *)
Wait(r) ==
  /\ Goto(r, "lock", {"wait"})
  /\ destroyed \/ owner = None
  /\ since' = [since EXCEPT ![r] = published]
  /\ UNCHANGED <<readerOnly, owner, got>>

(* pthread_cond_wait may return for no reason. *)
Spurious(r) ==
  /\ Goto(r, "wait", {"woken"})
  /\ UNCHANGED <<readerOnly, owner, got, since>>

Relock(r) ==
  /\ Goto(r, "woken", {"copy"})
  /\ Acquire(r)
  /\ UNCHANGED <<readerOnly, got, since>>

(* size and buf are read, the copy begins. *)
Copy(r) ==
  /\ Goto(r, "copy", {"copying"})
  /\ got' = [got EXCEPT ![r] = buf]
  /\ UNCHANGED <<readerOnly, owner, since>>

(* No memory for the copy. *)
CopyFails(r) ==
  /\ Goto(r, "copy", {Over(r)})
  /\ Release(r)
  /\ UNCHANGED <<readerOnly, got, since>>

Copied(r) ==
  /\ Goto(r, "copying", {"write"})
  /\ Release(r)
  /\ UNCHANGED <<readerOnly, got, since>>

(* The copy is written to a file or socket; a snapshot, or a failure, ends *)
(* the thread.                                                             *)
Write(r) ==
  /\ Goto(r, "write", {"loop", Over(r)})
  /\ UNCHANGED <<readerOnly, owner, got, since>>

(* Only plugins' threads are cancelled. *)
WaitCancelled(r) ==
  /\ r \in cancelled
  /\ \E from \in {"wait", "woken"} : Goto(r, from, {"done"})
  /\ Acquire(r)
  /\ UNCHANGED <<readerOnly, got, since>>

WriteCancelled(r) ==
  /\ r \in cancelled
  /\ Goto(r, "write", {"done"})
  /\ UNCHANGED <<readerOnly, owner, got, since>>

Reader(r) == \/ ReaderLoop(r) \/ Wait(r) \/ Relock(r) \/ Copy(r) \/ CopyFails(r)
             \/ Copied(r) \/ Write(r) \/ WaitCancelled(r) \/ WriteCancelled(r)

Next == Main \/ Worker \/ \E r \in Readers : Connect(r) \/ Spurious(r) \/ Reader(r)

Spec == Init /\ [][Next]_vars

(* Threads run, and a thread that the mutex is free for again and again    *)
(* gets it once.  No picture, client or signal needs to come.              *)
Fairness ==
  /\ WF_vars(WorkerLoop \/ ShowFrame \/ FillFails)
  /\ \A r \in Readers : WF_vars(Reader(r)) /\ SF_vars(Relock(r))

FairSpec == Spec /\ Fairness

-----------------------------------------------------------------------------
(* Properties. *)

(* Every variable has the type its comment says. *)
TypeOK ==
  /\ main \in {"open", "start", "outputs", "pause", "unopened", "halt", "outs",
               "hang", "exited"}
  /\ {stop, destroyed, oom} \subseteq BOOLEAN
  /\ started \subseteq Outputs /\ stopped \subseteq Outputs
  /\ owner \in Readers \cup {Input, None}
  /\ buf \in {Filling, Freed} \cup 0 .. MaxFrames
  /\ published \in 0 .. MaxFrames
  /\ worker \in {"none", "loop", "read", "lock", "fill", "cleanup", "done"}
  /\ pc \in [Readers -> {"none", "loop", "lock", "wait", "woken", "copy",
                         "copying", "write", "done"}]
  /\ got \in [Readers -> {Filling, Freed} \cup 0 .. MaxFrames]
  /\ since \in [Readers -> 0 .. published]
  /\ cancelled \subseteq Outputs \cup {Input}

WorkerGone == worker \in {"cleanup", "done"}

Board == INSTANCE FrameBoard
           WITH Readers <- Readers, Garbage <- {Filling, Freed},
                shown <- published, open <- ~WorkerGone /\ ~destroyed, seen <- got

(* Until the input thread ends or the mutex is destroyed, each copy that a *)
(* plugin or client makes is the newest picture that was shown, never a    *)
(* buffer that read still fills or freed memory, even when                 *)
(* pthread_cond_wait returned for no reason.                               *)
ImplementsBoard == Board!BoardSpec

(* Until SIGINT, whatever pictures come and clients do, the mutex is with  *)
(* a thread that is about to give it back: none ends with it, on whichever *)
(* path, unless malloc failed in the input thread, and no two copy or fill *)
(* at a time.                                                              *)
QuietUntilStopped ==
  ~stop =>
    /\ owner = Input <=> worker = "fill" \/ oom
    /\ \A r \in Readers : owner = r <=> pc[r] \in {"copy", "copying"}

(* A picture that is shown while a thread waits is copied by that thread,  *)
(* or a newer one, unless the input thread ends, the thread itself gives   *)
(* up, or the program is stopped.                                          *)
FrameReachesWaiter ==
  \A r \in Readers, n \in 0 .. MaxFrames :
    (pc[r] \in {"wait", "woken"} /\ since[r] = n /\ n < published)
      ~> (got[r] > n \/ WorkerGone \/ stop \/ pc[r] = Over(r))

=============================================================================
