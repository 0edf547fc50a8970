----------------------------- MODULE HpPipeline ------------------------------
(***************************************************************************)
(* The media pipeline of hp-ipc (hisi-mpp/sample/hp-ipc/src: IPC_Init and  *)
(* IPC_exit of hp_ipc.c, hp_sys.c, hp_vi.c, hp_vpss.c, hp_venc.c) and the  *)
(* program's main (camera.c), which calls them for one stream.             *)
(*                                                                         *)
(* Everything an MPI call or a thread creation brings up is a part; the    *)
(* parts come up in one order, and the failure of one goes to the label of *)
(* its stage, whence the exit functions of that and the earlier stages are *)
(* run.  A call that stops a part may fail; the MPI decides alone whether  *)
(* stopping what is not up is an error.  Attribute calls are a failure of  *)
(* the call that follows them.                                             *)
(***************************************************************************)
EXTENDS Naturals, Sequences, Functions

VARIABLES
  main,       \* what the main thread does, and how far it is
  inited,     \* history: IPC_Init returned
  up,         \* the parts that are up
  ispInited,  \* gbIspInited
  getFlag,    \* bGetStreamProcThreadStart
  getter,     \* the stream thread, vdGetVencStreamProc
  stuck,      \* history: stopping a part that was up failed
  crashed     \* a signal or a thread that does not exist ended the process

pipeVars == <<main, inited, up, ispInited, getFlag, getter, stuck, crashed>>

(* The parts in the order they come up, a line for each stage, and where   *)
(* the stages end; a stage's number is that of the label it fails to.      *)
Order == <<"VB", "SYS",
           "IspMem", "Isp", "IspRun", "ViDev", "ViChn",
           "VpssGrp", "VpssGrpStart", "VpssChn",
           "BindVi", "BindVenc",
           "VencChn", "VencRecv", "Getter">>
StageEnd == <<2, 7, 10, 12, 15>>
Parts == Range(Order)
StageOf(k) == CHOOSE s \in DOMAIN StageEnd :
                k <= StageEnd[s] /\ \A t \in 1 .. s - 1 : StageEnd[t] < k

At(what, k) == [what |-> what, k |-> k]

PipeInit ==
  /\ main = At("init", 1)
  /\ up = {} /\ inited = FALSE /\ ispInited = FALSE /\ getFlag = FALSE /\ getter = "none"
  /\ stuck = FALSE /\ crashed = FALSE

Ended == main.what = "ended" \/ crashed

-----------------------------------------------------------------------------
(* IPC_Init. *)

Starting(part) == main.what = "init" /\ Order[main.k] = part

(* Mutant: the last part is no end. *)
StartPartNoEnd ==
  /\ main.what = "init" /\ ~crashed
  /\ up' = up \cup {Order[main.k]}
  /\ main' = At("init", main.k + 1)
  /\ inited' = (main.k = Len(Order))
  /\ ispInited' = (ispInited \/ Starting("Isp"))
  /\ getFlag' = Starting("Getter")
  /\ getter' = IF Starting("Getter") THEN "loop" ELSE "none"
  /\ UNCHANGED <<stuck, crashed>>

(* The next part comes up; the last leaves main to wait for its two keys.  *)
StartPart ==
  /\ main.what = "init" /\ ~crashed
  /\ up' = up \cup {Order[main.k]}
  /\ main' = IF main.k = Len(Order) THEN At("run", 0) ELSE At("init", main.k + 1)
  /\ inited' = (main.k = Len(Order))
  /\ ispInited' = (ispInited \/ Starting("Isp"))
  /\ getFlag' = Starting("Getter")
  /\ getter' = IF Starting("Getter") THEN "loop" ELSE "none"
  /\ UNCHANGED <<stuck, crashed>>

(* Mutant: the exit starts with the stage before. *)
FailPartShort ==
  /\ main.what = "init" /\ ~Starting("Getter") /\ ~crashed
  /\ main' = At("exit", IF StageOf(main.k) = 1 THEN 1 ELSE StageOf(main.k) - 1)
  /\ UNCHANGED <<inited, up, ispInited, getFlag, getter, stuck, crashed>>

(* A part does not come up: goto END_EXIT_i.  gbIspInited is set before    *)
(* the thread that runs the ISP is created.                                *)
FailPart ==
  /\ main.what = "init" /\ ~Starting("Getter") /\ ~crashed
  /\ main' = At("exit", StageOf(main.k))
  /\ UNCHANGED <<inited, up, ispInited, getFlag, getter, stuck, crashed>>

(* What pthread_create returns for the stream thread is dropped.           *)
FailGetter ==
  /\ Starting("Getter") /\ ~crashed
  /\ main' = At("run", 0) /\ inited' = TRUE /\ getFlag' = TRUE
  /\ UNCHANGED <<up, ispInited, getter, stuck, crashed>>

-----------------------------------------------------------------------------
(* vdGetVencStreamProc. *)

(* The loop's condition: on to the next frame, or the end. *)
GetterLoop ==
  /\ getter = "loop" /\ ~Ended
  /\ getter' = IF getFlag THEN "frame" ELSE "returned"
  /\ UNCHANGED <<main, inited, up, ispInited, getFlag, stuck, crashed>>

(* select timed out, or the frame was saved or could not be.               *)
FrameDone ==
  /\ getter = "frame" /\ ~Ended
  /\ getter' = "loop"
  /\ UNCHANGED <<main, inited, up, ispInited, getFlag, stuck, crashed>>

(* No file, no descriptor of the channel, or select failed.                *)
GetterFails ==
  /\ getter = "frame" /\ ~Ended
  /\ getter' = "returned"
  /\ UNCHANGED <<main, inited, up, ispInited, getFlag, stuck, crashed>>

-----------------------------------------------------------------------------
(* IPC_exit, or the labels of IPC_Init. *)

(* main has read its keys. *)
Keys ==
  /\ main.what = "run" /\ ~crashed
  /\ main' = At("exit", Len(StageEnd))
  /\ UNCHANGED <<inited, up, ispInited, getFlag, getter, stuck, crashed>>

(* pthread_join of a thread that may never have been created, which the    *)
(* library may not survive.                                                *)
Join(created) == crashed' \in IF created THEN {crashed} ELSE BOOLEAN

(* Calls that stop parts one after the other and give up at the first that *)
(* fails: the parts stopped, and the one that was not.                     *)
Tried(parts) ==
  {[done |-> Range(SubSeq(parts, 1, n)),
    left |-> IF n < Len(parts) THEN {parts[n + 1]} ELSE {}] : n \in 0 .. Len(parts)}

(* Calls whose results are dropped. *)
Dropped(parts) == {[done |-> parts \ f, left |-> f] : f \in SUBSET parts}

Stop(outcome) ==
  /\ up' = up \ outcome.done
  /\ stuck' = (stuck \/ outcome.left \cap up # {})

Exiting(what, s) == main = At(what, s) /\ ~crashed

(* Mutant: the stream thread is not waited for. *)
StopGetStreamNoJoin ==
  /\ Exiting("exit", 5)
  /\ main' = At("venc", 5) /\ getFlag' = FALSE
  /\ UNCHANGED <<inited, up, ispInited, getter, stuck, crashed>>

(* Mutant: the stream thread is not told to stop. *)
StopGetStreamKeepsFlag ==
  /\ Exiting("exit", 5)
  /\ main' = At(IF getFlag THEN "join" ELSE "venc", 5)
  /\ UNCHANGED <<inited, up, ispInited, getFlag, getter, stuck, crashed>>

(* s32StopGetStream: joins the thread when its flag is set.                *)
StopGetStream ==
  /\ Exiting("exit", 5)
  /\ main' = At(IF getFlag THEN "join" ELSE "venc", 5) /\ getFlag' = FALSE
  /\ UNCHANGED <<inited, up, ispInited, getter, stuck, crashed>>

JoinGetter ==
  /\ Exiting("join", 5) /\ getter \in {"none", "returned"}
  /\ main' = At("venc", 5)
  /\ up' = up \ {"Getter"}
  /\ Join(getter = "returned")
  /\ UNCHANGED <<inited, ispInited, getFlag, getter, stuck>>

(* s32VencStopChn. *)
StopVenc ==
  /\ Exiting("venc", 5)
  /\ \E t \in Tried(<<"VencRecv", "VencChn">>) : Stop(t)
  /\ main' = At("exit", 4)
  /\ UNCHANGED <<inited, ispInited, getFlag, getter, crashed>>

(* mpi_sys_UnBind. *)
UnBind ==
  /\ Exiting("exit", 4)
  /\ \E t \in Tried(<<"BindVi", "BindVenc">>) : Stop(t)
  /\ main' = At("exit", 3)
  /\ UNCHANGED <<inited, ispInited, getFlag, getter, crashed>>

(* VPSS_exit: s32VpssStopChn, whose result is dropped, and s32VpssStopGrp. *)
StopVpss ==
  /\ Exiting("exit", 3)
  /\ \E c \in Dropped({"VpssChn"}), t \in Tried(<<"VpssGrpStart", "VpssGrp">>) :
       Stop([done |-> c.done \cup t.done, left |-> c.left \cup t.left])
  /\ main' = At("exit", 2)
  /\ UNCHANGED <<inited, ispInited, getFlag, getter, crashed>>

(* s32StopVi. *)
StopVi ==
  /\ Exiting("exit", 2)
  /\ \E t \in Tried(<<"ViChn", "ViDev">>) : Stop(t)
  /\ main' = At("isp", 2)
  /\ UNCHANGED <<inited, ispInited, getFlag, getter, crashed>>

(* vdIspStop, which does nothing unless HI_MPI_ISP_Init succeeded.  When   *)
(* HI_MPI_ISP_Exit fails, the thread that is joined may never return.      *)
StopIsp ==
  /\ Exiting("isp", 2)
  /\ IF ~ispInited THEN main' = At("exit", 1) /\ UNCHANGED <<up, stuck, crashed>>
     ELSE \/ /\ Stop([done |-> {"Isp", "IspMem", "IspRun"}, left |-> {}])
             /\ Join("IspRun" \in up)
             /\ main' = At("exit", 1)
          \/ /\ Stop([done |-> {}, left |-> {"Isp"}])
             /\ Join("IspRun" \in up)
             /\ main' \in {At("exit", 1), At("hang", 0)}
  /\ ispInited' = FALSE
  /\ UNCHANGED <<inited, getFlag, getter>>

(* mpi_sys_exit; then the process ends. *)
StopSys ==
  /\ Exiting("exit", 1)
  /\ \E c \in Dropped({"SYS", "VB"}) : Stop(c)
  /\ main' = At("ended", 0)
  /\ UNCHANGED <<inited, ispInited, getFlag, getter, crashed>>

Exit == \/ StopGetStream \/ JoinGetter \/ StopVenc \/ UnBind \/ StopVpss
        \/ StopVi \/ StopIsp \/ StopSys

(* Another thread's send finds its connection broken: SIGPIPE, which       *)
(* nobody ignores, ends the process where it is.                           *)
Killed ==
  /\ inited /\ ~Ended
  /\ crashed' = TRUE
  /\ UNCHANGED <<main, inited, up, ispInited, getFlag, getter, stuck>>

MainNext == StartPart \/ FailPart \/ FailGetter \/ Keys \/ Exit
PipeNext == MainNext \/ GetterLoop \/ FrameDone \/ GetterFails \/ Killed

PipeSpec == PipeInit /\ [][PipeNext]_pipeVars

-----------------------------------------------------------------------------
(* Properties. *)

(* Every variable has the type its comment says. *)
PipeTypeOK ==
  /\ main \in [what : {"init", "run", "exit", "join", "venc", "isp", "hang",
                       "ended"}, k : 0 .. Len(Order)]
  /\ up \subseteq Parts
  /\ {inited, ispInited, getFlag, stuck, crashed} \subseteq BOOLEAN
  /\ getter \in {"none", "loop", "frame", "returned"}

(* The stream thread only asks for frames while everything it needs is up: *)
(* it starts last, and nothing is stopped before it was joined.            *)
GetterBacked == getter \in {"loop", "frame"} => up = Parts

(* The process leaves nothing of the hardware taken when no call that      *)
(* stops a part fails; when IPC_Init failed, at most the first part of the *)
(* stage that failed, whose stop function gives up before it.              *)
Released ==
  (main.what = "ended" /\ ~stuck) =>
    IF inited THEN up = {}
    ELSE \E part \in {"IspMem", "ViDev", "VpssGrp", "VencChn"} : up \subseteq {part}

=============================================================================
