----------------------------- MODULE RtspServer -----------------------------
(***************************************************************************)
(* The RTSP side of the camera server: clients, their RTSP sessions, the   *)
(* RTP sessions SETUP creates, the scheduler table the sender thread walks *)
(* and the pool of RTP ports (hisi-rtsp/src/rtspservice.c and              *)
(* rtsputils.c).                                                           *)
(*                                                                         *)
(* Two threads share the scheduler table and the RTP sessions without any  *)
(* lock.  The main thread serves one client at a time (EventLoop); a       *)
(* handler is one action, or several where the sender can see a state in   *)
(* between.  The sender (schedule_do) walks the table once per frame.      *)
(*                                                                         *)
(* The session number is left out: a client may send any number, so a      *)
(* request either names its session (the action named after the method)    *)
(* or does not (its Refused twin).  DESCRIBE, PAUSE, unknown methods and a *)
(* connection refused because MAX_CONNECTION clients are served change     *)
(* nothing modelled here.  After undefined behaviour the model stops.      *)
(***************************************************************************)
EXTENDS Integers, Sequences, FiniteSets

CONSTANTS
  Clients,         \* bound: the connections of a behaviour
  MAX_CONNECTION,  \* clients, scheduler slots and port pairs (10 in the code)
  RtpIds,          \* bound: the RTP_session structures calloc can return
  MaxSetups,       \* bound: RTP sessions one RTSP session collects
  Nil,             \* a NULL pointer, memory not allocated yet
  Unseen           \* what a connection not accepted yet has for a session

ASSUME ServerAssumption ==
  /\ MAX_CONNECTION \in Nat \ {0}
  /\ MaxSetups \in Nat \ {0}
  /\ Nil \notin Clients \cup RtpIds /\ Unseen # Nil
  /\ Nil \notin [cur_state : {"INIT", "READY", "PLAY"},
                  rtp_session : Seq(RtpIds)]
  /\ Unseen \notin [cur_state : {"INIT", "READY", "PLAY"},
                     rtp_session : Seq(RtpIds)]
  /\ Nil \notin [hndRtp : {"null", "open", "closed"}, pause : BOOLEAN,
                  started : BOOLEAN, sched_id : Int]

VARIABLES
  clients,     \* pRtspList: the connected clients, oldest first
  session,     \* session_list of each client
  rtp,         \* the RTP_session structures
  sched,       \* the scheduler table
  portPool,    \* s_uPortPool: the pairs still to hand out
  g_s32DoPlay, \* meant to count the clients that play
  s32ConCnt,   \* meant to count the clients
  main,        \* what the main thread is in the middle of
  sender,      \* where schedule_do is
  fault,       \* the undefined behaviour that was reached, if any
  orderly      \* history: no client made a second or a failing SETUP

tables == <<rtp, sched, portPool, g_s32DoPlay>>
vars == <<clients, session, tables, s32ConCnt, main, sender, fault, orderly>>

Ids == 0 .. MAX_CONNECTION - 1
States == {"INIT", "READY", "PLAY"}

Idle == [pc |-> "idle", client |-> Nil, todo |-> <<>>, slot |-> 0]
AtSlot(i) == [pc |-> "check", slot |-> i, rtp |-> Nil]
NewSession == [cur_state |-> "INIT", rtp_session |-> <<>>]
(* Mutant: RTSP_setup leaves pause as calloc made it. *)
NewRtpUnpaused == [hndRtp |-> "null", pause |-> FALSE, started |-> FALSE,
                   sched_id |-> 0]

NewRtp == [hndRtp |-> "null", pause |-> TRUE, started |-> FALSE,
           sched_id |-> 0]

Connected == {clients[k] : k \in 1 .. Len(clients)}
HasSession(c) == session[c] \notin {Nil, Unseen}
Listed(c) == IF ~HasSession(c) THEN {}
             ELSE {session[c].rtp_session[k] :
                     k \in 1 .. Len(session[c].rtp_session)}

(* What calloc may return.  No RTP_session is ever freed. *)
FreshRtp == {r \in RtpIds : rtp[r] = Nil}

(* schedule_add's search, and what it returns in a full table. *)
FreeSlots == {i \in Ids : ~sched[i].valid}
ERR_GENERIC == -1

(* Mutant: the search's index, not ERR_GENERIC, is returned at the end. *)
FirstFreeLoopEnd == IF FreeSlots = {} THEN MAX_CONNECTION
                    ELSE CHOOSE i \in FreeSlots : \A j \in FreeSlots : i <= j

FirstFree == IF FreeSlots = {} THEN ERR_GENERIC
             ELSE CHOOSE i \in FreeSlots : \A j \in FreeSlots : i <= j
FirstPort == CHOOSE p \in portPool : \A q \in portPool : p <= q

MainFree == fault = "none" /\ main.pc = "idle"
Serving(c) == MainFree /\ c \in Connected
InState(c, states) ==
  Serving(c) /\ HasSession(c) /\ session[c].cur_state \in states

-----------------------------------------------------------------------------

Init ==
  /\ clients = <<>>
  /\ session = [c \in Clients |-> Unseen]
  /\ rtp = [r \in RtpIds |-> Nil]
  /\ sched = [i \in Ids |-> [valid |-> FALSE, rtp_session |-> Nil]]
  /\ portPool = Ids
  /\ g_s32DoPlay = 0
  /\ s32ConCnt = 0
  /\ main = Idle
  /\ sender = AtSlot(0)
  /\ fault = "none"
  /\ orderly = TRUE

-----------------------------------------------------------------------------
(* The main thread: connections. *)

(* Mutant: s32ConCnt <= MAX_CONNECTION. *)
AcceptOverfull(c) ==
  /\ MainFree /\ session[c] = Unseen
  /\ s32ConCnt <= MAX_CONNECTION
  /\ clients' = Append(clients, c)
  /\ session' = [session EXCEPT ![c] = NewSession]
  /\ s32ConCnt' = s32ConCnt + 1
  /\ UNCHANGED <<tables, main, sender, fault, orderly>>

(* EventLoop accepts a connection; AddClient appends it to the list. *)
Accept(c) ==
  /\ MainFree /\ session[c] = Unseen
  /\ s32ConCnt < MAX_CONNECTION
  /\ clients' = Append(clients, c)
  /\ session' = [session EXCEPT ![c] = NewSession]
  /\ s32ConCnt' = s32ConCnt + 1
  /\ UNCHANGED <<tables, main, sender, fault, orderly>>

(* ScheduleConnections unlinks a client whose connection ended.  Behind    *)
(* the last client but the first it goes on to read the NULL next client.  *)
Unlink(c) ==
  /\ \E k \in 1 .. Len(clients) :
       /\ clients[k] = c
       /\ clients' = SubSeq(clients, 1, k - 1)
                       \o SubSeq(clients, k + 1, Len(clients))
  /\ s32ConCnt' = s32ConCnt - 1
  /\ fault' = IF Len(clients) > 1 /\ clients[Len(clients)] = c
                THEN "null client" ELSE fault

(* Mutant: the sessions of a client that goes without TEARDOWN are kept. *)
CloseUnreleased(c) ==
  /\ Serving(c)
  /\ Unlink(c)
  /\ session' = [session EXCEPT ![c] = Nil]
  /\ UNCHANGED <<tables, main, sender, orderly>>

(* The connection is closed, by the client or on an error. *)
Close(c) ==
  /\ Serving(c)
  /\ IF session[c] = Nil
       THEN Unlink(c) /\ UNCHANGED main
       ELSE /\ main' = [Idle EXCEPT !.pc = "close", !.client = c,
                                    !.todo = session[c].rtp_session]
            /\ UNCHANGED <<clients, s32ConCnt, fault>>
  /\ UNCHANGED <<session, tables, sender, orderly>>

-----------------------------------------------------------------------------
(* The main thread: requests, by RTSP_state_machine. *)

EnterState(c, state) == session' = [session EXCEPT ![c].cur_state = state]

(* OPTIONS sends a READY session back to INIT and is ignored in PLAY. *)
Options(c) ==
  /\ InState(c, {"INIT", "READY"})
  /\ EnterState(c, "INIT")
  /\ UNCHANGED <<clients, tables, s32ConCnt, main, sender, fault, orderly>>

(* SETUP without a usable Transport header: refused, yet READY. *)
SetupRefused(c) ==
  /\ InState(c, {"INIT", "READY"})
  /\ EnterState(c, "READY")
  /\ UNCHANGED <<clients, tables, s32ConCnt, main, sender, fault, orderly>>

(* What every other SETUP does first: a new RTP session r, paused, goes to *)
(* the end of the client's list.                                           *)
AppendRtp(c, r, state) ==
  /\ InState(c, {"INIT", "READY"})
  /\ Len(session[c].rtp_session) < MaxSetups
  /\ session' = [session EXCEPT ![c] =
       [cur_state |-> state, rtp_session |-> Append(@.rtp_session, r)]]

(* Neither UDP unicast nor multicast: 461, READY, the session stays listed *)
(* and its sched_id stays the 0 of calloc.                                 *)
SetupUnsupported(c) ==
  /\ \E r \in FreshRtp :
       /\ AppendRtp(c, r, "READY")
       /\ rtp' = [rtp EXCEPT ![r] = NewRtp]
  /\ orderly' = FALSE
  /\ UNCHANGED <<clients, sched, portPool, g_s32DoPlay, s32ConCnt, main,
                 sender, fault>>

(* Unicast with no port pair left: 500, state kept, the session listed. *)
SetupNoPort(c) ==
  /\ portPool = {}
  /\ \E r \in FreshRtp :
       /\ AppendRtp(c, r, session[c].cur_state)
       /\ rtp' = [rtp EXCEPT ![r] = NewRtp]
  /\ orderly' = FALSE
  /\ UNCHANGED <<clients, sched, portPool, g_s32DoPlay, s32ConCnt, main,
                 sender, fault>>

(* The transport is accepted: unicast takes a port pair, and RtpCreate may *)
(* fail; multicast has neither.  schedule_add marks the first free slot    *)
(* valid; its number goes to the FIRST session of the list, and the slot   *)
(* learns its RTP session in SetupFinish.                                  *)
Setup(c) ==
  /\ \E r \in FreshRtp, transport \in {"created", "not created", "multicast"} :
       /\ AppendRtp(c, r, "READY")
       /\ IF transport = "multicast"
            THEN UNCHANGED portPool
            ELSE portPool # {} /\ portPool' = portPool \ {FirstPort}
       /\ LET handle == IF transport = "created" THEN "open" ELSE "null"
              first  == session'[c].rtp_session[1]
          IN  rtp' = [rtp EXCEPT ![r] = [NewRtp EXCEPT !.hndRtp = handle],
                                 ![first].sched_id = FirstFree]
       /\ IF FreeSlots = {}
            THEN UNCHANGED <<sched, main>>
            ELSE /\ sched' = [sched EXCEPT ![FirstFree].valid = TRUE]
                 /\ main' = [pc |-> "add", client |-> c, todo |-> <<r>>,
                             slot |-> FirstFree]
  /\ orderly' = (orderly /\ session[c].rtp_session = <<>>)
  /\ UNCHANGED <<clients, g_s32DoPlay, s32ConCnt, sender, fault>>

(* Mutant: schedule_add does not write rtp_session. *)
SetupFinishUnset ==
  /\ fault = "none" /\ main.pc = "add"
  /\ main' = Idle
  /\ UNCHANGED <<clients, session, rtp, sched, portPool, g_s32DoPlay,
                 s32ConCnt, sender, fault, orderly>>

(* The second half of schedule_add. *)
SetupFinish ==
  /\ fault = "none" /\ main.pc = "add"
  /\ sched' = [sched EXCEPT ![main.slot].rtp_session = Head(main.todo)]
  /\ main' = Idle
  /\ UNCHANGED <<clients, session, rtp, portPool, g_s32DoPlay, s32ConCnt,
                 sender, fault, orderly>>

(* PLAY for another session or without one: refused, yet PLAY. *)
PlayRefused(c) ==
  /\ InState(c, {"READY"})
  /\ EnterState(c, "PLAY")
  /\ UNCHANGED <<clients, tables, s32ConCnt, main, sender, fault, orderly>>

Play(c) ==
  /\ InState(c, {"READY"})
  /\ main' = [Idle EXCEPT !.pc = "play", !.client = c,
                          !.todo = session[c].rtp_session]
  /\ UNCHANGED <<clients, session, tables, s32ConCnt, sender, fault, orderly>>

(* The next session of the list, if it is not started: schedule_start on   *)
(* the slot its sched_id names, whose session it is or not.                *)
PlayNext ==
  /\ fault = "none" /\ main.pc = "play" /\ main.todo # <<>>
  /\ main' = [main EXCEPT !.todo = Tail(@)]
  /\ LET r  == Head(main.todo)
         id == rtp[r].sched_id
     IN  IF rtp[r].started
           THEN UNCHANGED <<rtp, g_s32DoPlay, fault>>
         ELSE IF id \notin Ids \/ sched[id].rtp_session = Nil
           THEN /\ fault' = IF id \notin Ids THEN "bounds" ELSE "null session"
                /\ UNCHANGED <<rtp, g_s32DoPlay>>
         ELSE /\ rtp' = [rtp EXCEPT ![sched[id].rtp_session].pause = FALSE,
                                    ![sched[id].rtp_session].started = TRUE]
              /\ g_s32DoPlay' = g_s32DoPlay + 1
              /\ UNCHANGED fault
  /\ UNCHANGED <<clients, session, sched, portPool, s32ConCnt, sender, orderly>>

PlayFinish ==
  /\ fault = "none" /\ main.pc = "play" /\ main.todo = <<>>
  /\ EnterState(main.client, "PLAY")
  /\ main' = Idle
  /\ UNCHANGED <<clients, tables, s32ConCnt, sender, fault, orderly>>

(* TEARDOWN of the client's session, in any state.  (One that names        *)
(* another session is refused and changes nothing.)                        *)
Teardown(c) ==
  /\ InState(c, States)
  /\ main' = [Idle EXCEPT !.pc = "teardown", !.client = c,
                          !.todo = session[c].rtp_session]
  /\ UNCHANGED <<clients, session, tables, s32ConCnt, sender, fault, orderly>>

(* For every RTP session of the list, RtpDelete first ... *)
DeleteRtp ==
  /\ fault = "none" /\ main.pc \in {"teardown", "close"} /\ main.todo # <<>>
  /\ LET r == Head(main.todo)
     IN  rtp' = [rtp EXCEPT ![r].hndRtp = IF @ = "open" THEN "closed" ELSE @]
  /\ main' = [main EXCEPT !.pc = IF @ = "teardown" THEN "teardown remove"
                                                   ELSE "close remove"]
  /\ UNCHANGED <<clients, session, sched, portPool, g_s32DoPlay, s32ConCnt,
                 sender, fault, orderly>>

(* Mutant: schedule_remove leaves the slot valid. *)
RemoveRtpKeepsSlot ==
  /\ fault = "none" /\ main.pc \in {"teardown remove", "close remove"}
  /\ g_s32DoPlay' = IF main.pc = "teardown remove" THEN g_s32DoPlay - 1
                                                   ELSE g_s32DoPlay
  /\ main' = [main EXCEPT
       !.pc = IF @ = "teardown remove" THEN "teardown" ELSE "close",
       !.todo = Tail(@)]
  /\ UNCHANGED <<clients, session, rtp, sched, portPool, s32ConCnt, sender,
                 fault, orderly>>

(* ... and then schedule_remove of the slot its sched_id names. *)
RemoveRtp ==
  /\ fault = "none" /\ main.pc \in {"teardown remove", "close remove"}
  /\ LET id == rtp[Head(main.todo)].sched_id
     IN  /\ sched' = IF id \in Ids THEN [sched EXCEPT ![id].valid = FALSE]
                                   ELSE sched
         /\ fault' = IF id \in Ids THEN fault ELSE "bounds"
  /\ g_s32DoPlay' = IF main.pc = "teardown remove" THEN g_s32DoPlay - 1
                                                   ELSE g_s32DoPlay
  /\ main' = [main EXCEPT
       !.pc = IF @ = "teardown remove" THEN "teardown" ELSE "close",
       !.todo = Tail(@)]
  /\ UNCHANGED <<clients, session, rtp, portPool, s32ConCnt, sender, orderly>>

(* When the count says that nobody plays, all ports go back to the pool.   *)
(* (ringreset is named there but not called.)                              *)
RefillPool(count) == portPool' = IF count = 0 THEN Ids ELSE portPool

TeardownFinish ==
  /\ fault = "none" /\ main.pc = "teardown" /\ main.todo = <<>>
  /\ RefillPool(g_s32DoPlay)
  /\ session' = [session EXCEPT ![main.client] = Nil]
  /\ main' = Idle
  /\ UNCHANGED <<clients, rtp, sched, g_s32DoPlay, s32ConCnt, sender, fault,
                 orderly>>

CloseFinish ==
  /\ fault = "none" /\ main.pc = "close" /\ main.todo = <<>>
  /\ g_s32DoPlay' = g_s32DoPlay - 1
  /\ RefillPool(g_s32DoPlay')
  /\ session' = [session EXCEPT ![main.client] = Nil]
  /\ Unlink(main.client)
  /\ main' = Idle
  /\ UNCHANGED <<rtp, sched, sender, orderly>>

-----------------------------------------------------------------------------
(* The sender thread: schedule_do walks the table for every frame.  Before *)
(* slot 0 it sleeps until there is one, which nothing here can observe.    *)

NextSlot == AtSlot((sender.slot + 1) % MAX_CONNECTION)

(* Is the slot valid? ... *)
SenderCheck ==
  /\ fault = "none" /\ sender.pc = "check"
  /\ sender' = IF sched[sender.slot].valid
                 THEN [sender EXCEPT !.pc = "pause"] ELSE NextSlot
  /\ UNCHANGED <<clients, session, tables, s32ConCnt, main, fault, orderly>>

(* ... Is the session it has by now not paused? ... *)
SenderPause ==
  /\ fault = "none" /\ sender.pc = "pause"
  /\ LET r == sched[sender.slot].rtp_session
     IN  IF r = Nil
           THEN fault' = "null session" /\ UNCHANGED sender
         ELSE /\ sender' = IF rtp[r].pause THEN NextSlot
                           ELSE [sender EXCEPT !.pc = "handle"]
              /\ UNCHANGED fault
  /\ UNCHANGED <<clients, session, tables, s32ConCnt, main, orderly>>

(* ... Is the handle of the one it has now not NULL? *)
SenderHandle ==
  /\ fault = "none" /\ sender.pc = "handle"
  /\ sender' = IF rtp[sched[sender.slot].rtp_session].hndRtp = "null"
                 THEN NextSlot ELSE [sender EXCEPT !.pc = "send"]
  /\ UNCHANGED <<clients, session, tables, s32ConCnt, main, fault, orderly>>

(* RtpSend is called with the handle the slot's session has by now ... *)
SenderCall ==
  /\ fault = "none" /\ sender.pc = "send"
  /\ LET r == sched[sender.slot].rtp_session
     IN  /\ sender' = [sender EXCEPT !.pc = "sending", !.rtp = r]
         /\ fault' = CASE rtp[r].hndRtp = "open"   -> fault
                       [] rtp[r].hndRtp = "closed" -> "freed handle"
                       [] rtp[r].hndRtp = "null"   -> "null handle"
  /\ UNCHANGED <<clients, session, tables, s32ConCnt, main, orderly>>

(* ... and uses it until the last packet is out. *)
SenderReturn ==
  /\ fault = "none" /\ sender.pc = "sending"
  /\ IF rtp[sender.rtp].hndRtp = "closed"
       THEN fault' = "freed handle" /\ UNCHANGED sender
       ELSE sender' = NextSlot /\ UNCHANGED fault
  /\ UNCHANGED <<clients, session, tables, s32ConCnt, main, orderly>>

-----------------------------------------------------------------------------

Request(c) ==
  \/ Options(c)
  \/ SetupRefused(c) \/ SetupUnsupported(c) \/ SetupNoPort(c) \/ Setup(c)
  \/ PlayRefused(c) \/ Play(c)
  \/ Teardown(c)

MainStep == SetupFinish \/ PlayNext \/ PlayFinish
            \/ DeleteRtp \/ RemoveRtp \/ TeardownFinish \/ CloseFinish
SenderStep == SenderCheck \/ SenderPause \/ SenderHandle
              \/ SenderCall \/ SenderReturn

Next ==
  \/ \E c \in Clients : Accept(c) \/ Close(c) \/ Request(c)
  \/ MainStep
  \/ SenderStep

Spec == Init /\ [][Next]_vars

-----------------------------------------------------------------------------
(* Properties. *)

RtpSessions == [hndRtp : {"null", "open", "closed"}, pause : BOOLEAN,
                started : BOOLEAN, sched_id : Ids \cup {ERR_GENERIC}]
TypeOK ==
  /\ clients \in Seq(Clients)
  /\ session \in [Clients -> [cur_state : States, rtp_session : Seq(RtpIds)]
                             \cup {Nil, Unseen}]
  /\ rtp \in [RtpIds -> RtpSessions \cup {Nil}]
  /\ sched \in [Ids -> [valid : BOOLEAN, rtp_session : RtpIds \cup {Nil}]]
  /\ portPool \subseteq Ids
  /\ g_s32DoPlay \in Int /\ s32ConCnt \in Int
  /\ main \in [pc : {"idle", "add", "play", "teardown", "teardown remove",
                     "close", "close remove"},
               client : Clients \cup {Nil}, todo : Seq(RtpIds), slot : Ids]
  /\ sender \in [pc : {"check", "pause", "handle", "send", "sending"},
                 slot : Ids, rtp : RtpIds \cup {Nil}]
  /\ fault \in {"none", "null client", "null session", "null handle",
                "freed handle", "bounds"}
  /\ orderly \in BOOLEAN

(* EventLoop's count is the length of the list and never negative, so the  *)
(* branch of ScheduleConnections that stops the sender is never taken; it  *)
(* never exceeds the scheduler table.                                      *)
ConnCount == s32ConCnt = Len(clients) /\ s32ConCnt \in 0 .. MAX_CONNECTION

(* Whatever clients send, a valid slot has an RTP session, but for the     *)
(* moment between the two writes of schedule_add: schedule_do dereferences *)
(* rtp_session without a check.                                            *)
Adding(i) == main.pc = "add" /\ main.slot = i
SlotBacked ==
  \A i \in Ids : sched[i].valid /\ ~Adding(i) => sched[i].rtp_session # Nil

(* While every client sets up one stream at most, the scheduler table and  *)
(* the clients' lists agree whenever no handler is at work on them: a      *)
(* listed session is the one its sched_id names, its handle still usable,  *)
(* and every valid slot belongs to a listed session.                       *)
AtWorkOn(c) == main.client = c /\ main.pc # "play"
Scheduled(r) ==
  /\ rtp[r].sched_id \in Ids
  /\ sched[rtp[r].sched_id] = [valid |-> TRUE, rtp_session |-> r]
OrderlySchedule ==
  orderly =>
    /\ \A c \in Clients : ~AtWorkOn(c) =>
         \A r \in Listed(c) : Scheduled(r) /\ rtp[r].hndRtp # "closed"
    /\ \A i \in Ids : sched[i].valid =>
         Adding(i) \/ \E c \in Connected : sched[i].rtp_session \in Listed(c)

(* What RTSP_play starts are the sessions of the client that sent PLAY     *)
(* (rtspservice.c:1202): a session that is streamed is in the list of a    *)
(* client that plays, or whose PLAY is being served.                       *)
Plays(c) == \/ session[c].cur_state = "PLAY"
            \/ main.client = c /\ main.pc = "play"
Streamed(i) == sched[i].valid /\ ~Adding(i) /\ ~rtp[sched[i].rtp_session].pause
StreamedOnlyToPlayers ==
  \A i \in Ids : Streamed(i) =>
    \E c \in Clients : sched[i].rtp_session \in Listed(c) /\ Plays(c)
OrderlyStreams == orderly => StreamedOnlyToPlayers

(* While every client sets up one stream at most, there is a slot for each *)
(* of them, so schedule_start and schedule_remove stay within the table,   *)
(* and only the unfinished schedule_add lets a NULL session be read.       *)
OrderlyFaults ==
  orderly => fault # "bounds" /\ (fault = "null session" => main.pc = "add")

(* "Playing state, larger than zero means some client plays"               *)
(* (rtsputils.c:361).                                                      *)
PlayCountMeansPlaying ==
  main.pc = "idle" =>
    (g_s32DoPlay > 0 <=>
       \E c \in Connected : HasSession(c) /\ \E r \in Listed(c) : rtp[r].started)

=============================================================================
