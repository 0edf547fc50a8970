-------------------------- MODULE RtspServerProofs --------------------------
(***************************************************************************)
(* What is proved of RtspServer for any number of clients, connections,    *)
(* scheduler slots and RTP sessions.                                       *)
(***************************************************************************)
EXTENDS RtspServer, SequenceTheorems, WellFoundedInduction, TLAPS

Sessions == [cur_state : States, rtp_session : Seq(RtpIds)]

(* Whatever the lists, the handler at work and the scheduler name has been *)
(* allocated.                                                              *)
Live(r) == r \in RtpIds /\ rtp[r] \in RtpSessions
AllLive(list) == \A k \in 1 .. Len(list) : Live(list[k])
Allocated ==
  /\ \A c \in Clients : HasSession(c) => AllLive(session[c].rtp_session)
  /\ AllLive(main.todo)
  /\ \A i \in Ids : sched[i].rtp_session # Nil => Live(sched[i].rtp_session)

(* A connected client was accepted; the handler at work has what it works  *)
(* on, and so has the sender.                                              *)
Accepted == \A c \in Connected : session[c] \in Sessions \cup {Nil}
AtWork ==
  /\ main.pc \notin {"idle", "add"} =>
       main.client \in Clients /\ session[main.client] \in Sessions
  /\ main.pc = "play" => HasSession(main.client)
  /\ main.pc \in {"add", "teardown remove", "close remove"} =>
       main.todo # <<>>
Sending ==
  /\ sender.pc = "pause" =>
       Adding(sender.slot) \/ sched[sender.slot].rtp_session # Nil
  /\ sender.pc \in {"handle", "send"} => sched[sender.slot].rtp_session # Nil
Work == Accepted /\ AtWork /\ Sending

Inv == TypeOK /\ ConnCount /\ SlotBacked /\ Allocated /\ Work

-----------------------------------------------------------------------------

(* A set of numbers has a least one: what schedule_add and the port pool   *)
(* look for exists.                                                        *)
LEMMA LeastNumber ==
  ASSUME NEW T, T \subseteq Nat, T # {}
  PROVE  \E x \in T : \A y \in T : x <= y
<1> DEFINE less == {ss \in Nat \X Nat : ss[1] < ss[2]}
<1>1. IsWellFoundedOn(less, Nat)
  BY NatLessThanWellFounded DEF OpToRel
<1>2. \A x, y \in Nat : <<y, x>> \notin less => x <= y
  OBVIOUS
<1> HIDE DEF less
<1>3. \E x \in T : \A y \in T : <<y, x>> \notin less
  BY <1>1, WFMin, Zenon
<1> QED BY <1>2, <1>3

(* schedule_add finds a free slot when there is one, and the port pool     *)
(* hands out a pair it has.                                                *)
LEMMA FirstFound ==
  ASSUME TypeOK
  PROVE  /\ FreeSlots # {} => FirstFree \in FreeSlots
         /\ FreeSlots = {} => FirstFree = ERR_GENERIC
         /\ portPool # {} => FirstPort \in portPool
<1> USE ServerAssumption
<1>1. FreeSlots \subseteq Nat /\ portPool \subseteq Nat
  <2>1. Ids \subseteq Nat
    BY SMT DEF Ids
  <2>2. FreeSlots \subseteq Ids /\ portPool \subseteq Ids
    BY Zenon DEF FreeSlots, TypeOK
  <2> QED BY <2>1, <2>2
<1>2. FreeSlots # {} => \E i \in FreeSlots : \A j \in FreeSlots : i <= j
  BY <1>1, LeastNumber
<1>3. portPool # {} => \E p \in portPool : \A q \in portPool : p <= q
  BY <1>1, LeastNumber
<1> QED BY <1>2, <1>3, Zenon DEF FirstFree, FirstPort

(* Appending one RTP session to a list.                                    *)
LEMMA Appended ==
  ASSUME NEW list \in Seq(RtpIds), NEW r \in RtpIds
  PROVE  /\ Append(list, r) \in Seq(RtpIds)
         /\ Len(Append(list, r)) = Len(list) + 1
         /\ \A k \in 1 .. Len(list) : Append(list, r)[k] = list[k]
         /\ Append(list, r)[Len(list) + 1] = r
  OBVIOUS

(* Unlinking removes one client from the list.                             *)
LEMMA Unlinked ==
  ASSUME TypeOK, NEW c, Unlink(c)
  PROVE  /\ clients' \in Seq(Clients)
         /\ Len(clients) \in Nat \ {0}
         /\ Len(clients') = Len(clients) - 1
         /\ Connected' \subseteq Connected
         /\ Connected \ {c} \subseteq Connected'
         /\ s32ConCnt' = s32ConCnt - 1
         /\ (fault' = fault \/ fault' = "null client")
<1>1. PICK k \in 1 .. Len(clients) :
        /\ clients[k] = c
        /\ clients' = SubSeq(clients, 1, k - 1)
                       \o SubSeq(clients, k + 1, Len(clients))
  BY DEF Unlink
<1> DEFINE s == SubSeq(clients, 1, k - 1)
           t == SubSeq(clients, k + 1, Len(clients))
<1>2. clients \in Seq(Clients) /\ Len(clients) \in Nat
  <2>1. clients \in Seq(Clients)
    BY DEF TypeOK
  <2> QED BY <2>1, LenProperties
<1>3. /\ s \in Seq(Clients) /\ Len(s) = k - 1
      /\ \A i \in 1 .. Len(s) : s[i] = clients[i]
  <2>1. \A i \in 1 .. k - 1 : clients[i] \in Clients
    BY <1>2, ElementOfSeq
  <2>2. k - 1 \in Int /\ 1 \in Int
    BY <1>2
  <2>3. /\ s \in Seq(Clients)
        /\ Len(s) = IF 1 <= k - 1 THEN k - 1 - 1 + 1 ELSE 0
        /\ \A i \in 1 .. k - 1 - 1 + 1 : s[i] = clients[1 + i - 1]
    BY <2>1, <2>2, SubSeqProperties
  <2> HIDE DEF s
  <2> QED BY <2>3, <1>2
<1>4. /\ t \in Seq(Clients) /\ Len(t) = Len(clients) - k
      /\ \A i \in 1 .. Len(t) : t[i] = clients[i + k]
  <2>1. \A i \in k + 1 .. Len(clients) : clients[i] \in Clients
    BY <1>2, ElementOfSeq
  <2>2. k + 1 \in Int /\ Len(clients) \in Int
    BY <1>2
  <2>3. /\ t \in Seq(Clients)
        /\ Len(t) = IF k + 1 <= Len(clients) THEN Len(clients) - (k + 1) + 1
                                            ELSE 0
        /\ \A i \in 1 .. Len(clients) - (k + 1) + 1 :
             t[i] = clients[k + 1 + i - 1]
    BY <2>1, <2>2, SubSeqProperties
  <2> HIDE DEF t
  <2> QED BY <2>3, <1>2
<1> HIDE DEF s, t
<1>5. /\ s \o t \in Seq(Clients) /\ Len(s \o t) = Len(s) + Len(t)
      /\ \A i \in 1 .. Len(s) + Len(t) : (s \o t)[i] =
           IF i <= Len(s) THEN s[i] ELSE t[i - Len(s)]
  BY <1>3, <1>4, ConcatProperties
<1>6. clients' = s \o t
  BY <1>1 DEF s, t
<1>7. ASSUME NEW i \in 1 .. Len(clients')
      PROVE  \E j \in 1 .. Len(clients) : clients'[i] = clients[j]
  <2>1. CASE i <= Len(s)
    BY <2>1, <1>2, <1>3, <1>4, <1>5, <1>6
  <2>2. CASE ~(i <= Len(s))
    <3>1. clients'[i] = t[i - Len(s)] /\ i - Len(s) \in 1 .. Len(t)
      <4>1. Len(s) \in Nat /\ Len(t) \in Nat /\ i \in 1 .. Len(s) + Len(t)
        BY <1>3, <1>4, <1>5, <1>6
      <4>2. clients'[i] = t[i - Len(s)]
        BY <2>2, <1>5, <1>6, <4>1, Zenon
      <4> QED BY <2>2, <4>1, <4>2
    <3>2. clients'[i] = clients[i - Len(s) + k]
      BY <3>1, <1>4
    <3> QED BY <3>1, <3>2, <1>2, <1>3, <1>4
  <2> QED BY <2>1, <2>2
<1>8. Connected' \subseteq Connected
  BY <1>7 DEF Connected
<1>9. s32ConCnt' = s32ConCnt - 1 /\ (fault' = fault \/ fault' = "null client")
  BY Zenon DEF Unlink
<1>10. /\ clients' \in Seq(Clients)
       /\ Len(clients) \in Nat \ {0} /\ Len(clients') = Len(clients) - 1
  <2>1. k \in 1 .. Len(clients)
    BY <1>1
  <2>2. Len(s) = k - 1 /\ Len(t) = Len(clients) - k
    BY <1>3, <1>4
  <2>3. clients' \in Seq(Clients) /\ Len(clients') = Len(s) + Len(t)
    BY <1>5, <1>6
  <2> QED BY <2>1, <2>2, <2>3, <1>2
<1>11. ASSUME NEW j \in 1 .. Len(clients), clients[j] # c
       PROVE  clients[j] \in Connected'
  <2>1. j # k
    BY <1>1, <1>11
  <2>2. CASE j < k
    <3>1. j \in 1 .. Len(clients') /\ clients'[j] = clients[j]
      BY <2>2, <1>2, <1>3, <1>4, <1>5, <1>6
    <3> QED BY <3>1 DEF Connected
  <2>3. CASE j > k
    <3>1. j - 1 \in 1 .. Len(clients') /\ j - k \in 1 .. Len(t)
      BY <2>3, <1>2, <1>3, <1>4, <1>5, <1>6
    <3>2. clients'[j - 1] = t[j - k]
      BY <3>1, <2>3, <1>2, <1>3, <1>4, <1>5, <1>6
    <3>3. clients'[j - 1] = clients[j]
      BY <3>1, <3>2, <1>2, <1>4
    <3> QED BY <3>1, <3>3 DEF Connected
  <2> QED BY <2>1, <2>2, <2>3, <1>2
<1>12. Connected \ {c} \subseteq Connected'
  BY <1>11 DEF Connected
<1> QED BY <1>8, <1>9, <1>10, <1>12

-----------------------------------------------------------------------------

(* The server starts with nobody connected.                                *)
LEMMA InitInv == Init => Inv
<1> SUFFICES ASSUME Init PROVE Inv
  OBVIOUS
<1> USE ServerAssumption DEF Init
<1>1. TypeOK
  BY DEF TypeOK, Ids, Idle, AtSlot
<1>2. ConnCount
  BY DEF ConnCount
<1>3. SlotBacked
  BY DEF SlotBacked
<1>4. Allocated
  <2>1. \A c \in Clients : ~HasSession(c)
    BY DEF HasSession
  <2>2. main.todo = <<>>
    BY DEF Idle
  <2>3. AllLive(main.todo)
    BY <2>2 DEF AllLive
  <2> QED BY <2>1, <2>3 DEF Allocated
<1>5. Work
  <2>1. Connected = {}
    BY DEF Connected
  <2> QED BY <2>1 DEF Work, Accepted, AtWork, Sending, Idle, AtSlot
<1> QED BY <1>1, <1>2, <1>3, <1>4, <1>5 DEF Inv

-----------------------------------------------------------------------------

(* TypeOK with its sets of records named.                                  *)
RtpOrNil == RtpSessions \cup {Nil}
SessionOrNot == Sessions \cup {Nil, Unseen}
Slots == [valid : BOOLEAN, rtp_session : RtpIds \cup {Nil}]
Handlers == [pc : {"idle", "add", "play", "teardown", "teardown remove",
                   "close", "close remove"},
             client : Clients \cup {Nil}, todo : Seq(RtpIds), slot : Ids]
Senders == [pc : {"check", "pause", "handle", "send", "sending"}, slot : Ids,
            rtp : RtpIds \cup {Nil}]
Faults == {"none", "null client", "null session", "null handle",
           "freed handle", "bounds"}
Typed ==
  /\ clients \in Seq(Clients)
  /\ session \in [Clients -> SessionOrNot]
  /\ rtp \in [RtpIds -> RtpOrNil]
  /\ sched \in [Ids -> Slots]
  /\ portPool \subseteq Ids
  /\ g_s32DoPlay \in Int /\ s32ConCnt \in Int
  /\ main \in Handlers
  /\ sender \in Senders
  /\ fault \in Faults
  /\ orderly \in BOOLEAN

(* A step frees no RTP session.                                            *)
LiveAfter(r) == r \in RtpIds /\ rtp'[r] \in RtpSessions
Kept == \A r : Live(r) => LiveAfter(r)

(* TypeOK, with names for its sets of records.                             *)
LEMMA TypedIsTypeOK == Typed <=> TypeOK
  BY Zenon DEF Typed, TypeOK, RtpOrNil, SessionOrNot, Sessions, Slots,
               Handlers, Senders, Faults

(* A client in a given state has a session, and so does a client whose     *)
(* handler is at work.                                                     *)
LEMMA HasOne ==
  ASSUME Typed, NEW c \in Clients, HasSession(c)
  PROVE  session[c] \in Sessions
  BY Zenon DEF Typed, HasSession, SessionOrNot

(* EnterState keeps the list.                                              *)
LEMMA Entered ==
  ASSUME Typed, NEW c \in Clients, session[c] \in Sessions,
         NEW state \in States, EnterState(c, state)
  PROVE  /\ session' \in [Clients -> SessionOrNot]
         /\ session'[c] \in Sessions
         /\ session'[c].rtp_session = session[c].rtp_session
         /\ \A d \in Clients \ {c} : session'[d] = session[d]
<1>1. session' = [session EXCEPT ![c].cur_state = state]
  BY DEF EnterState
<1>2. [session[c] EXCEPT !.cur_state = state] \in Sessions
  BY DEF Sessions
<1>3. session \in [Clients -> SessionOrNot]
  BY DEF Typed
<1>4. [session[c] EXCEPT !.cur_state = state].rtp_session
        = session[c].rtp_session
  BY DEF Sessions
<1> QED BY <1>1, <1>2, <1>3, <1>4 DEF SessionOrNot

(* AppendRtp puts a new session at the end of the list.                    *)
LEMMA RtpAppended ==
  ASSUME Typed, NEW c \in Clients, NEW r \in RtpIds, NEW state \in States,
         AppendRtp(c, r, state)
  PROVE  /\ session[c] \in Sessions
         /\ session' \in [Clients -> SessionOrNot]
         /\ session'[c] \in Sessions
         /\ session'[c].rtp_session = Append(session[c].rtp_session, r)
         /\ \A d \in Clients \ {c} : session'[d] = session[d]
<1>1. session[c] \in Sessions
  BY HasOne DEF AppendRtp, InState
<1> DEFINE new == [cur_state |-> state,
                   rtp_session |-> Append(session[c].rtp_session, r)]
<1>2. session' = [session EXCEPT ![c] = new]
  BY DEF AppendRtp
<1>3. session[c].rtp_session \in Seq(RtpIds)
  BY <1>1 DEF Sessions
<1>4. new \in Sessions
  BY <1>3, Appended DEF Sessions
<1>5. new.rtp_session = Append(session[c].rtp_session, r)
  OBVIOUS
<1>6. session \in [Clients -> SessionOrNot]
  BY DEF Typed
<1> HIDE DEF new
<1> QED BY <1>1, <1>2, <1>4, <1>5, <1>6 DEF SessionOrNot

(* The handler a request starts has the client's list to go through.       *)
LEMMA Started ==
  ASSUME Typed, NEW c \in Clients, session[c] \in Sessions,
         NEW p \in {"play", "teardown", "close"},
         main' = [Idle EXCEPT !.pc = p, !.client = c,
                              !.todo = session[c].rtp_session]
  PROVE  /\ main' \in Handlers
         /\ main'.pc = p /\ main'.client = c
         /\ main'.todo = session[c].rtp_session
<1>1. session[c].rtp_session \in Seq(RtpIds)
  BY DEF Sessions
<1>2. 0 \in Ids
  BY ServerAssumption DEF Ids
<1> QED BY <1>1, <1>2, Zenon DEF Idle, Handlers

(* The idle handler, and the one at work with one session less to go.      *)
LEMMA IdleTyped == Idle \in Handlers
  BY ServerAssumption DEF Idle, Handlers, Ids

(* The first session of a list and the rest of the list.                   *)
LEMMA TailTyped ==
  ASSUME NEW list \in Seq(RtpIds), list # <<>>
  PROVE  /\ Head(list) \in RtpIds /\ Tail(list) \in Seq(RtpIds)
         /\ Head(list) = list[1] /\ 1 \in 1 .. Len(list)
         /\ Len(Tail(list)) = Len(list) - 1
         /\ \A k \in 1 .. Len(Tail(list)) : Tail(list)[k] = list[k + 1]
  BY HeadTailProperties, LenProperties, EmptySeq

-----------------------------------------------------------------------------

(* The connections' steps keep every variable in its type.                 *)
LEMMA TypeConnections ==
  ASSUME Inv, Typed, NEW c \in Clients, Accept(c) \/ Close(c)
  PROVE  Typed'
<1>1. CASE Accept(c)
  <2>1. clients' \in Seq(Clients)
    BY <1>1 DEF Accept, Typed
  <2>2. session' \in [Clients -> SessionOrNot]
    BY <1>1 DEF Accept, Typed, SessionOrNot, Sessions, NewSession, States
  <2> QED BY <1>1, <2>1, <2>2 DEF Accept, Typed, tables
<1>2. CASE Close(c)
  <2>1. CASE session[c] = Nil
    <3>1. Unlink(c) /\ main' = main
      BY <1>2, <2>1 DEF Close
    <3>2. clients' \in Seq(Clients)
      BY <3>1, Unlinked, TypedIsTypeOK
    <3>3. s32ConCnt' \in Int /\ fault' \in Faults
      <4>1. s32ConCnt' = s32ConCnt - 1
        BY <3>1, Unlinked, TypedIsTypeOK
      <4>2. fault' = fault \/ fault' = "null client"
        BY <3>1, Unlinked, TypedIsTypeOK
      <4>3. s32ConCnt \in Int
        BY DEF Typed
      <4>4. s32ConCnt' \in Int
        BY <4>1, <4>3
      <4>5. fault' \in Faults
        BY <4>2, Zenon DEF Typed, Faults
      <4> QED BY <4>4, <4>5
    <3> QED BY <1>2, <3>1, <3>2, <3>3 DEF Close, Typed, tables
  <2>2. CASE session[c] # Nil
    <3>1. session[c] \in Sessions
      BY <2>2, <1>2, Zenon DEF Close, Serving, Inv, Work, Accepted
    <3>2. main' \in Handlers
      BY <1>2, <2>2, <3>1, Started DEF Close
    <3> QED BY <1>2, <2>2, <3>2 DEF Close, Typed, tables
  <2> QED BY <2>1, <2>2
<1> QED BY <1>1, <1>2

(* A new RTP session, as every SETUP makes it.                             *)
LEMMA NewRtpTyped == NewRtp \in RtpSessions
  BY ServerAssumption DEF NewRtp, RtpSessions, Ids

(* The requests that only enter a state keep every variable in its type.   *)
LEMMA TypeStates ==
  ASSUME Typed, NEW c \in Clients,
         Options(c) \/ SetupRefused(c) \/ PlayRefused(c)
  PROVE  Typed'
<1>1. PICK state \in States : EnterState(c, state)
  BY Zenon DEF Options, SetupRefused, PlayRefused, States
<1>2. HasSession(c)
  BY Zenon DEF Options, SetupRefused, PlayRefused, InState
<1>3. session' \in [Clients -> SessionOrNot]
  BY <1>1, <1>2, HasOne, Entered
<1>4. UNCHANGED <<clients, tables, s32ConCnt, main, sender, fault, orderly>>
  BY Zenon DEF Options, SetupRefused, PlayRefused
<1> QED BY <1>3, <1>4, Zenon DEF Typed, tables

(* So do the requests whose handler goes through the client's list.        *)
LEMMA TypeStarts ==
  ASSUME Typed, NEW c \in Clients, Play(c) \/ Teardown(c)
  PROVE  Typed'
<1>1. HasSession(c)
  BY Zenon DEF Play, Teardown, InState
<1>2. main' \in Handlers
  <2>1. CASE Play(c)
    BY <1>1, <2>1, HasOne, Started DEF Play
  <2>2. CASE Teardown(c)
    BY <1>1, <2>2, HasOne, Started DEF Teardown
  <2> QED BY <2>1, <2>2
<1>3. UNCHANGED <<clients, session, tables, s32ConCnt, sender, fault, orderly>>
  BY Zenon DEF Play, Teardown
<1> QED BY <1>2, <1>3, Zenon DEF Typed, tables

(* So does SETUP: refused after it listed its session, ...                 *)
LEMMA TypeSetupFails ==
  ASSUME Typed, NEW c \in Clients, SetupUnsupported(c) \/ SetupNoPort(c)
  PROVE  /\ Typed' /\ Kept
         /\ \E r \in RtpIds, state \in States :
              AppendRtp(c, r, state) /\ LiveAfter(r)
<1>1. PICK r \in RtpIds, state \in States :
        AppendRtp(c, r, state) /\ rtp' = [rtp EXCEPT ![r] = NewRtp]
  <2>1. CASE SetupUnsupported(c)
    BY <2>1, Zenon DEF SetupUnsupported, FreshRtp, States
  <2>2. CASE SetupNoPort(c)
    <3>1. PICK r \in RtpIds : /\ AppendRtp(c, r, session[c].cur_state)
                              /\ rtp' = [rtp EXCEPT ![r] = NewRtp]
      BY <2>2, Zenon DEF SetupNoPort, FreshRtp
    <3>2. session[c].cur_state \in States
      BY <3>1, HasOne DEF AppendRtp, InState, Sessions
    <3> QED BY <3>1, <3>2
  <2> QED BY <2>1, <2>2
<1>2. session' \in [Clients -> SessionOrNot]
  BY <1>1, RtpAppended
<1>3. rtp' \in [RtpIds -> RtpOrNil] /\ Kept /\ LiveAfter(r)
  <2>1. rtp \in [RtpIds -> RtpOrNil] /\ NewRtp \in RtpOrNil
    BY NewRtpTyped DEF Typed, RtpOrNil
  <2> QED BY <1>1, <2>1, NewRtpTyped DEF Kept, LiveAfter, Live
<1>4. /\ UNCHANGED <<clients, sched, portPool, g_s32DoPlay, s32ConCnt, main,
                     sender, fault>>
      /\ orderly' = FALSE
  BY Zenon DEF SetupUnsupported, SetupNoPort
<1> QED BY <1>1, <1>2, <1>3, <1>4, Zenon DEF Typed

(* ... or accepted: r is the new session, id the slot's number or          *)
(* ERR_GENERIC, which goes to the first session of the list.               *)
SetupOf(c, r, id) ==
  LET list == session[c].rtp_session
  IN  /\ r \in FreshRtp /\ AppendRtp(c, r, "READY")
      /\ \E h \in {"open", "null"} :
           rtp' = [rtp EXCEPT ![r] = [NewRtp EXCEPT !.hndRtp = h],
                              ![session'[c].rtp_session[1]].sched_id = id]
      /\ \/ /\ FreeSlots = {} /\ id = ERR_GENERIC
            /\ UNCHANGED <<sched, main>>
         \/ /\ id \in FreeSlots
            /\ sched' = [sched EXCEPT ![id].valid = TRUE]
            /\ main' = [pc |-> "add", client |-> c, todo |-> <<r>>,
                        slot |-> id]
      /\ portPool' \subseteq portPool
      /\ orderly' = (orderly /\ list = <<>>)
      /\ UNCHANGED <<clients, g_s32DoPlay, s32ConCnt, sender, fault>>

(* The accepted SETUP is SetupOf for one new session and the slot that     *)
(* schedule_add finds.                                                     *)
LEMMA SetupParts ==
  ASSUME Typed, NEW c \in Clients, Setup(c)
  PROVE  \E r \in RtpIds : SetupOf(c, r, FirstFree)
<1>1. PICK r \in FreshRtp, t \in {"created", "not created", "multicast"} :
        /\ AppendRtp(c, r, "READY")
        /\ IF t = "multicast"
             THEN UNCHANGED portPool
             ELSE portPool # {} /\ portPool' = portPool \ {FirstPort}
        /\ LET handle == IF t = "created" THEN "open" ELSE "null"
               first  == session'[c].rtp_session[1]
           IN  rtp' = [rtp EXCEPT ![r] = [NewRtp EXCEPT !.hndRtp = handle],
                                  ![first].sched_id = FirstFree]
        /\ IF FreeSlots = {}
             THEN UNCHANGED <<sched, main>>
             ELSE /\ sched' = [sched EXCEPT ![FirstFree].valid = TRUE]
                  /\ main' = [pc |-> "add", client |-> c, todo |-> <<r>>,
                              slot |-> FirstFree]
  BY Zenon DEF Setup
<1>2. /\ orderly' = (orderly /\ session[c].rtp_session = <<>>)
      /\ UNCHANGED <<clients, g_s32DoPlay, s32ConCnt, sender, fault>>
  BY Zenon DEF Setup
<1>3. r \in RtpIds
  BY DEF FreshRtp
<1>4. portPool' \subseteq portPool
  BY <1>1
<1>5. \E h \in {"open", "null"} :
        rtp' = [rtp EXCEPT ![r] = [NewRtp EXCEPT !.hndRtp = h],
                           ![session'[c].rtp_session[1]].sched_id = FirstFree]
  BY <1>1, Zenon
<1>6. \/ /\ FreeSlots = {} /\ FirstFree = ERR_GENERIC
         /\ UNCHANGED <<sched, main>>
      \/ /\ FirstFree \in FreeSlots
         /\ sched' = [sched EXCEPT ![FirstFree].valid = TRUE]
         /\ main' = [pc |-> "add", client |-> c, todo |-> <<r>>,
                     slot |-> FirstFree]
  BY <1>1, FirstFound, TypedIsTypeOK, Zenon
<1>7. SetupOf(c, r, FirstFree)
  BY <1>1, <1>2, <1>4, <1>5, <1>6, Zenon DEF SetupOf
<1> QED BY <1>3, <1>7

(* The accepted SETUP keeps every variable in its type, and what it lists  *)
(* is allocated.                                                           *)
LEMMA TypeSetup ==
  ASSUME Inv, Typed, NEW c \in Clients, Setup(c)
  PROVE  /\ Typed' /\ Kept
         /\ \E r \in RtpIds : SetupOf(c, r, FirstFree) /\ LiveAfter(r)
<1>1. PICK r \in RtpIds : SetupOf(c, r, FirstFree)
  BY SetupParts
<1> DEFINE id == FirstFree
           first == session'[c].rtp_session[1]
<1> HIDE DEF id
<1>2. SetupOf(c, r, id)
  BY <1>1 DEF id
<1>3. AppendRtp(c, r, "READY") /\ "READY" \in States
  BY <1>2, Zenon DEF SetupOf, States
<1>4. session' \in [Clients -> SessionOrNot]
  BY <1>3, RtpAppended
<1>5. id \in Ids \cup {ERR_GENERIC}
  BY <1>2, Zenon DEF SetupOf, FreeSlots
<1>6. first \in RtpIds /\ (first = r \/ rtp[first] \in RtpSessions)
  <2> DEFINE list == session[c].rtp_session
  <2>1. list \in Seq(RtpIds)
    BY <1>3, RtpAppended DEF Sessions
  <2>2. session'[c].rtp_session = Append(list, r)
    BY <1>3, RtpAppended
  <2>3. AllLive(list)
    BY <1>3, Zenon DEF AppendRtp, InState, Inv, Allocated
  <2> HIDE DEF list
  <2>4. CASE Len(list) = 0
    BY <2>1, <2>2, <2>4, Appended
  <2>5. CASE Len(list) # 0
    <3>1. 1 \in 1 .. Len(list)
      BY <2>1, <2>5
    <3>2. first = list[1]
      BY <2>1, <2>2, <3>1
    <3> QED BY <2>3, <3>1, <3>2 DEF AllLive, Live
  <2> QED BY <2>4, <2>5
<1>7. rtp' \in [RtpIds -> RtpOrNil] /\ Kept /\ LiveAfter(r)
  <2>1. PICK h \in {"open", "null"} :
          rtp' = [rtp EXCEPT ![r] = [NewRtp EXCEPT !.hndRtp = h],
                             ![first].sched_id = id]
    BY <1>2, Zenon DEF SetupOf
  <2> DEFINE new == [NewRtp EXCEPT !.hndRtp = h]
             mid == [rtp EXCEPT ![r] = new]
  <2>2. new \in RtpSessions
    BY NewRtpTyped DEF RtpSessions
  <2> HIDE DEF new, first
  <2>3. rtp \in [RtpIds -> RtpOrNil]
    BY DEF Typed
  <2>4. mid \in [RtpIds -> RtpOrNil] /\ mid[first] \in RtpSessions
    BY <2>2, <2>3, <1>6 DEF RtpOrNil
  <2>5. rtp' = [mid EXCEPT ![first].sched_id = id]
    BY <2>1 DEF new
  <2> HIDE DEF mid
  <2>6. [mid[first] EXCEPT !.sched_id = id] \in RtpSessions
    BY <2>4, <1>5 DEF RtpSessions
  <2>7. /\ rtp' \in [RtpIds -> RtpOrNil]
        /\ \A p \in RtpIds \ {first} : rtp'[p] = mid[p]
        /\ rtp'[first] \in RtpSessions
    BY <2>4, <2>5, <2>6, <1>6 DEF RtpOrNil
  <2>8. /\ mid[r] \in RtpSessions
        /\ \A p \in RtpIds \ {r} : mid[p] = rtp[p]
    BY <2>2, <2>3 DEF mid
  <2> QED BY <2>7, <2>8 DEF Kept, LiveAfter, Live
<1>8. sched' \in [Ids -> Slots] /\ main' \in Handlers
  <2>1. CASE UNCHANGED <<sched, main>>
    BY <2>1 DEF Typed
  <2>2. CASE /\ id \in FreeSlots
             /\ sched' = [sched EXCEPT ![id].valid = TRUE]
             /\ main' = [pc |-> "add", client |-> c, todo |-> <<r>>,
                         slot |-> id]
    <3>1. id \in Ids /\ <<r>> \in Seq(RtpIds)
      BY <2>2 DEF FreeSlots
    <3>2. main' \in Handlers
      BY <2>2, <3>1 DEF Handlers
    <3>3. sched \in [Ids -> Slots]
      BY DEF Typed
    <3>4. [sched[id] EXCEPT !.valid = TRUE] \in Slots
      BY <3>1, <3>3 DEF Slots
    <3> QED BY <2>2, <3>1, <3>2, <3>3, <3>4
  <2> QED BY <1>2, <2>1, <2>2, Zenon DEF SetupOf
<1>9. portPool' \subseteq Ids /\ orderly' \in BOOLEAN
  BY <1>2, Zenon DEF SetupOf, Typed
<1>10. UNCHANGED <<clients, g_s32DoPlay, s32ConCnt, sender, fault>>
  BY <1>2, Zenon DEF SetupOf
<1> QED BY <1>1, <1>4, <1>7, <1>8, <1>9, <1>10, Zenon DEF Typed

(* The steps of the handlers keep every variable in its type.              *)
LEMMA HandlerParts ==
  ASSUME Typed
  PROVE  /\ main.todo \in Seq(RtpIds) /\ main.slot \in Ids
         /\ [main EXCEPT !.todo = Tail(@)].todo = Tail(main.todo)
         /\ main.todo # <<>> => [main EXCEPT !.todo = Tail(@)] \in Handlers
<1>1. main \in Handlers
  BY DEF Typed
<1>2. main.todo \in Seq(RtpIds) /\ main.slot \in Ids
  BY <1>1 DEF Handlers
<1>3. main.todo # <<>> => Tail(main.todo) \in Seq(RtpIds)
  BY <1>2, TailTyped
<1> QED BY <1>1, <1>2, <1>3 DEF Handlers

(* The second half of schedule_add.                                        *)
LEMMA TypeSetupFinish == ASSUME Inv, Typed, SetupFinish PROVE Typed'
<1>1. Head(main.todo) \in RtpIds
  BY HandlerParts, TailTyped DEF SetupFinish, Inv, Work, Accepted, AtWork, Sending
<1>2. sched' \in [Ids -> Slots]
  <2>1. sched \in [Ids -> Slots] /\ main.slot \in Ids
    BY HandlerParts DEF Typed
  <2>2. [sched[main.slot] EXCEPT !.rtp_session = Head(main.todo)] \in Slots
    BY <1>1, <2>1 DEF Slots
  <2> QED BY <2>1, <2>2 DEF SetupFinish
<1>3. main' \in Handlers
  BY IdleTyped DEF SetupFinish
<1>4. UNCHANGED <<clients, session, rtp, portPool, g_s32DoPlay, s32ConCnt,
                  sender, fault, orderly>>
  BY Zenon DEF SetupFinish
<1> QED BY <1>2, <1>3, <1>4, Zenon DEF Typed

(* schedule_start, whichever session the slot has.                         *)
LEMMA TypePlayNext == ASSUME Inv, Typed, PlayNext PROVE Typed' /\ Kept
<1> DEFINE id == rtp[Head(main.todo)].sched_id
           played == sched[id].rtp_session
<1>1. main' \in Handlers
  BY HandlerParts DEF PlayNext
<1>2. /\ rtp' \in [RtpIds -> RtpOrNil] /\ Kept
      /\ g_s32DoPlay' \in Int /\ fault' \in Faults
  <2>1. CASE UNCHANGED <<rtp, g_s32DoPlay, fault>>
    BY <2>1 DEF Typed, Kept, Live, LiveAfter
  <2>2. CASE /\ fault' \in {"bounds", "null session"}
             /\ UNCHANGED <<rtp, g_s32DoPlay>>
    <3>1. fault' \in Faults
      BY <2>2 DEF Faults
    <3> QED BY <2>2, <3>1 DEF Typed, Kept, Live, LiveAfter
  <2>3. CASE /\ id \in Ids /\ played # Nil
             /\ rtp' = [rtp EXCEPT ![played].pause = FALSE,
                                   ![played].started = TRUE]
             /\ g_s32DoPlay' = g_s32DoPlay + 1
             /\ UNCHANGED fault
    <3>1. played \in RtpIds /\ rtp[played] \in RtpSessions
      BY <2>3 DEF Inv, Allocated, Live
    <3>2. rtp \in [RtpIds -> RtpOrNil]
      BY DEF Typed
    <3> DEFINE mid == [rtp EXCEPT ![played].pause = FALSE]
    <3> HIDE DEF played
    <3>3. [rtp[played] EXCEPT !.pause = FALSE] \in RtpSessions
      BY <3>1 DEF RtpSessions
    <3>4. mid \in [RtpIds -> RtpOrNil] /\ mid[played] \in RtpSessions
      BY <3>1, <3>2, <3>3 DEF RtpOrNil
    <3>5. rtp' = [mid EXCEPT ![played].started = TRUE]
      BY <2>3
    <3> HIDE DEF mid
    <3>6. [mid[played] EXCEPT !.started = TRUE] \in RtpSessions
      BY <3>4 DEF RtpSessions
    <3>7. /\ rtp' \in [RtpIds -> RtpOrNil]
          /\ \A p \in RtpIds \ {played} : rtp'[p] = mid[p]
          /\ rtp'[played] \in RtpSessions
      BY <3>1, <3>4, <3>5, <3>6 DEF RtpOrNil
    <3>8. \A p \in RtpIds \ {played} : mid[p] = rtp[p]
      BY <3>2 DEF mid
    <3>9. Kept
      BY <3>7, <3>8 DEF Kept, LiveAfter, Live
    <3>10. g_s32DoPlay' \in Int
      BY <2>3 DEF Typed
    <3> QED BY <2>3, <3>7, <3>9, <3>10 DEF Typed
  <2> QED BY <2>1, <2>2, <2>3, Zenon DEF PlayNext
<1>3. UNCHANGED <<clients, session, sched, portPool, s32ConCnt, sender,
                  orderly>>
  BY Zenon DEF PlayNext
<1> QED BY <1>1, <1>2, <1>3, Zenon DEF Typed

(* The end of PLAY.                                                        *)
LEMMA TypePlayFinish == ASSUME Inv, Typed, PlayFinish PROVE Typed'
<1>1. /\ main.client \in Clients /\ session[main.client] \in Sessions
      /\ EnterState(main.client, "PLAY") /\ "PLAY" \in States
  <2>1. main.pc = "play"
    BY DEF PlayFinish
  <2>2. main.client \in Clients /\ session[main.client] \in Sessions
    BY <2>1 DEF Inv, Work, Accepted, AtWork, Sending
  <2> QED BY <2>2 DEF PlayFinish, States
<1>2. session' \in [Clients -> SessionOrNot]
  BY <1>1, Entered
<1>3. main' \in Handlers
  BY IdleTyped DEF PlayFinish
<1>4. UNCHANGED <<clients, tables, s32ConCnt, sender, fault, orderly>>
  BY Zenon DEF PlayFinish
<1> QED BY <1>2, <1>3, <1>4, Zenon DEF Typed, tables

(* RtpDelete closes the handle of an allocated session.                    *)
LEMMA TypeDeleteRtp == ASSUME Inv, Typed, DeleteRtp PROVE Typed' /\ Kept
<1> DEFINE r == Head(main.todo)
<1>1. r \in RtpIds /\ rtp[r] \in RtpSessions
  <2>1. main.todo # <<>> /\ main.todo \in Seq(RtpIds)
    BY HandlerParts DEF DeleteRtp
  <2>2. AllLive(main.todo)
    BY DEF Inv, Allocated
  <2> QED BY <2>1, <2>2, TailTyped DEF AllLive, Live
<1> HIDE DEF r
<1>2. rtp' \in [RtpIds -> RtpOrNil] /\ Kept
  <2> DEFINE h == IF rtp[r].hndRtp = "open" THEN "closed" ELSE rtp[r].hndRtp
  <2>1. rtp' = [rtp EXCEPT ![r].hndRtp = h]
    BY DEF DeleteRtp, r
  <2>2. h \in {"null", "open", "closed"}
    BY <1>1 DEF RtpSessions
  <2> HIDE DEF h
  <2>3. [rtp[r] EXCEPT !.hndRtp = h] \in RtpSessions
    BY <1>1, <2>2 DEF RtpSessions
  <2>4. rtp \in [RtpIds -> RtpOrNil]
    BY DEF Typed
  <2> QED BY <1>1, <2>1, <2>3, <2>4 DEF RtpOrNil, Kept, Live, LiveAfter
<1>3. main' \in Handlers
  BY DEF DeleteRtp, Typed, Handlers
<1>4. UNCHANGED <<clients, session, sched, portPool, g_s32DoPlay, s32ConCnt,
                  sender, fault, orderly>>
  BY Zenon DEF DeleteRtp
<1> QED BY <1>2, <1>3, <1>4, Zenon DEF Typed

(* schedule_remove, within the table or not.                               *)
LEMMA TypeRemoveRtp == ASSUME Inv, Typed, RemoveRtp PROVE Typed'
<1> DEFINE id == rtp[Head(main.todo)].sched_id
<1>1. main.pc \in {"teardown remove", "close remove"} /\ main.todo # <<>>
  BY DEF RemoveRtp, Inv, Work, Accepted, AtWork, Sending
<1>2. sched' \in [Ids -> Slots]
  <2>1. sched \in [Ids -> Slots]
    BY DEF Typed
  <2>2. CASE id \in Ids
    <3>1. [sched[id] EXCEPT !.valid = FALSE] \in Slots
      BY <2>1, <2>2 DEF Slots
    <3>2. sched' = [sched EXCEPT ![id].valid = FALSE]
      BY <2>2 DEF RemoveRtp
    <3> QED BY <2>1, <2>2, <3>1, <3>2
  <2>3. CASE id \notin Ids
    BY <2>1, <2>3 DEF RemoveRtp
  <2> QED BY <2>2, <2>3
<1>3. fault' \in Faults
  BY Zenon DEF RemoveRtp, Typed, Faults
<1>4. g_s32DoPlay' \in Int
  <2>1. g_s32DoPlay \in Int
    BY DEF Typed
  <2>2. g_s32DoPlay' = g_s32DoPlay \/ g_s32DoPlay' = g_s32DoPlay - 1
    BY Zenon DEF RemoveRtp
  <2> QED BY <2>1, <2>2
<1>5. main' \in Handlers
  <2>1. main \in Handlers /\ Tail(main.todo) \in Seq(RtpIds)
    BY <1>1, HandlerParts, TailTyped DEF Typed
  <2> QED BY <2>1 DEF RemoveRtp, Handlers
<1>6. UNCHANGED <<clients, session, rtp, portPool, s32ConCnt, sender, orderly>>
  BY Zenon DEF RemoveRtp
<1> QED BY <1>2, <1>3, <1>4, <1>5, <1>6, Zenon DEF Typed

(* The end of TEARDOWN and of a connection.                                *)
LEMMA TypeFinishes ==
  ASSUME Inv, Typed, TeardownFinish \/ CloseFinish PROVE Typed'
<1>1. main.client \in Clients
  <2>1. main.pc \in {"teardown", "close"}
    BY DEF TeardownFinish, CloseFinish
  <2> QED BY <2>1 DEF Inv, Work, Accepted, AtWork, Sending
<1>2. session' \in [Clients -> SessionOrNot]
  <2>1. session' = [session EXCEPT ![main.client] = Nil]
    BY Zenon DEF TeardownFinish, CloseFinish
  <2>2. session \in [Clients -> SessionOrNot] /\ Nil \in SessionOrNot
    BY DEF Typed, SessionOrNot
  <2> QED BY <1>1, <2>1, <2>2
<1>3. main' \in Handlers
  BY IdleTyped, Zenon DEF TeardownFinish, CloseFinish
<1>4. portPool' \subseteq Ids
  BY Zenon DEF TeardownFinish, CloseFinish, RefillPool, Typed
<1>5. UNCHANGED <<rtp, sched, sender, orderly>>
  BY Zenon DEF TeardownFinish, CloseFinish
<1>6. CASE TeardownFinish
  <2>1. UNCHANGED <<clients, g_s32DoPlay, s32ConCnt, fault>>
    BY <1>6, Zenon DEF TeardownFinish
  <2> QED BY <1>2, <1>3, <1>4, <1>5, <2>1, Zenon DEF Typed
<1>7. CASE CloseFinish
  <2>1. Unlink(main.client) /\ TypeOK
    BY <1>7, TypedIsTypeOK, Zenon DEF CloseFinish
  <2>2. clients' \in Seq(Clients)
    BY <2>1, Unlinked
  <2>3. s32ConCnt' \in Int /\ g_s32DoPlay' \in Int
    <3>1. s32ConCnt' = s32ConCnt - 1
      BY <2>1, Unlinked
    <3>2. g_s32DoPlay' = g_s32DoPlay - 1
      BY <1>7 DEF CloseFinish
    <3>3. s32ConCnt \in Int /\ g_s32DoPlay \in Int
      BY DEF Typed
    <3> QED BY <3>1, <3>2, <3>3
  <2>4. fault' \in Faults
    <3>1. fault' = fault \/ fault' = "null client"
      BY <2>1, Unlinked
    <3> QED BY <3>1, Zenon DEF Typed, Faults
  <2> QED BY <1>2, <1>3, <1>4, <1>5, <2>2, <2>3, <2>4, Zenon DEF Typed
<1> QED BY <1>6, <1>7

(* The sender's steps keep every variable in its type.                     *)
LEMMA NextSlotTyped == Typed => NextSlot \in Senders
<1> SUFFICES ASSUME Typed PROVE NextSlot \in Senders
  OBVIOUS
<1>1. sender.slot \in Ids
  BY DEF Typed, Senders
<1>2. (sender.slot + 1) % MAX_CONNECTION \in Ids
  BY <1>1, ServerAssumption DEF Ids
<1> QED BY <1>2 DEF NextSlot, AtSlot, Senders

(* A frame's way through the table: the handle the sender reads is one of  *)
(* an allocated session.                                                   *)
LEMMA TypeSender == ASSUME Inv, Typed, SenderStep PROVE Typed'
<1>1. sender \in Senders /\ fault \in Faults /\ NextSlot \in Senders
  BY NextSlotTyped DEF Typed
<1>2. sender' \in Senders /\ fault' \in Faults
  <2>1. CASE SenderCheck \/ SenderPause \/ SenderHandle
    <3>1. \A pc \in {"pause", "handle", "send"} :
             [sender EXCEPT !.pc = pc] \in Senders
      BY <1>1 DEF Senders
    <3>2. "null session" \in Faults
      BY DEF Faults
    <3>3. CASE SenderCheck
      BY <1>1, <3>1, <3>3, Zenon DEF SenderCheck
    <3>4. CASE SenderPause
      BY <1>1, <3>1, <3>2, <3>4, Zenon DEF SenderPause
    <3>5. CASE SenderHandle
      BY <1>1, <3>1, <3>5, Zenon DEF SenderHandle
    <3> QED BY <2>1, <3>3, <3>4, <3>5
  <2>2. CASE SenderCall
    <3> DEFINE r == sched[sender.slot].rtp_session
    <3>1. r \in RtpIds /\ rtp[r] \in RtpSessions
      <4>1. sender.slot \in Ids /\ sender.pc = "send"
        BY <1>1, <2>2 DEF Senders, SenderCall
      <4> QED BY <4>1 DEF Inv, Work, Accepted, AtWork, Sending, Allocated, Live
    <3>2. rtp[r].hndRtp \in {"null", "open", "closed"}
      BY <3>1 DEF RtpSessions
    <3>3. [sender EXCEPT !.pc = "sending", !.rtp = r] \in Senders
      BY <1>1, <3>1 DEF Senders
    <3>4. fault' \in {fault, "freed handle", "null handle"}
      BY <2>2, <3>2 DEF SenderCall
    <3>5. fault' \in Faults
      BY <1>1, <3>4, Zenon DEF Faults
    <3> QED BY <2>2, <3>3, <3>5 DEF SenderCall
  <2>3. CASE SenderReturn
    <3>1. "freed handle" \in Faults
      BY DEF Faults
    <3> QED BY <1>1, <2>3, <3>1, Zenon DEF SenderReturn
  <2> QED BY <2>1, <2>2, <2>3, Zenon DEF SenderStep
<1>3. UNCHANGED <<clients, session, tables, s32ConCnt, main, orderly>>
  BY Zenon DEF SenderStep, SenderCheck, SenderPause,
     SenderHandle, SenderCall, SenderReturn
<1> QED BY <1>2, <1>3, Zenon DEF Typed, tables

(* Every step keeps every variable in its type.                            *)
LEMMA TypeStep == Inv /\ [Next]_vars => TypeOK'
<1> SUFFICES ASSUME Inv, [Next]_vars PROVE Typed'
  BY TypedIsTypeOK, PTL
<1>1. Typed
  BY TypedIsTypeOK DEF Inv
<1>2. ASSUME NEW c \in Clients, Accept(c) \/ Close(c) PROVE Typed'
  BY <1>1, <1>2, TypeConnections
<1>3. ASSUME NEW c \in Clients, Request(c) PROVE Typed'
  <2>1. CASE Options(c) \/ SetupRefused(c) \/ PlayRefused(c)
    BY <1>1, <2>1, TypeStates
  <2>2. CASE Play(c) \/ Teardown(c)
    BY <1>1, <2>2, TypeStarts
  <2>3. CASE SetupUnsupported(c) \/ SetupNoPort(c)
    BY <1>1, <2>3, TypeSetupFails
  <2>4. CASE Setup(c)
    BY <1>1, <2>4, TypeSetup
  <2> QED BY <1>3, <2>1, <2>2, <2>3, <2>4, Zenon DEF Request
<1>4. CASE MainStep
  BY <1>1, <1>4, TypeSetupFinish, TypePlayNext, TypePlayFinish,
     TypeDeleteRtp, TypeRemoveRtp, TypeFinishes, Zenon DEF MainStep
<1>5. CASE SenderStep
  BY <1>1, <1>5, TypeSender
<1>6. CASE UNCHANGED vars
  BY <1>1, <1>6, Zenon DEF vars, tables, Typed
<1> QED BY <1>2, <1>3, <1>4, <1>5, <1>6, Zenon DEF Next

-----------------------------------------------------------------------------

(* Only connecting and disconnecting change the list of clients.           *)
LEMMA ClientsChange ==
  ASSUME Next
  PROVE  \/ UNCHANGED <<clients, s32ConCnt>>
         \/ \E c \in Clients : Accept(c)
         \/ \E c : Unlink(c)
<1>1. ASSUME NEW c \in Clients, Request(c)
      PROVE  UNCHANGED <<clients, s32ConCnt>>
  BY <1>1, Zenon DEF Request, Options, SetupRefused, SetupUnsupported,
     SetupNoPort, Setup, PlayRefused, Play, Teardown
<1>2. ASSUME NEW c \in Clients, Close(c)
      PROVE  UNCHANGED <<clients, s32ConCnt>> \/ Unlink(c)
  BY <1>2, Zenon DEF Close
<1>3. CASE MainStep
  BY <1>3, Zenon DEF MainStep, SetupFinish, PlayNext, PlayFinish, DeleteRtp,
     RemoveRtp, TeardownFinish, CloseFinish
<1>4. CASE SenderStep
  BY <1>4, Zenon DEF SenderStep, SenderCheck, SenderPause,
     SenderHandle, SenderCall, SenderReturn
<1> QED BY <1>1, <1>2, <1>3, <1>4, Zenon DEF Next

(* The count stays the length of the list, whatever EventLoop does.        *)
LEMMA ConnStep == Inv /\ [Next]_vars => ConnCount'
<1> SUFFICES ASSUME Inv, [Next]_vars PROVE ConnCount'
  OBVIOUS
<1>1. ConnCount /\ TypeOK /\ clients \in Seq(Clients)
  BY DEF Inv, TypeOK
<1>2. CASE UNCHANGED <<clients, s32ConCnt>>
  BY <1>1, <1>2 DEF ConnCount
<1>3. ASSUME NEW c \in Clients, Accept(c) PROVE ConnCount'
  BY <1>1, <1>3, ServerAssumption DEF Accept, ConnCount
<1>4. ASSUME NEW c, Unlink(c) PROVE ConnCount'
  <2>1. /\ Len(clients) \in Nat \ {0}
        /\ Len(clients') = Len(clients) - 1
    BY <1>1, <1>4, Unlinked
  <2>2. s32ConCnt' = s32ConCnt - 1
    BY <1>1, <1>4, Unlinked
  <2> QED BY <1>1, <2>1, <2>2, ServerAssumption DEF ConnCount
<1>5. CASE UNCHANGED vars
  BY <1>2, <1>5, Zenon DEF vars
<1> QED BY <1>2, <1>3, <1>4, <1>5, ClientsChange

(* Only SETUP, its second half and schedule_remove touch the table, and    *)
(* the handler of SETUP stays where it is until it fills its slot.         *)
Quiet ==
  /\ UNCHANGED sched
  /\ UNCHANGED main \/ (main.pc # "add" /\ main'.pc # "add")

(* The steps that are not Quiet.                                           *)
LEMMA SchedChanges ==
  ASSUME Typed, Next
  PROVE  \/ Quiet
         \/ \E c \in Clients : Setup(c)
         \/ SetupFinish
         \/ RemoveRtp
<1>1. ASSUME NEW c \in Clients, Accept(c) \/ Close(c) PROVE Quiet
  BY <1>1 DEF Quiet, Accept, Close, Serving, MainFree, Idle, tables
<1>2. ASSUME NEW c \in Clients, Request(c) PROVE Quiet \/ Setup(c)
  <2>1. CASE Options(c) \/ SetupRefused(c) \/ SetupUnsupported(c)
               \/ SetupNoPort(c) \/ PlayRefused(c)
    BY <2>1, Zenon DEF Quiet, Options, SetupRefused, SetupUnsupported,
       SetupNoPort, PlayRefused, tables
  <2>2. CASE Play(c) \/ Teardown(c)
    BY <2>2 DEF Quiet, Play, Teardown, InState, Serving, MainFree, Idle, tables
  <2> QED BY <1>2, <2>1, <2>2, Zenon DEF Request
<1>3. CASE PlayNext \/ PlayFinish \/ DeleteRtp \/ TeardownFinish \/ CloseFinish
  <2>1. UNCHANGED sched /\ main.pc # "add"
    BY <1>3, Zenon DEF PlayNext, PlayFinish, DeleteRtp, TeardownFinish,
       CloseFinish, tables
  <2>2. main \in Handlers
    BY DEF Typed
  <2>3. CASE PlayNext
    BY <2>1, <2>2, <2>3 DEF PlayNext, Handlers, Quiet
  <2>4. CASE DeleteRtp
    BY <2>1, <2>2, <2>4 DEF DeleteRtp, Handlers, Quiet
  <2>5. CASE PlayFinish \/ TeardownFinish \/ CloseFinish
    BY <2>1, <2>5 DEF PlayFinish, TeardownFinish, CloseFinish, Idle, Quiet
  <2> QED BY <1>3, <2>3, <2>4, <2>5
<1>4. CASE SenderStep
  BY <1>4, Zenon DEF Quiet, SenderStep, SenderCheck, SenderPause,
     SenderHandle, SenderCall, SenderReturn, tables
<1>5. CASE MainStep
  BY <1>3, <1>5, Zenon DEF MainStep
<1> QED BY <1>1, <1>2, <1>4, <1>5, Zenon DEF Next

(* A valid slot always gets its RTP session before schedule_add returns,   *)
(* and keeps one.                                                          *)
LEMMA SlotStep == Inv /\ [Next]_vars => SlotBacked'
<1> SUFFICES ASSUME Inv, [Next]_vars PROVE SlotBacked'
  OBVIOUS
<1>1. SlotBacked /\ Typed /\ sched \in [Ids -> Slots]
  BY TypedIsTypeOK DEF Inv, Typed
<1>2. CASE Quiet
  BY <1>1, <1>2 DEF Quiet, SlotBacked, Adding
<1>3. ASSUME NEW c \in Clients, Setup(c) PROVE SlotBacked'
  <2>1. PICK r \in RtpIds : SetupOf(c, r, FirstFree)
    BY <1>1, <1>3, SetupParts
  <2> DEFINE id == FirstFree
  <2> HIDE DEF id
  <2>2. SetupOf(c, r, id)
    BY <2>1 DEF id
  <2>3. main.pc # "add"
    BY <2>2 DEF SetupOf, AppendRtp, InState, Serving, MainFree
  <2>4. \A i \in Ids : sched[i].valid => sched[i].rtp_session # Nil
    BY <1>1, <2>3 DEF SlotBacked, Adding
  <2>5. CASE UNCHANGED <<sched, main>>
    BY <2>4, <2>5 DEF SlotBacked
  <2>6. CASE /\ id \in FreeSlots
             /\ sched' = [sched EXCEPT ![id].valid = TRUE]
             /\ main' = [pc |-> "add", client |-> c, todo |-> <<r>>,
                         slot |-> id]
    <3>1. /\ main'.pc = "add" /\ main'.slot = id
          /\ \A i \in Ids \ {id} : sched'[i] = sched[i]
      BY <1>1, <2>6
    <3> QED BY <2>4, <3>1 DEF SlotBacked, Adding
  <2> QED BY <2>2, <2>5, <2>6, Zenon DEF SetupOf
<1>4. CASE SetupFinish
  <2>1. /\ Head(main.todo) \in RtpIds /\ main.slot \in Ids
        /\ main.pc = "add"
    BY <1>1, <1>4, HandlerParts, TailTyped DEF SetupFinish, Inv, Work, Accepted, AtWork, Sending
  <2>2. /\ sched'[main.slot].rtp_session = Head(main.todo)
        /\ \A i \in Ids \ {main.slot} : sched'[i] = sched[i]
    BY <1>1, <1>4, <2>1 DEF SetupFinish, Slots
  <2>3. Head(main.todo) # Nil
    BY <2>1, ServerAssumption
  <2> QED BY <1>1, <2>1, <2>2, <2>3 DEF SlotBacked, Adding
<1>5. CASE RemoveRtp
  <2>1. main.pc # "add"
    BY <1>5 DEF RemoveRtp
  <2>2. ASSUME NEW i \in Ids, sched'[i].valid
        PROVE  sched'[i] = sched[i]
    BY <1>1, <1>5, <2>2 DEF RemoveRtp, Slots
  <2> QED BY <1>1, <2>1, <2>2 DEF SlotBacked, Adding
<1>6. CASE UNCHANGED vars
  <2>1. Quiet
    BY <1>6, Zenon DEF vars, tables, Quiet
  <2> QED BY <1>2, <2>1
<1> QED BY <1>1, <1>2, <1>3, <1>4, <1>5, <1>6, SchedChanges

-----------------------------------------------------------------------------

(* What is named after a step is allocated when each name is an old one or *)
(* allocated by the step.                                                  *)
AllLiveAfter(list) == \A k \in 1 .. Len(list) : LiveAfter(list[k])

(* What was named before the step is still allocated after it.             *)
LEMMA OldNames ==
  ASSUME Allocated, Kept
  PROVE  /\ \A c \in Clients :
              HasSession(c) => AllLiveAfter(session[c].rtp_session)
         /\ AllLiveAfter(main.todo)
         /\ \A i \in Ids : sched[i].rtp_session # Nil =>
              LiveAfter(sched[i].rtp_session)
  BY Zenon DEF Allocated, AllLive, AllLiveAfter, Kept

(* So only what the step names anew is left to show.                       *)
LEMMA NewNames ==
  ASSUME \A c \in Clients :
           HasSession(c)' => AllLiveAfter(session'[c].rtp_session),
         AllLiveAfter(main'.todo),
         \A i \in Ids : sched'[i].rtp_session # Nil =>
           LiveAfter(sched'[i].rtp_session)
  PROVE  Allocated'
  BY Zenon DEF Allocated, AllLive, AllLiveAfter, Live, LiveAfter

(* Lists that a step shortens or leaves alone.                             *)
LEMMA EmptyLive == AllLiveAfter(Idle.todo)
<1>1. Idle.todo = <<>>
  BY DEF Idle
<1>2. \A k : k \notin 1 .. Len(<<>>)
  OBVIOUS
<1> QED BY <1>1, <1>2, Zenon DEF AllLiveAfter

(* A list that grew by one session of the step.                            *)
LEMMA GrownLive ==
  ASSUME NEW list \in Seq(RtpIds), NEW r \in RtpIds, LiveAfter(r),
         AllLiveAfter(list)
  PROVE  AllLiveAfter(Append(list, r))
<1> SUFFICES ASSUME NEW k \in 1 .. Len(Append(list, r))
             PROVE  LiveAfter(Append(list, r)[k])
  BY DEF AllLiveAfter
<1>1. k \in 1 .. Len(list) \/ k = Len(list) + 1
  BY Appended
<1>2. CASE k \in 1 .. Len(list)
  BY <1>2, Appended DEF AllLiveAfter
<1>3. CASE k = Len(list) + 1
  BY <1>3, Appended
<1> QED BY <1>1, <1>2, <1>3

(* After SETUP listed a session, all listed sessions are allocated.        *)
LEMMA ListsLive ==
  ASSUME Inv, Typed, Kept, NEW c \in Clients, NEW r \in RtpIds,
         NEW state \in States, AppendRtp(c, r, state), LiveAfter(r)
  PROVE  \A d \in Clients :
           HasSession(d)' => AllLiveAfter(session'[d].rtp_session)
<1> DEFINE list == session[c].rtp_session
<1>1. HasSession(c) /\ Allocated
  BY Zenon DEF AppendRtp, InState, Inv
<1>2. list \in Seq(RtpIds) /\ session'[c].rtp_session = Append(list, r)
  BY RtpAppended DEF Sessions
<1>3. AllLiveAfter(list)
  BY <1>1, OldNames
<1>4. AllLiveAfter(session'[c].rtp_session)
  BY <1>2, <1>3, GrownLive
<1>5. ASSUME NEW d \in Clients, d # c, HasSession(d)'
      PROVE  AllLiveAfter(session'[d].rtp_session)
  <2>1. session'[d] = session[d]
    BY <1>5, RtpAppended
  <2>2. HasSession(d)
    BY <1>5, <2>1 DEF HasSession
  <2> QED BY <1>1, <2>1, <2>2, OldNames
<1> QED BY <1>4, <1>5

(* No step frees an RTP session.                                           *)
LEMMA KeptStep == ASSUME Inv, Typed, [Next]_vars PROVE Kept
<1>1. CASE UNCHANGED rtp
  BY <1>1 DEF Kept, Live, LiveAfter
<1>2. ASSUME NEW c \in Clients, Accept(c) \/ Close(c) \/ Request(c)
      PROVE  Kept
  <2>1. CASE SetupUnsupported(c) \/ SetupNoPort(c)
    BY <2>1, TypeSetupFails
  <2>2. CASE Setup(c)
    BY <2>2, TypeSetup
  <2>3. CASE Accept(c) \/ Close(c) \/ Options(c) \/ SetupRefused(c)
               \/ PlayRefused(c) \/ Play(c) \/ Teardown(c)
    BY <1>1, <2>3, Zenon DEF Accept, Close, Options, SetupRefused,
       PlayRefused, Play, Teardown, tables
  <2> QED BY <1>2, <2>1, <2>2, <2>3, Zenon DEF Request
<1>3. CASE MainStep
  <2>1. CASE SetupFinish \/ PlayFinish \/ RemoveRtp \/ TeardownFinish
               \/ CloseFinish
    BY <1>1, <2>1, Zenon DEF SetupFinish, PlayFinish, RemoveRtp,
       TeardownFinish, CloseFinish, tables
  <2> QED BY <1>3, <2>1, TypePlayNext, TypeDeleteRtp, Zenon DEF MainStep
<1>4. CASE SenderStep
  BY <1>1, <1>4, Zenon DEF SenderStep, SenderCheck, SenderPause,
     SenderHandle, SenderCall, SenderReturn,
     tables
<1>5. CASE UNCHANGED vars
  BY <1>1, <1>5, Zenon DEF vars, tables
<1> QED BY <1>2, <1>3, <1>4, <1>5, Zenon DEF Next

(* What may happen to the sessions: nothing, one becomes a session with    *)
(* the same list, with an empty one or with one RTP session more, or one   *)
(* is freed.                                                               *)
SessionOnly(c) == \A d \in Clients \ {c} : session'[d] = session[d]
SessionChange(c) ==
  /\ SessionOnly(c)
  /\ \/ session'[c] = Nil /\ main' = Idle
     \/ session'[c] = NewSession /\ Accept(c)
     \/ /\ HasSession(c) /\ session'[c] \in Sessions
        /\ session'[c].rtp_session = session[c].rtp_session
        /\ MainFree \/ main' = Idle
     \/ /\ HasSession(c) /\ session'[c] \in Sessions /\ MainFree
        /\ \E r \in RtpIds, state \in States :
             AppendRtp(c, r, state) /\ LiveAfter(r)

(* Every step is one of these.                                             *)
LEMMA SessionsChange ==
  ASSUME Inv, Typed, [Next]_vars
  PROVE  UNCHANGED session \/ \E c \in Clients : SessionChange(c)
<1>1. session \in [Clients -> SessionOrNot]
  BY DEF Typed
<1>2. ASSUME NEW c \in Clients, Accept(c) PROVE SessionChange(c)
  BY <1>1, <1>2 DEF Accept, SessionChange, SessionOnly
<1>3. ASSUME NEW c \in Clients, NEW state \in States, EnterState(c, state),
             HasSession(c), MainFree \/ main' = Idle
      PROVE  SessionChange(c)
  BY <1>3, HasOne, Entered, Zenon DEF SessionChange, SessionOnly
<1>4. ASSUME NEW c \in Clients,
             Options(c) \/ SetupRefused(c) \/ PlayRefused(c)
      PROVE  SessionChange(c)
  <2>1. PICK state \in States : EnterState(c, state)
    BY <1>4, Zenon DEF Options, SetupRefused, PlayRefused, States
  <2>2. HasSession(c) /\ MainFree
    BY <1>4, Zenon DEF Options, SetupRefused, PlayRefused, InState, Serving
  <2> QED BY <1>3, <2>1, <2>2
<1>5. ASSUME NEW c \in Clients, NEW r \in RtpIds, NEW state \in States,
             AppendRtp(c, r, state), LiveAfter(r)
      PROVE  SessionChange(c)
  <2>1. HasSession(c) /\ MainFree
    BY <1>5, Zenon DEF AppendRtp, InState, Serving
  <2>2. session'[c] \in Sessions /\ SessionOnly(c)
    BY <1>5, RtpAppended, Zenon DEF SessionOnly
  <2> QED BY <1>5, <2>1, <2>2, Zenon DEF SessionChange
<1>6. ASSUME NEW c \in Clients, SetupUnsupported(c) \/ SetupNoPort(c)
      PROVE  SessionChange(c)
  BY <1>5, <1>6, TypeSetupFails
<1>7. ASSUME NEW c \in Clients, Setup(c) PROVE SessionChange(c)
  <2>1. PICK r \in RtpIds : SetupOf(c, r, FirstFree) /\ LiveAfter(r)
    BY <1>7, TypeSetup
  <2>2. AppendRtp(c, r, "READY") /\ "READY" \in States
    BY <2>1, Zenon DEF SetupOf, States
  <2> QED BY <1>5, <2>1, <2>2
<1>8. ASSUME NEW c \in Clients, Close(c) \/ Play(c) \/ Teardown(c)
      PROVE  UNCHANGED session
  BY <1>8, Zenon DEF Close, Play, Teardown
<1>9. CASE PlayFinish
  <2>1. main.client \in Clients /\ HasSession(main.client)
    BY <1>9 DEF PlayFinish, Inv, Work, Accepted, AtWork, Sending
  <2>2. /\ EnterState(main.client, "PLAY") /\ "PLAY" \in States
        /\ main' = Idle
    BY <1>9, Zenon DEF PlayFinish, States
  <2> QED BY <1>3, <2>1, <2>2
<1>10. CASE TeardownFinish \/ CloseFinish
  <2>1. main.client \in Clients
    BY <1>10 DEF TeardownFinish, CloseFinish, Inv, Work, Accepted, AtWork, Sending
  <2>2. /\ session' = [session EXCEPT ![main.client] = Nil]
        /\ main' = Idle
    BY <1>10, Zenon DEF TeardownFinish, CloseFinish
  <2>3. SessionChange(main.client)
    BY <1>1, <2>1, <2>2, Zenon DEF SessionChange, SessionOnly
  <2> QED BY <2>1, <2>3
<1>11. CASE SetupFinish \/ PlayNext \/ DeleteRtp \/ RemoveRtp \/ SenderStep
              \/ UNCHANGED vars
  BY <1>11, Zenon DEF SetupFinish, PlayNext, DeleteRtp, RemoveRtp, SenderStep,
     SenderCheck, SenderPause, SenderHandle, SenderCall, SenderReturn, vars
<1>12. ASSUME NEW c \in Clients, Request(c)
       PROVE  UNCHANGED session \/ SessionChange(c)
  BY <1>4, <1>6, <1>7, <1>8, <1>12, Zenon DEF Request
<1>13. CASE MainStep
  BY <1>9, <1>10, <1>11, <1>13, Zenon DEF MainStep
<1> QED BY <1>2, <1>8, <1>11, <1>12, <1>13, Zenon DEF Next

(* After every step the sessions listed are allocated, ...                 *)
LEMMA SessionsNamed ==
  ASSUME Inv, Typed, [Next]_vars
  PROVE  \A d \in Clients :
           HasSession(d)' => AllLiveAfter(session'[d].rtp_session)
<1>1. Allocated /\ Kept
  BY KeptStep DEF Inv
<1>2. CASE UNCHANGED session
  BY <1>1, <1>2, OldNames DEF HasSession
<1>3. ASSUME NEW c \in Clients, SessionChange(c), NEW d \in Clients,
             HasSession(d)'
      PROVE  AllLiveAfter(session'[d].rtp_session)
  <2>1. CASE d # c
    <3>1. session'[d] = session[d]
      BY <1>3, <2>1, Zenon DEF SessionChange, SessionOnly
    <3>2. HasSession(d)
      BY <1>3, <3>1, Zenon DEF HasSession
    <3> QED BY <1>1, <3>1, <3>2, OldNames
  <2>2. CASE d = c /\ session'[c] = NewSession
    <3>1. session'[c].rtp_session = Idle.todo
      BY <2>2 DEF NewSession, Idle
    <3> QED BY <2>2, <3>1, EmptyLive
  <2>3. CASE /\ d = c /\ HasSession(c)
             /\ session'[c].rtp_session = session[c].rtp_session
    BY <1>1, <2>3, OldNames
  <2>4. CASE d = c /\ \E r \in RtpIds, state \in States :
                        AppendRtp(c, r, state) /\ LiveAfter(r)
    BY <1>1, <1>3, <2>4, ListsLive
  <2>5. session'[d] # Nil
    BY <1>3, Zenon DEF HasSession
  <2> QED BY <1>3, <2>1, <2>2, <2>3, <2>4, <2>5, Zenon DEF SessionChange
<1> QED BY <1>2, <1>3, SessionsChange, Zenon

(* ... and so are those the handler still has to go through.  A handler    *)
(* that starts or goes on has a client with a session.                     *)
HandlerChange ==
  \/ UNCHANGED main
  \/ main' = Idle
  \/ /\ \E c \in Clients : /\ session[c] \in Sessions /\ UNCHANGED session
                           /\ main'.client = c
                           /\ main'.todo = session[c].rtp_session
                           /\ \/ main'.pc \in {"teardown", "close"}
                              \/ main'.pc = "play" /\ HasSession(c)
                           /\ AllLive(session[c].rtp_session)
  \/ /\ main'.pc = "add"
     /\ \E r \in RtpIds : main'.todo = <<r>> /\ LiveAfter(r)
  \/ /\ main.pc \notin {"idle", "add"} /\ main.todo # <<>>
     /\ UNCHANGED session
     /\ main'.client = main.client
     /\ \/ main'.pc = "play" /\ main.pc = "play"
        \/ main'.pc \in {"teardown", "close"}
     /\ main'.todo = Tail(main.todo)
  \/ /\ main.pc \notin {"idle", "add"} /\ main.todo # <<>>
     /\ UNCHANGED session
     /\ main'.client = main.client
     /\ main'.pc \in {"teardown remove", "close remove"}
     /\ main'.todo = main.todo

(* Every step changes the handler at work in one of these ways.            *)
LEMMA HandlerChanges ==
  ASSUME Inv, Typed, [Next]_vars
  PROVE  HandlerChange
<1>1. main \in Handlers /\ Allocated /\ Work
  BY DEF Typed, Inv
<1>2. ASSUME NEW c \in Clients, Play(c) \/ Teardown(c)
      PROVE  HandlerChange
  <2>1. HasSession(c) /\ UNCHANGED session
    BY <1>2, Zenon DEF Play, Teardown, InState
  <2>2. session[c] \in Sessions /\ AllLive(session[c].rtp_session)
    BY <1>1, <2>1, HasOne DEF Allocated
  <2>3. PICK p \in {"play", "teardown"} :
          main' = [Idle EXCEPT !.pc = p, !.client = c,
                               !.todo = session[c].rtp_session]
    BY <1>2, Zenon DEF Play, Teardown
  <2>4. /\ main'.pc = p /\ main'.client = c
        /\ main'.todo = session[c].rtp_session
    BY <2>2, <2>3, Started
  <2> QED BY <2>1, <2>2, <2>4, Zenon DEF HandlerChange
<1>3. ASSUME NEW c \in Clients, Close(c) PROVE HandlerChange
  <2>1. CASE UNCHANGED main
    BY <2>1 DEF HandlerChange
  <2>2. CASE /\ session[c] # Nil
             /\ main' = [Idle EXCEPT !.pc = "close", !.client = c,
                                     !.todo = session[c].rtp_session]
    <3>1. session[c] \in Sessions /\ UNCHANGED session
      BY <1>1, <1>3, <2>2, Zenon DEF Close, Serving, Work, Accepted
    <3>2. /\ main'.pc = "close" /\ main'.client = c
          /\ main'.todo = session[c].rtp_session
      BY <2>2, <3>1, Started
    <3>3. session[c] # Unseen
      BY <3>1, ServerAssumption, Zenon DEF Sessions, States
    <3>4. AllLive(session[c].rtp_session)
      BY <1>1, <2>2, <3>3, Zenon DEF Allocated, HasSession
    <3> QED BY <3>1, <3>2, <3>4, Zenon DEF HandlerChange
  <2> QED BY <1>3, <2>1, <2>2, Zenon DEF Close
<1>4. ASSUME NEW c \in Clients, Setup(c) PROVE HandlerChange
  <2>1. PICK r \in RtpIds : SetupOf(c, r, FirstFree) /\ LiveAfter(r)
    BY <1>4, TypeSetup
  <2>2. CASE UNCHANGED main
    BY <2>2 DEF HandlerChange
  <2>3. CASE main' = [pc |-> "add", client |-> c, todo |-> <<r>>,
                      slot |-> FirstFree]
    <3>1. main'.pc = "add" /\ main'.todo = <<r>>
      BY <2>3
    <3> QED BY <2>1, <3>1, Zenon DEF HandlerChange
  <2> QED BY <2>1, <2>2, <2>3, Zenon DEF SetupOf
<1>5. CASE PlayNext
  <2>1. /\ main' = [main EXCEPT !.todo = Tail(@)]
        /\ main.pc = "play" /\ main.todo # <<>> /\ UNCHANGED session
    BY <1>5, Zenon DEF PlayNext
  <2>2. /\ main'.todo = Tail(main.todo) /\ main'.client = main.client
        /\ main'.pc = main.pc
    BY <1>1, <2>1 DEF Handlers
  <2> QED BY <2>1, <2>2 DEF HandlerChange
<1>6. CASE DeleteRtp
  <2>1. /\ main.pc \in {"teardown", "close"} /\ main.todo # <<>>
        /\ UNCHANGED session
    BY <1>6, Zenon DEF DeleteRtp
  <2>2. /\ main'.todo = main.todo /\ main'.client = main.client
        /\ main'.pc \in {"teardown remove", "close remove"}
    BY <1>1, <1>6 DEF DeleteRtp, Handlers
  <2> QED BY <2>1, <2>2 DEF HandlerChange
<1>7. CASE RemoveRtp
  <2>1. main.pc \in {"teardown remove", "close remove"} /\ UNCHANGED session
    BY <1>7, Zenon DEF RemoveRtp
  <2>2. main.todo # <<>>
    BY <1>1, <2>1 DEF Work, AtWork
  <2>3. /\ main'.todo = Tail(main.todo) /\ main'.client = main.client
        /\ main'.pc \in {"teardown", "close"}
    BY <1>1, <1>7 DEF RemoveRtp, Handlers
  <2> QED BY <2>1, <2>2, <2>3 DEF HandlerChange
<1>8. CASE SetupFinish \/ PlayFinish \/ TeardownFinish \/ CloseFinish
  BY <1>8, Zenon DEF SetupFinish, PlayFinish, TeardownFinish, CloseFinish,
     HandlerChange
<1>9. CASE SenderStep \/ UNCHANGED vars
  BY <1>9, Zenon DEF SenderStep, SenderCheck, SenderPause,
     SenderHandle, SenderCall, SenderReturn, vars,
     HandlerChange
<1>10. ASSUME NEW c \in Clients,
              Accept(c) \/ Options(c) \/ SetupRefused(c)
                \/ SetupUnsupported(c) \/ SetupNoPort(c) \/ PlayRefused(c)
       PROVE  HandlerChange
  BY <1>10, Zenon DEF Accept, Options, SetupRefused, SetupUnsupported,
     SetupNoPort, PlayRefused, HandlerChange
<1>11. ASSUME NEW c \in Clients, Request(c) PROVE HandlerChange
  BY <1>2, <1>4, <1>10, <1>11, Zenon DEF Request
<1>12. CASE MainStep
  BY <1>5, <1>6, <1>7, <1>8, <1>12, Zenon DEF MainStep
<1> QED BY <1>3, <1>9, <1>10, <1>11, <1>12, Zenon DEF Next

(* So the sessions a handler still has to go through are allocated.        *)
LEMMA TodoNamed ==
  ASSUME Inv, Typed, [Next]_vars
  PROVE  AllLiveAfter(main'.todo)
<1>1. Allocated /\ Kept
  BY KeptStep DEF Inv
<1>2. AllLiveAfter(main.todo)
  BY <1>1, OldNames
<1>3. main.todo \in Seq(RtpIds)
  BY HandlerParts
<1>4. CASE main' = Idle
  BY <1>4, EmptyLive
<1>5. ASSUME NEW c \in Clients, main'.todo = session[c].rtp_session,
             AllLive(session[c].rtp_session)
      PROVE  AllLiveAfter(main'.todo)
  BY <1>1, <1>5, Zenon DEF AllLive, AllLiveAfter, Kept
<1>6. ASSUME NEW r \in RtpIds, main'.todo = <<r>>, LiveAfter(r)
      PROVE  AllLiveAfter(main'.todo)
  BY <1>6 DEF AllLiveAfter
<1>7. CASE main.todo # <<>> /\ main'.todo = Tail(main.todo)
  <2>1. ASSUME NEW k \in 1 .. Len(Tail(main.todo))
        PROVE  LiveAfter(Tail(main.todo)[k])
    <3>1. k + 1 \in 1 .. Len(main.todo)
      BY <1>3, <1>7, TailTyped
    <3>2. Tail(main.todo)[k] = main.todo[k + 1]
      BY <1>3, <1>7, TailTyped
    <3> QED BY <1>2, <3>1, <3>2 DEF AllLiveAfter
  <2> QED BY <1>7, <2>1 DEF AllLiveAfter
<1>8. CASE main'.todo = main.todo
  BY <1>2, <1>8
<1> QED BY <1>4, <1>5, <1>6, <1>7, <1>8, HandlerChanges, Zenon
        DEF HandlerChange

(* So are those the scheduler table names, and a slot that has an RTP      *)
(* session never loses it.                                                 *)
LEMMA SlotsNamed ==
  ASSUME Inv, Typed, [Next]_vars
  PROVE  \A i \in Ids :
           /\ sched'[i].rtp_session # Nil => LiveAfter(sched'[i].rtp_session)
           /\ sched[i].rtp_session # Nil => sched'[i].rtp_session # Nil
<1>1. Allocated /\ Kept /\ sched \in [Ids -> Slots]
  BY KeptStep DEF Inv, Typed
<1>2. \A i \in Ids : sched[i].rtp_session # Nil =>
        LiveAfter(sched[i].rtp_session)
  BY <1>1, OldNames
<1>3. CASE UNCHANGED sched
  BY <1>2, <1>3
<1>4. ASSUME NEW id \in Ids, NEW v \in BOOLEAN,
             sched' = [sched EXCEPT ![id].valid = v]
      PROVE  \A i \in Ids : sched'[i].rtp_session = sched[i].rtp_session
  BY <1>1, <1>4 DEF Slots
<1>5. ASSUME NEW c \in Clients, Setup(c)
      PROVE  UNCHANGED sched \/ \E id \in Ids, v \in BOOLEAN :
                                  sched' = [sched EXCEPT ![id].valid = v]
  <2>1. PICK r \in RtpIds : SetupOf(c, r, FirstFree)
    BY <1>5, SetupParts
  <2> QED BY <2>1, Zenon DEF SetupOf, FreeSlots
<1>6. CASE RemoveRtp
  <2>1. UNCHANGED sched \/ \E id \in Ids, v \in BOOLEAN :
                             sched' = [sched EXCEPT ![id].valid = v]
    BY <1>6, Zenon DEF RemoveRtp
  <2> QED BY <1>2, <1>3, <1>4, <2>1
<1>7. CASE SetupFinish
  <2>1. Head(main.todo) \in RtpIds /\ LiveAfter(Head(main.todo))
    <3>1. main.todo # <<>>
      BY <1>7 DEF SetupFinish, Inv, Work, Accepted, AtWork, Sending
    <3>2. AllLiveAfter(main.todo)
      BY <1>1, OldNames
    <3> QED BY <3>1, <3>2, HandlerParts, TailTyped DEF AllLiveAfter
  <2>2. main.slot \in Ids
    BY HandlerParts
  <2>3. /\ sched'[main.slot].rtp_session = Head(main.todo)
        /\ \A i \in Ids \ {main.slot} : sched'[i] = sched[i]
    BY <1>1, <1>7, <2>2 DEF SetupFinish, Slots
  <2>4. Head(main.todo) # Nil
    BY <2>1, ServerAssumption
  <2> QED BY <1>2, <2>1, <2>2, <2>3, <2>4
<1>8. CASE UNCHANGED vars
  BY <1>3, <1>8, Zenon DEF vars, tables
<1>9. CASE Next
  <2>1. CASE Quiet
    BY <1>3, <2>1, Zenon DEF Quiet
  <2>2. ASSUME NEW c \in Clients, Setup(c)
        PROVE  \A i \in Ids :
                 sched'[i].rtp_session = sched[i].rtp_session
    BY <1>4, <1>5, <2>2, Zenon
  <2> QED BY <1>2, <1>6, <1>7, <1>9, <2>1, <2>2, SchedChanges
<1> QED BY <1>8, <1>9

(* What is named is allocated, step by step.                               *)
LEMMA AllocatedStep == Inv /\ [Next]_vars => Allocated'
<1> SUFFICES ASSUME Inv, [Next]_vars PROVE Allocated'
  OBVIOUS
<1>1. Typed
  BY TypedIsTypeOK DEF Inv
<1> QED BY <1>1, SessionsNamed, TodoNamed, SlotsNamed, NewNames, Zenon

(* A client that was just accepted has a session.                          *)
LEMMA NewTyped == NewSession \in Sessions
  BY DEF NewSession, Sessions, States

(* A slot schedule_add has marked valid has its session before             *)
(* schedule_add is done.                                                   *)
LEMMA AddingOrNamed ==
  ASSUME Inv, Typed, [Next]_vars, NEW i \in Ids,
         Adding(i) \/ sched[i].rtp_session # Nil
  PROVE  Adding(i)' \/ sched'[i].rtp_session # Nil
<1>1. CASE sched[i].rtp_session # Nil
  BY <1>1, SlotsNamed
<1>2. CASE Adding(i)
  <2>1. main.pc = "add" /\ main.slot = i
    BY <1>2 DEF Adding
  <2>2. CASE Quiet \/ UNCHANGED vars
    <3>1. UNCHANGED main
      BY <2>1, <2>2, Zenon DEF Quiet, vars
    <3> QED BY <2>1, <3>1 DEF Adding
  <2>3. CASE SetupFinish
    <3>1. Head(main.todo) \in RtpIds
      BY <2>3, HandlerParts, TailTyped DEF SetupFinish, Inv, Work, AtWork
    <3>2. sched'[i].rtp_session = Head(main.todo)
      BY <2>1, <2>3 DEF SetupFinish, Typed, Slots
    <3> QED BY <3>1, <3>2, ServerAssumption
  <2>4. ~RemoveRtp /\ \A c \in Clients : ~Setup(c)
    BY <2>1 DEF RemoveRtp, Setup, SetupOf, AppendRtp, InState, Serving, MainFree
  <2> QED BY <2>2, <2>3, <2>4, SchedChanges
<1> QED BY <1>1, <1>2

(* Handlers and the sender keep what they work on.                         *)
LEMMA WorkStep == Inv /\ [Next]_vars => Work'
<1> SUFFICES ASSUME Inv, [Next]_vars PROVE Work'
  OBVIOUS
<1>1. Typed /\ TypeOK /\ Work
  BY TypedIsTypeOK DEF Inv
<1>2. Accepted'
  <2>1. ASSUME NEW c \in Connected PROVE session'[c] \in Sessions \cup {Nil}
    <3>1. session[c] \in Sessions \cup {Nil}
      BY <1>1 DEF Work, Accepted
    <3>2. CASE UNCHANGED session
      BY <3>1, <3>2
    <3>3. ASSUME NEW d \in Clients, SessionChange(d), c # d
          PROVE  session'[c] = session[c]
      <4>1. c \in Clients
        <5>1. clients \in Seq(Clients)
          BY <1>1 DEF TypeOK
        <5> QED BY <5>1, ElementOfSeq DEF Connected
      <4> QED BY <3>3, <4>1, Zenon DEF SessionChange, SessionOnly
    <3>4. ASSUME SessionChange(c)
          PROVE  session'[c] \in Sessions \cup {Nil}
      BY <3>4, NewTyped, Zenon DEF SessionChange
    <3> QED BY <1>1, <3>1, <3>2, <3>3, <3>4, SessionsChange
  <2>2. CASE UNCHANGED clients
    <3>1. Connected' = Connected
      BY <2>2, Zenon DEF Connected
    <3> QED BY <2>1, <3>1 DEF Accepted
  <2>3. ASSUME NEW c \in Clients, Accept(c)
        PROVE  Accepted'
    <3>1. Connected' \subseteq Connected \cup {c}
      <4>1. clients \in Seq(Clients) /\ clients' = Append(clients, c)
        BY <1>1, <2>3 DEF Accept, TypeOK
      <4>2. ASSUME NEW k \in 1 .. Len(clients')
            PROVE  clients'[k] = c \/ \E i \in 1 .. Len(clients) :
                                        clients'[k] = clients[i]
        BY <4>1
      <4> QED BY <4>2 DEF Connected
    <3>2. session'[c] = NewSession
      BY <1>1, <2>3 DEF Accept, Typed
    <3> QED BY <2>1, <3>1, <3>2, NewTyped DEF Accepted
  <2>4. ASSUME NEW c, Unlink(c) PROVE Accepted'
    <3>1. Connected' \subseteq Connected
      BY <1>1, <2>4, Unlinked
    <3> QED BY <2>1, <3>1 DEF Accepted
  <2>5. CASE UNCHANGED vars
    BY <2>2, <2>5, Zenon DEF vars
  <2> QED BY <2>2, <2>3, <2>4, <2>5, ClientsChange, Zenon
<1>3. AtWork'
  <2>1. CASE UNCHANGED session /\ UNCHANGED main
    BY <1>1, <2>1 DEF Work, AtWork, HasSession
  <2>2. CASE main' = Idle
    BY <2>2 DEF Idle, AtWork
  <2>3. ASSUME NEW c \in Clients, session[c] \in Sessions, UNCHANGED session,
               main'.client = c,
               \/ main'.pc \in {"teardown", "close"}
               \/ main'.pc = "play" /\ HasSession(c)
        PROVE  AtWork'
    BY <2>3 DEF AtWork, HasSession
  <2>4. CASE main'.pc = "add" /\ \E r \in RtpIds : main'.todo = <<r>>
    BY <2>4 DEF AtWork
  <2>5. CASE /\ main.pc \notin {"idle", "add"} /\ main.todo # <<>>
             /\ UNCHANGED session /\ main'.client = main.client
             /\ \/ main'.pc = "play" /\ main.pc = "play"
                \/ main'.pc \in {"teardown", "close"}
    BY <1>1, <2>5 DEF Work, AtWork, HasSession
  <2>6. CASE /\ main.pc \notin {"idle", "add"} /\ main.todo # <<>>
             /\ UNCHANGED session /\ main'.client = main.client
             /\ main'.pc \in {"teardown remove", "close remove"}
             /\ main'.todo = main.todo
    BY <1>1, <2>6 DEF Work, AtWork
  <2>7. CASE UNCHANGED main /\ MainFree
    BY <2>7 DEF MainFree, AtWork
  <2>8. ASSUME NEW c \in Clients, SessionChange(c), UNCHANGED main
        PROVE  AtWork'
    <3>1. Accept(c) => MainFree
      BY Zenon DEF Accept
    <3> QED BY <2>2, <2>7, <2>8, <3>1, Zenon DEF SessionChange
  <2>9. CASE UNCHANGED main
    BY <1>1, <2>1, <2>8, <2>9, SessionsChange, Zenon
  <2> QED BY <1>1, <2>2, <2>3, <2>4, <2>5, <2>6, <2>9, HandlerChanges, Zenon
          DEF HandlerChange
<1>4. Sending'
  <2>1. sender \in Senders /\ \A i \in Ids :
          sched[i].rtp_session # Nil => sched'[i].rtp_session # Nil
    BY <1>1, SlotsNamed DEF Typed
  <2>2. CASE UNCHANGED sender
    <3>1. sender.slot \in Ids
      BY <2>1 DEF Senders
    <3>2. ASSUME NEW i \in Ids, i = sender.slot, sender.pc = "pause"
          PROVE  Adding(i)' \/ sched'[i].rtp_session # Nil
      <4>1. Adding(i) \/ sched[i].rtp_session # Nil
        BY <1>1, <3>2, Zenon DEF Work, Sending
      <4> QED BY <1>1, <4>1, AddingOrNamed, Zenon
    <3>4. sender.pc = "pause" =>
            \/ main'.pc = "add" /\ main'.slot = sender.slot
            \/ sched'[sender.slot].rtp_session # Nil
      BY <3>1, <3>2, Zenon DEF Adding
    <3>3. sender.pc \in {"handle", "send"} =>
            sched'[sender.slot].rtp_session # Nil
      BY <1>1, <2>1, <3>1 DEF Work, Sending
    <3> QED BY <2>2, <3>3, <3>4, Zenon DEF Sending, Adding
  <2>3. CASE sender' = NextSlot
    BY <2>3 DEF Sending, NextSlot, AtSlot
  <2>4. CASE SenderCheck \/ SenderPause \/ SenderHandle
    <3>1. sender.slot \in Ids /\ UNCHANGED <<main, sched>>
      BY <2>1, <2>4, Zenon DEF Senders, SenderCheck, SenderPause,
         SenderHandle, tables
    <3>2. CASE /\ sender' = [sender EXCEPT !.pc = "pause"]
               /\ sched[sender.slot].valid
      <4>1. Adding(sender.slot) \/ sched[sender.slot].rtp_session # Nil
        BY <3>1, <3>2 DEF Inv, SlotBacked
      <4>2. sender'.pc = "pause" /\ sender'.slot = sender.slot
        BY <2>1, <3>2 DEF Senders
      <4> QED BY <3>1, <4>1, <4>2 DEF Sending, Adding
    <3>3. CASE /\ sender' \in {[sender EXCEPT !.pc = "handle"],
                               [sender EXCEPT !.pc = "send"]}
               /\ sched[sender.slot].rtp_session # Nil
      <4>1. sender'.pc \in {"handle", "send"} /\ sender'.slot = sender.slot
        BY <2>1, <3>3 DEF Senders
      <4> QED BY <3>1, <3>3, <4>1 DEF Sending
    <3>4. CASE SenderCheck
      BY <2>3, <3>2, <3>4, Zenon DEF SenderCheck
    <3>5. CASE SenderPause
      BY <2>2, <2>3, <3>3, <3>5, Zenon DEF SenderPause
    <3>6. CASE SenderHandle
      <4>1. sched[sender.slot].rtp_session # Nil
        <5>1. sender.pc \in {"handle", "send"}
          BY <3>6, Zenon DEF SenderHandle
        <5> QED BY <1>1, <5>1, Zenon DEF Work, Sending
      <4> QED BY <2>3, <3>3, <3>6, <4>1, Zenon DEF SenderHandle
    <3> QED BY <2>4, <3>4, <3>5, <3>6
  <2>5. CASE SenderCall
    <3>1. sender'.pc = "sending"
      BY <2>1, <2>5 DEF SenderCall, Senders
    <3> QED BY <3>1 DEF Sending
  <2>6. CASE SenderReturn
    BY <2>2, <2>3, <2>6, Zenon DEF SenderReturn
  <2>7. SenderStep \/ UNCHANGED sender
    <3>1. ASSUME NEW c \in Clients, Accept(c) \/ Close(c) \/ Request(c)
          PROVE  UNCHANGED sender
      BY <3>1, Zenon DEF Accept, Close, Request, Options, SetupRefused,
         SetupUnsupported, SetupNoPort, Setup, PlayRefused, Play, Teardown
    <3>2. CASE MainStep
      BY <3>2, Zenon DEF MainStep, SetupFinish, PlayNext, PlayFinish,
         DeleteRtp, RemoveRtp, TeardownFinish, CloseFinish
    <3> QED BY <3>1, <3>2, Zenon DEF Next, vars
  <2> QED BY <2>2, <2>4, <2>5, <2>6, <2>7, Zenon DEF SenderStep
<1> QED BY <1>2, <1>3, <1>4, Zenon DEF Work

-----------------------------------------------------------------------------

(* The inductive invariant holds in every state.                           *)
LEMMA InvAlways == Spec => []Inv
<1>1. Inv /\ [Next]_vars => Inv'
  BY TypeStep, ConnStep, SlotStep, AllocatedStep, WorkStep, Zenon DEF Inv
<1> QED BY <1>1, InitInv, PTL DEF Spec

(* Every variable keeps its type, whatever the clients send and however    *)
(* the sender is scheduled: the number schedule_add returns is that of a   *)
(* slot or ERR_GENERIC, and no request works on an RTP session that calloc *)
(* did not return.                                                         *)
THEOREM TypeCorrect == Spec => []TypeOK
  BY InvAlways, PTL DEF Inv

(* s32ConCnt counts the clients and never exceeds MAX_CONNECTION.          *)
THEOREM CountCorrect == Spec => []ConnCount
  BY InvAlways, PTL DEF Inv

(* Every valid slot of the scheduler table has an RTP session, except the  *)
(* one schedule_add is at work on.                                         *)
THEOREM SlotsBacked == Spec => []SlotBacked
  BY InvAlways, PTL DEF Inv

(* schedule_do has found its slot valid and is about to read the NULL      *)
(* session of it.                                                          *)
NullRead == sender.pc = "pause" /\ sched[sender.slot].rtp_session = Nil
(* When schedule_do reads the session of a slot it has found valid, a NULL *)
(* session means that schedule_add is at work on that slot.                *)
THEOREM NullReadOnlyWhileAdding == Spec => [](NullRead => Adding(sender.slot))
<1>1. Inv => (NullRead => Adding(sender.slot))
  BY Zenon DEF Inv, Work, Sending, NullRead
<1> QED BY <1>1, InvAlways, PTL

=============================================================================
