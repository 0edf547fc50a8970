------------------------- MODULE RtspOrderlyProofs -------------------------
(***************************************************************************)
(* What is proved of RtspServer while every client sets up one stream at   *)
(* most: the scheduler table and the clients' lists agree, only clients    *)
(* that play are streamed to, and no handler leaves the table.             *)
(***************************************************************************)
EXTENDS RtspServerProofs, FiniteSetTheorems

(* A client lists one RTP session at most, which no other client lists,    *)
(* and a client with a session is connected.                               *)
Single == \A c \in Clients : HasSession(c) => Len(session[c].rtp_session) <= 1
Apart == \A c, d \in Clients : c # d => Listed(c) \cap Listed(d) = {}
Member == \A c \in Clients : HasSession(c) => c \in Connected

(* schedule_add, between its two writes, has a slot that no listed session *)
(* but the new one names.                                                  *)
Added ==
  main.pc = "add" =>
    /\ main.client \in Clients /\ Listed(main.client) = {Head(main.todo)}
    /\ sched[main.slot].valid
    /\ rtp[Head(main.todo)].sched_id = main.slot
    /\ rtp[Head(main.todo)].hndRtp # "closed"
    /\ \A d \in Clients \ {main.client} : \A q \in Listed(d) :
         rtp[q].sched_id # main.slot

(* Any other handler has its client's whole list to go through, or none    *)
(* of it.                                                                  *)
Handled ==
  main.pc \notin {"idle", "add"} =>
    main.todo = <<>> \/ main.todo = session[main.client].rtp_session

(* The client whose slot TEARDOWN or the end of its connection has freed,  *)
(* while its session is still there.                                       *)
Released(c) == main.client = c /\ main.pc \in {"teardown", "close"}
               /\ main.todo = <<>>
Removing(c) == main.client = c /\ main.pc \in {"teardown remove", "close remove"}

(* A listed session is the one of its slot, but for the new session of a   *)
(* SETUP and that of a freed slot; its handle is usable until RtpDelete.   *)
Booked ==
  \A c \in Clients : \A r \in Listed(c) :
    \/ Released(c)
    \/ main.pc = "add" /\ main.client = c
    \/ Scheduled(r) /\ (rtp[r].hndRtp = "closed" => Removing(c))

(* A valid slot is that of a listed session, which names it.               *)
Held(i) == \E c \in Clients : sched[i].rtp_session \in Listed(c) /\ ~Released(c)
Backed ==
  \A i \in Ids : sched[i].valid => \/ Adding(i)
                                   \/ /\ rtp[sched[i].rtp_session].sched_id = i
                                      /\ Held(i)

(* A listed session that is not paused is that of a client that plays.     *)
Paused == \A c \in Clients : \A r \in Listed(c) : ~rtp[r].pause => Plays(c)

(* No handler left the table, and a NULL session was read while            *)
(* schedule_add was at work.                                               *)
Faultless == fault # "bounds" /\ (fault = "null session" => main.pc = "add")

Order == /\ Single /\ Apart /\ Member
         /\ Added /\ Handled /\ Booked /\ Backed /\ Paused /\ Faultless

-----------------------------------------------------------------------------

(* A client has a session or NULL, or was not accepted yet.                *)
LEMMA SessionIs ==
  ASSUME Typed, NEW c \in Clients
  PROVE  /\ HasSession(c) <=> session[c] \in Sessions
         /\ HasSession(c) => session[c].rtp_session \in Seq(RtpIds)
         /\ Listed(c) \subseteq RtpIds
<1>1. HasSession(c) <=> session[c] \in Sessions
  BY ServerAssumption, Zenon DEF Typed, SessionOrNot, HasSession, Sessions,
     States
<1>2. HasSession(c) => session[c].rtp_session \in Seq(RtpIds)
  BY <1>1 DEF Sessions
<1>3. Listed(c) \subseteq RtpIds
  <2>1. CASE ~HasSession(c)
    BY <2>1 DEF Listed
  <2>2. CASE HasSession(c)
    <3>1. \A k \in 1 .. Len(session[c].rtp_session) :
            session[c].rtp_session[k] \in RtpIds
      BY <1>2, <2>2, ElementOfSeq
    <3> QED BY <2>2, <3>1, Zenon DEF Listed
  <2> QED BY <2>1, <2>2
<1> QED BY <1>1, <1>2, <1>3

(* What is listed is the one session of the list, if there is one.         *)
LEMMA ListedIs ==
  ASSUME Typed, Single, NEW c \in Clients, HasSession(c),
         NEW list, list = session[c].rtp_session
  PROVE  /\ list = <<>> => Listed(c) = {}
         /\ list # <<>> => /\ Listed(c) = {Head(list)} /\ Tail(list) = <<>>
                           /\ Head(list) \in RtpIds
<1>1. list \in Seq(RtpIds) /\ Len(list) <= 1
  BY SessionIs DEF Single
<1>2. Listed(c) = {list[k] : k \in 1 .. Len(list)}
  BY Zenon DEF Listed
<1>3. CASE list = <<>>
  BY <1>2, <1>3
<1>4. CASE list # <<>>
  <2>1. Len(list) \in Nat \ {0}
    BY <1>1, <1>4, EmptySeq, Zenon
  <2>2. Len(list) = 1
    <3>1. \A n \in Nat \ {0} : n <= 1 => n = 1
      OBVIOUS
    <3> QED BY <1>1, <2>1, <3>1, Zenon
  <2>3. Head(list) = list[1] /\ Head(list) \in RtpIds
    BY <1>1, <1>4, TailTyped
  <2>4. Tail(list) \in Seq(RtpIds) /\ Len(Tail(list)) = 0
    BY <1>1, <1>4, <2>2, TailTyped
  <2>5. Tail(list) = <<>>
    BY <2>4, EmptySeq
  <2>6. Listed(c) = {list[1]}
    BY <1>2, <2>2
  <2> QED BY <1>4, <2>3, <2>5, <2>6
<1> QED BY <1>3, <1>4

(* A client that lists a session has one, and is connected.                *)
LEMMA Lister ==
  ASSUME NEW c \in Clients, Listed(c) # {}
  PROVE  HasSession(c)
  BY Zenon DEF Listed

(* The session a handler is about to work on is that of its client, in its *)
(* slot of the table, and the last of the list.                            *)
LEMMA AtHead ==
  ASSUME Inv, Typed, Order, main.pc \notin {"idle", "add"}, main.todo # <<>>
  PROVE  /\ main.client \in Clients /\ HasSession(main.client)
         /\ Head(main.todo) \in RtpIds
         /\ rtp[Head(main.todo)] \in RtpSessions
         /\ Listed(main.client) = {Head(main.todo)}
         /\ Tail(main.todo) = <<>>
         /\ Scheduled(Head(main.todo))
<1> DEFINE c == main.client
           r == Head(main.todo)
<1>1. c \in Clients /\ session[c] \in Sessions
  BY Zenon DEF Inv, Work, AtWork
<1>2. HasSession(c)
  BY <1>1, SessionIs
<1>3. main.todo = session[c].rtp_session
  BY DEF Order, Handled
<1>4. Listed(c) = {r} /\ Tail(main.todo) = <<>> /\ r \in RtpIds
  BY <1>1, <1>2, <1>3, ListedIs, Zenon DEF Order
<1>5. rtp[r] \in RtpSessions
  <2>1. main.todo \in Seq(RtpIds)
    BY HandlerParts
  <2> QED BY <2>1, TailTyped DEF Inv, Allocated, AllLive, Live
<1>6. Scheduled(r)
  BY <1>1, <1>4, Zenon DEF Order, Booked, Released
<1> QED BY <1>1, <1>2, <1>4, <1>5, <1>6

-----------------------------------------------------------------------------

(* Between two handlers every listed session is in its slot, its handle    *)
(* usable, and every valid slot is that of a listed session.               *)
LEMMA AtRest ==
  ASSUME Order, main.pc = "idle"
  PROVE  /\ \A c \in Clients : \A r \in Listed(c) :
              Scheduled(r) /\ rtp[r].hndRtp # "closed"
         /\ \A i \in Ids : sched[i].valid =>
              /\ rtp[sched[i].rtp_session].sched_id = i
              /\ \E c \in Clients : sched[i].rtp_session \in Listed(c)
  BY Zenon DEF Order, Booked, Backed, Held, Released, Removing, Adding

(* Steps that leave the clients' lists as they are.                        *)
SameLists ==
  \A c \in Clients :
    /\ HasSession(c)' <=> HasSession(c)
    /\ HasSession(c) => session'[c].rtp_session = session[c].rtp_session

(* They list what was listed.                                              *)
LEMMA ListsSame ==
  ASSUME SameLists
  PROVE  /\ \A c \in Clients : Listed(c)' = Listed(c)
         /\ Single => Single'
         /\ Apart => Apart'
         /\ Member /\ Connected \subseteq Connected' => Member'
<1>1. ASSUME NEW c \in Clients PROVE Listed(c)' = Listed(c)
  <2>1. CASE HasSession(c)
    BY <2>1, Zenon DEF SameLists, Listed
  <2>2. CASE ~HasSession(c)
    BY <2>2, Zenon DEF SameLists, Listed
  <2> QED BY <2>1, <2>2
<1>2. Single => Single'
  BY Zenon DEF SameLists, Single
<1>3. Apart => Apart'
  BY <1>1, Zenon DEF Apart
<1>4. Member /\ Connected \subseteq Connected' => Member'
  BY Zenon DEF SameLists, Member
<1> QED BY <1>1, <1>2, <1>3, <1>4

(* So do the steps that leave the sessions alone.                          *)
LEMMA SessionsSame == ASSUME UNCHANGED session PROVE SameLists
  BY Zenon DEF SameLists, HasSession

(* Steps that leave the table and the RTP sessions alone.                  *)
LEMMA SlotsSame ==
  ASSUME UNCHANGED <<rtp, sched>>
  PROVE  \A r : Scheduled(r)' <=> Scheduled(r)
  BY Zenon DEF Scheduled

(* Steps that leave alone what Order is about.                             *)
LEMMA OrderSame ==
  ASSUME Order, UNCHANGED <<clients, session, rtp, sched, main>>, Faultless'
  PROVE  Order'
<1>1. SameLists /\ Connected' = Connected
  BY SessionsSame, Zenon DEF Connected
<1>2. Single' /\ Apart' /\ Member' /\ \A c \in Clients : Listed(c)' = Listed(c)
  BY <1>1, ListsSame, Zenon DEF Order
<1>3. Added' /\ Handled'
  BY <1>2, Zenon DEF Order, Added, Handled
<1>4. Booked' /\ Backed'
  <2>1. \A c : (Released(c)' <=> Released(c)) /\ (Removing(c)' <=> Removing(c))
    BY Zenon DEF Released, Removing
  <2>2. Booked'
    BY <1>2, <2>1, SlotsSame, Zenon DEF Order, Booked
  <2>3. \A i : (Adding(i)' <=> Adding(i)) /\ (Held(i)' <=> Held(i))
    BY <1>2, <2>1, Zenon DEF Adding, Held
  <2>4. Backed'
    BY <2>3, Zenon DEF Order, Backed
  <2> QED BY <2>2, <2>4
<1>5. Paused'
  BY <1>2, Zenon DEF Order, Paused, Plays
<1> QED BY <1>2, <1>3, <1>4, <1>5 DEF Order

(* The sender changes nothing but where it is, and only schedule_add's     *)
(* slot has a NULL session to read.                                        *)
LEMMA OrderSender == ASSUME Inv, Typed, Order, SenderStep PROVE Order'
<1>1. /\ fault = "none"
      /\ UNCHANGED <<clients, session, tables, main>>
  BY Zenon DEF SenderStep, SenderCheck, SenderPause,
     SenderHandle, SenderCall, SenderReturn
<1>2. fault' # "bounds" /\ (fault' = "null session" => main.pc = "add")
  <2>1. CASE SenderCheck \/ SenderHandle
    BY <1>1, <2>1, Zenon DEF SenderCheck, SenderHandle
  <2>4. CASE SenderPause
    <3>1. CASE sched[sender.slot].rtp_session = Nil
      <4>1. Adding(sender.slot) /\ fault' = "null session"
        BY <2>4, <3>1, Zenon DEF Inv, Work, Sending, SenderPause
      <4> QED BY <4>1 DEF Adding
    <3>2. CASE UNCHANGED fault
      BY <1>1, <3>2
    <3> QED BY <2>4, <3>1, <3>2, Zenon DEF SenderPause
  <2>2. CASE SenderCall
    <3>1. fault' \in {fault, "freed handle", "null handle"}
      <4> DEFINE r == sched[sender.slot].rtp_session
      <4>1. r \in RtpIds /\ rtp[r] \in RtpSessions
        <5>1. sender.slot \in Ids /\ sender.pc = "send"
          BY <2>2 DEF Typed, Senders, SenderCall
        <5> QED BY <5>1 DEF Inv, Work, Sending, Allocated, Live
      <4>2. rtp[r].hndRtp \in {"null", "open", "closed"}
        BY <4>1 DEF RtpSessions
      <4> QED BY <2>2, <4>2 DEF SenderCall
    <3> QED BY <1>1, <3>1
  <2>3. CASE SenderReturn
    BY <1>1, <2>3 DEF SenderReturn
  <2> QED BY <2>1, <2>2, <2>3, <2>4, Zenon DEF SenderStep
<1>3. Faultless'
  BY <1>1, <1>2, Zenon DEF Faultless
<1> QED BY <1>1, <1>3, OrderSame, Zenon DEF tables

(* A client that is accepted has an empty list, and stays connected.       *)
LEMMA OrderAccept ==
  ASSUME Inv, Typed, Order, NEW c \in Clients, Accept(c)
  PROVE  Order'
<1>1. /\ session[c] = Unseen /\ session' = [session EXCEPT ![c] = NewSession]
      /\ clients' = Append(clients, c) /\ main.pc = "idle"
      /\ UNCHANGED <<rtp, sched, main, fault>>
  BY Zenon DEF Accept, tables, MainFree
<1>2. session'[c] = NewSession /\ \A d \in Clients \ {c} : session'[d] = session[d]
  BY <1>1 DEF Typed
<1>3. ~HasSession(c) /\ Listed(c) = {}
  BY <1>1 DEF HasSession, Listed
<1>4. NewSession.rtp_session = <<>> /\ NewSession.cur_state = "INIT"
  BY DEF NewSession
<1>5. Listed(c)' = {}
  <2>1. Len(<<>>) = 0 /\ 1 .. 0 = {}
    OBVIOUS
  <2> QED BY <1>2, <1>4, <2>1 DEF Listed
<1>6. \A d \in Clients : Listed(d)' = Listed(d)
  BY <1>2, <1>3, <1>5, Zenon DEF Listed, HasSession
<1>7. Connected \subseteq Connected' /\ c \in Connected'
  <2>1. clients \in Seq(Clients)
    BY DEF Typed
  <2>2. Len(clients) \in Nat
    BY <2>1, LenProperties
  <2>3. /\ Len(clients') = Len(clients) + 1
        /\ \A k \in 1 .. Len(clients) : clients'[k] = clients[k]
        /\ clients'[Len(clients) + 1] = c
    BY <1>1, <2>1
  <2>4. \A k \in 1 .. Len(clients) : k \in 1 .. Len(clients')
    BY <2>2, <2>3
  <2>5. Len(clients) + 1 \in 1 .. Len(clients')
    BY <2>2, <2>3
  <2> QED BY <2>3, <2>4, <2>5, Zenon DEF Connected
<1>8. Single'
  <2>1. Len(session'[c].rtp_session) <= 1
    BY <1>2, <1>4
  <2> QED BY <1>2, <2>1, Zenon DEF Order, Single, HasSession
<1>9. Apart' /\ Member'
  BY <1>2, <1>6, <1>7, Zenon DEF Order, Apart, Member, HasSession
<1>10. Added' /\ Handled'
  BY <1>1, Zenon DEF Added, Handled
<1>11. Booked'
  <2>1. \A d \in Clients : \A r \in Listed(d)' :
          Scheduled(r)' /\ rtp'[r].hndRtp # "closed"
    BY <1>1, <1>6, AtRest, SlotsSame, Zenon
  <2> QED BY <2>1, Zenon DEF Booked
<1>12. Backed'
  BY <1>1, <1>6, AtRest, Zenon DEF Backed, Held, Released
<1>13. Paused'
  BY <1>1, <1>2, <1>3, <1>6, Zenon DEF Order, Paused, Plays
<1>14. Faultless'
  BY <1>1, Zenon DEF Order, Faultless
<1> QED BY <1>8, <1>9, <1>10, <1>11, <1>12, <1>13, <1>14 DEF Order

(* A session that enters another state keeps its list.                     *)
LEMMA EnteredSame ==
  ASSUME Typed, NEW c \in Clients, HasSession(c), NEW state \in States,
         EnterState(c, state)
  PROVE  /\ SameLists
         /\ session'[c].cur_state = state
         /\ \A d \in Clients \ {c} : session'[d] = session[d]
<1>1. session[c] \in Sessions
  BY SessionIs
<1>2. /\ session' = [session EXCEPT ![c] = [session[c] EXCEPT !.cur_state = state]]
      /\ [session[c] EXCEPT !.cur_state = state].cur_state = state
  BY <1>1 DEF EnterState, Sessions
<1>3. session'[c].cur_state = state
  BY <1>2 DEF Typed
<1>4. /\ session'[c] \in Sessions
      /\ session'[c].rtp_session = session[c].rtp_session
      /\ \A d \in Clients \ {c} : session'[d] = session[d]
  BY <1>1, Entered
<1>5. HasSession(c)'
  BY <1>4, ServerAssumption, Zenon DEF HasSession, Sessions, States
<1> QED BY <1>3, <1>4, <1>5, Zenon DEF SameLists, HasSession

(* OPTIONS, a refused SETUP and a refused PLAY: who plays goes on playing. *)
LEMMA OrderStates ==
  ASSUME Inv, Typed, Order, NEW c \in Clients,
         Options(c) \/ SetupRefused(c) \/ PlayRefused(c)
  PROVE  Order'
<1>1. PICK state \in States : EnterState(c, state)
  BY Zenon DEF Options, SetupRefused, PlayRefused, States
<1>2. /\ HasSession(c) /\ main.pc = "idle"
      /\ session[c].cur_state # "PLAY"
      /\ UNCHANGED <<clients, rtp, sched, main, fault>>
  BY Zenon DEF Options, SetupRefused, PlayRefused, InState, Serving, MainFree,
     tables
<1>3. SameLists /\ \A d \in Clients \ {c} : session'[d] = session[d]
  BY <1>1, <1>2, EnteredSame
<1>4. /\ Single' /\ Apart' /\ Member'
      /\ \A d \in Clients : Listed(d)' = Listed(d)
  BY <1>2, <1>3, ListsSame, Zenon DEF Order, Connected
<1>5. Added' /\ Handled'
  BY <1>2, Zenon DEF Added, Handled
<1>6. Booked'
  <2>1. \A d \in Clients : \A r \in Listed(d)' :
          Scheduled(r)' /\ rtp'[r].hndRtp # "closed"
    BY <1>2, <1>4, AtRest, SlotsSame, Zenon
  <2> QED BY <2>1, Zenon DEF Booked
<1>7. Backed'
  BY <1>2, <1>4, AtRest, Zenon DEF Backed, Held, Released
<1>8. Paused'
  BY <1>2, <1>3, <1>4, Zenon DEF Order, Paused, Plays
<1>9. Faultless'
  BY <1>2, Zenon DEF Order, Faultless
<1> QED BY <1>4, <1>5, <1>6, <1>7, <1>8, <1>9 DEF Order

(* The end of PLAY: the client whose PLAY was served plays.                *)
LEMMA OrderPlayFinish ==
  ASSUME Inv, Typed, Order, PlayFinish
  PROVE  Order'
<1> DEFINE c == main.client
<1>1. /\ EnterState(c, "PLAY") /\ main.pc = "play" /\ main' = Idle
      /\ UNCHANGED <<clients, rtp, sched, fault>>
  BY Zenon DEF PlayFinish, tables
<1>2. c \in Clients /\ HasSession(c) /\ "PLAY" \in States
  BY <1>1, Zenon DEF Inv, Work, AtWork, States
<1> HIDE DEF c
<1>3. /\ SameLists /\ session'[c].cur_state = "PLAY"
      /\ \A d \in Clients \ {c} : session'[d] = session[d]
  BY <1>1, <1>2, EnteredSame
<1>4. /\ Single' /\ Apart' /\ Member'
      /\ \A d \in Clients : Listed(d)' = Listed(d)
  BY <1>1, <1>3, ListsSame, Zenon DEF Order, Connected
<1>5. main'.pc = "idle"
  BY <1>1 DEF Idle
<1>6. Added' /\ Handled'
  BY <1>5, Zenon DEF Added, Handled
<1>7. Booked'
  <2>1. \A d \in Clients : \A r \in Listed(d) :
          Scheduled(r) /\ rtp[r].hndRtp # "closed"
    BY <1>1, Zenon DEF Order, Booked, Released, Removing
  <2>2. \A d \in Clients : \A r \in Listed(d)' :
          Scheduled(r)' /\ rtp'[r].hndRtp # "closed"
    BY <1>1, <1>4, <2>1, SlotsSame, Zenon
  <2> QED BY <2>2, Zenon DEF Booked
<1>8. Backed'
  BY <1>1, <1>4, <1>5, Zenon DEF Order, Backed, Held, Released, Adding
<1>9. Paused'
  BY <1>1, <1>3, <1>4, Zenon DEF Order, Paused, Plays, c
<1>10. Faultless'
  BY <1>1, Zenon DEF Order, Faultless
<1> QED BY <1>4, <1>6, <1>7, <1>8, <1>9, <1>10 DEF Order

(* PLAY, TEARDOWN and the end of a connection have the client's list to go *)
(* through.                                                                *)
LEMMA OrderStarts ==
  ASSUME Inv, Typed, Order, NEW c \in Clients,
         Play(c) \/ Teardown(c) \/ (Close(c) /\ session[c] # Nil)
  PROVE  Order'
<1>1. /\ main.pc = "idle" /\ fault = "none"
      /\ UNCHANGED <<clients, session, rtp, sched, fault>>
  BY Zenon DEF Play, Teardown, Close, InState, Serving, MainFree, tables
<1>2. session[c] \in Sessions
  <2>1. CASE Play(c) \/ Teardown(c)
    BY <2>1, SessionIs, Zenon DEF Play, Teardown, InState
  <2>2. CASE Close(c) /\ session[c] # Nil
    BY <2>2, Zenon DEF Close, Serving, Inv, Work, Accepted
  <2> QED BY <2>1, <2>2
<1>3. PICK p \in {"play", "teardown", "close"} :
        main' = [Idle EXCEPT !.pc = p, !.client = c,
                             !.todo = session[c].rtp_session]
  BY Zenon DEF Play, Teardown, Close
<1>4. main'.pc = p /\ main'.client = c /\ main'.todo = session[c].rtp_session
  BY <1>2, <1>3, Started
<1>5. /\ Single' /\ Apart' /\ Member'
      /\ \A d \in Clients : Listed(d)' = Listed(d)
  BY <1>1, SessionsSame, ListsSame, Zenon DEF Order, Connected
<1>6. Added' /\ Handled'
  BY <1>1, <1>4, Zenon DEF Added, Handled
<1>7. Booked'
  <2>1. \A d \in Clients : \A r \in Listed(d)' :
          Scheduled(r)' /\ rtp'[r].hndRtp # "closed"
    BY <1>1, <1>5, AtRest, SlotsSame, Zenon
  <2> QED BY <2>1, Zenon DEF Booked
<1>8. Backed'
  <2>1. Listed(c) # {} => ~Released(c)'
    <3>1. HasSession(c) => (session[c].rtp_session = <<>> => Listed(c) = {})
      BY ListedIs DEF Order
    <3> QED BY <1>4, <3>1, Lister, Zenon DEF Released
  <2>2. \A d \in Clients \ {c} : ~Released(d)'
    BY <1>4, Zenon DEF Released
  <2>3. ASSUME NEW i \in Ids, sched'[i].valid
        PROVE  rtp'[sched'[i].rtp_session].sched_id = i /\ Held(i)'
    <3>1. rtp[sched[i].rtp_session].sched_id = i
      BY <1>1, <2>3, AtRest, Zenon
    <3>2. PICK d \in Clients : sched[i].rtp_session \in Listed(d)
      BY <1>1, <2>3, AtRest, Zenon
    <3>3. ~Released(d)'
      BY <2>1, <2>2, <3>2
    <3> QED BY <1>1, <1>5, <3>1, <3>2, <3>3, Zenon DEF Held
  <2> QED BY <2>3, Zenon DEF Backed
<1>9. Paused'
  BY <1>1, <1>4, <1>5, Zenon DEF Order, Paused, Plays
<1>10. Faultless'
  BY <1>1, Zenon DEF Faultless
<1> QED BY <1>5, <1>6, <1>7, <1>8, <1>9, <1>10 DEF Order

(* A client that goes had no session any more, ...                         *)
LEMMA OrderCloseFreed ==
  ASSUME Inv, Typed, Order, NEW c \in Clients, Close(c), session[c] = Nil
  PROVE  Order'
<1>1. /\ main.pc = "idle" /\ fault = "none" /\ Unlink(c)
      /\ UNCHANGED <<session, rtp, sched, main>>
  BY Zenon DEF Close, Serving, MainFree, tables
<1>2. ~HasSession(c)
  BY DEF HasSession
<1>3. /\ Connected \ {c} \subseteq Connected'
      /\ fault' = fault \/ fault' = "null client"
  BY <1>1, Unlinked, TypedIsTypeOK
<1>4. /\ SameLists /\ Single' /\ Apart'
      /\ \A d \in Clients : Listed(d)' = Listed(d)
  BY <1>1, SessionsSame, ListsSame, Zenon DEF Order
<1>5. Member'
  BY <1>2, <1>3, <1>4, Zenon DEF Order, Member, SameLists
<1>6. Added' /\ Handled'
  BY <1>1, Zenon DEF Added, Handled
<1>7. Booked'
  <2>1. \A d \in Clients : \A r \in Listed(d)' :
          Scheduled(r)' /\ rtp'[r].hndRtp # "closed"
    BY <1>1, <1>4, AtRest, SlotsSame, Zenon
  <2> QED BY <2>1, Zenon DEF Booked
<1>8. Backed'
  BY <1>1, <1>4, AtRest, Zenon DEF Backed, Held, Released
<1>9. Paused'
  BY <1>1, <1>4, Zenon DEF Order, Paused, Plays
<1>10. Faultless'
  BY <1>1, <1>3, Zenon DEF Faultless
<1> QED BY <1>4, <1>5, <1>6, <1>7, <1>8, <1>9, <1>10 DEF Order

(* ... or its session is freed when its slot is.                           *)
LEMMA OrderFinishes ==
  ASSUME Inv, Typed, Order, TeardownFinish \/ CloseFinish
  PROVE  Order'
<1>0. PICK c \in Clients : c = main.client
  <2>1. main.pc \in {"teardown", "close"}
    BY Zenon DEF TeardownFinish, CloseFinish
  <2> QED BY <2>1, Zenon DEF Inv, Work, AtWork
<1>1. /\ main.pc \in {"teardown", "close"} /\ main.todo = <<>>
      /\ session' = [session EXCEPT ![c] = Nil]
      /\ main' = Idle /\ fault = "none"
      /\ UNCHANGED <<rtp, sched>>
  BY <1>0, Zenon DEF TeardownFinish, CloseFinish
<1>2. Released(c) /\ \A d \in Clients \ {c} : ~Released(d)
  BY <1>0, <1>1, Zenon DEF Released
<1>3. \A d \in Clients \ {c} : ~Removing(d) /\ main.pc # "add"
  BY <1>0, <1>1, Zenon DEF Removing
<1>4. /\ Connected \ {c} \subseteq Connected'
      /\ fault' = "none" \/ fault' = "null client"
  <2>1. CASE TeardownFinish
    BY <1>1, <2>1, Zenon DEF TeardownFinish, Connected
  <2>2. CASE CloseFinish
    BY <1>0, <1>1, <2>2, Unlinked, TypedIsTypeOK DEF CloseFinish
  <2> QED BY <2>1, <2>2
<1>5. session'[c] = Nil /\ \A d \in Clients \ {c} : session'[d] = session[d]
  BY <1>1 DEF Typed
<1>6. ~HasSession(c)' /\ \A d \in Clients \ {c} : HasSession(d)' <=> HasSession(d)
  BY <1>5, Zenon DEF HasSession
<1>7. Listed(c)' = {} /\ \A d \in Clients \ {c} : Listed(d)' = Listed(d)
  BY <1>5, <1>6, Zenon DEF Listed
<1>8. Single' /\ Apart' /\ Member'
  <2>1. Single'
    BY <1>5, <1>6, Zenon DEF Order, Single
  <2>2. Apart'
    BY <1>7, SMT DEF Order, Apart
  <2>3. Member'
    BY <1>4, <1>6, Zenon DEF Order, Member
  <2> QED BY <2>1, <2>2, <2>3
<1>9. main'.pc = "idle"
  BY <1>1 DEF Idle
<1>10. Added' /\ Handled'
  BY <1>9, Zenon DEF Added, Handled
<1>11. Booked'
  <2>1. \A d \in Clients : \A r \in Listed(d)' : d # c /\ r \in Listed(d)
    BY <1>7
  <2>2. \A d \in Clients : \A r \in Listed(d)' :
          Scheduled(r) /\ rtp[r].hndRtp # "closed"
    BY <1>2, <1>3, <2>1, Zenon DEF Order, Booked
  <2>3. \A d \in Clients : \A r \in Listed(d)' :
          Scheduled(r)' /\ rtp'[r].hndRtp # "closed"
    BY <1>1, <2>2, SlotsSame, Zenon
  <2> QED BY <2>3, Zenon DEF Booked
<1>12. Backed'
  <2>1. \A i : ~Adding(i)
    BY <1>1, Zenon DEF Adding
  <2>2. ASSUME NEW i \in Ids, sched'[i].valid
        PROVE  rtp'[sched'[i].rtp_session].sched_id = i /\ Held(i)'
    <3>1. rtp[sched[i].rtp_session].sched_id = i /\ Held(i)
      BY <1>1, <2>1, <2>2, Zenon DEF Order, Backed
    <3>2. PICK d \in Clients : sched[i].rtp_session \in Listed(d) /\ ~Released(d)
      BY <3>1, Zenon DEF Held
    <3>3. d # c /\ Listed(d)' = Listed(d)
      BY <1>2, <1>7, <3>2
    <3>4. ~Released(d)'
      BY <1>9, Zenon DEF Released
    <3> QED BY <1>1, <3>1, <3>2, <3>3, <3>4, Zenon DEF Held
  <2> QED BY <2>2, Zenon DEF Backed
<1>13. Paused'
  <2>1. \A d \in Clients : \A r \in Listed(d)' : d # c /\ r \in Listed(d)
    BY <1>7
  <2>2. main.pc # "play"
    BY <1>1
  <2> QED BY <1>1, <1>5, <2>1, <2>2, Zenon DEF Order, Paused, Plays
<1>14. Faultless'
  BY <1>4, Zenon DEF Faultless
<1> QED BY <1>8, <1>10, <1>11, <1>12, <1>13, <1>14 DEF Order

(* What a slot is when its rtp_session is written.                         *)
LEMMA SlotWritten ==
  ASSUME NEW slot \in Slots, NEW v \in BOOLEAN, slot.valid = v, NEW r
  PROVE  [slot EXCEPT !.rtp_session = r] = [valid |-> v, rtp_session |-> r]
  BY DEF Slots

(* The second half of schedule_add: the new session is in its slot.        *)
LEMMA OrderSetupFinish ==
  ASSUME Inv, Typed, Order, SetupFinish
  PROVE  Order'
<1> DEFINE c == main.client
           r == Head(main.todo)
<1>1. /\ main.pc = "add" /\ main' = Idle /\ fault = "none"
      /\ sched' = [sched EXCEPT ![main.slot].rtp_session = r]
      /\ UNCHANGED <<clients, session, rtp, fault>>
  BY Zenon DEF SetupFinish
<1>2. /\ c \in Clients /\ Listed(c) = {r} /\ sched[main.slot].valid
      /\ rtp[r].sched_id = main.slot /\ rtp[r].hndRtp # "closed"
      /\ \A d \in Clients \ {c} : \A q \in Listed(d) :
           rtp[q].sched_id # main.slot
  BY <1>1, Zenon DEF Order, Added
<1> HIDE DEF c, r
<1>3. main.slot \in Ids /\ r \in RtpIds
  <2>1. main.slot \in Ids
    BY HandlerParts
  <2>2. r \in RtpIds
    BY <1>2, SessionIs
  <2> QED BY <2>1, <2>2
<1>4. /\ sched'[main.slot] = [valid |-> TRUE, rtp_session |-> r]
      /\ \A i \in Ids \ {main.slot} : sched'[i] = sched[i]
  <2>1. sched[main.slot] \in Slots
    BY <1>3 DEF Typed
  <2>2. [sched[main.slot] EXCEPT !.rtp_session = r]
          = [valid |-> TRUE, rtp_session |-> r]
    <3>1. sched[main.slot].valid = TRUE
      BY <1>2, <2>1, Zenon DEF Slots
    <3> QED BY <2>1, <3>1, SlotWritten, Zenon
  <2> QED BY <1>1, <1>3, <2>2 DEF Typed
<1>5. /\ Single' /\ Apart' /\ Member'
      /\ \A d \in Clients : Listed(d)' = Listed(d)
  BY <1>1, SessionsSame, ListsSame, Zenon DEF Order, Connected
<1>6. main'.pc = "idle"
  BY <1>1 DEF Idle
<1>7. Added' /\ Handled'
  BY <1>6, Zenon DEF Added, Handled
<1>8. Booked'
  <2>1. ASSUME NEW d \in Clients, NEW q \in Listed(d)
        PROVE  Scheduled(q)' /\ rtp'[q].hndRtp # "closed"
    <3>1. CASE d = c
      BY <3>1, <1>1, <1>2, <1>3, <1>4 DEF Scheduled
    <3>2. CASE d # c
      <4>1. Scheduled(q) /\ rtp[q].hndRtp # "closed"
        BY <1>1, <3>2, Zenon DEF Order, Booked, Released, Removing, c
      <4>2. rtp[q].sched_id # main.slot
        BY <1>2, <3>2
      <4> QED BY <1>1, <1>4, <4>1, <4>2, Zenon DEF Scheduled
    <3> QED BY <3>1, <3>2
  <2> QED BY <1>5, <2>1, Zenon DEF Booked
<1>9. Backed'
  <2>1. ASSUME NEW i \in Ids, sched'[i].valid
        PROVE  rtp'[sched'[i].rtp_session].sched_id = i /\ Held(i)'
    <3>1. \A d : ~Released(d)'
      BY <1>6, Zenon DEF Released
    <3>2. CASE i = main.slot
      BY <1>1, <1>2, <1>4, <1>5, <3>1, <3>2 DEF Held
    <3>3. CASE i # main.slot
      BY <1>1, <1>4, <1>5, <2>1, <3>1, <3>3, Zenon
         DEF Order, Backed, Held, Adding
    <3> QED BY <3>2, <3>3
  <2> QED BY <2>1, Zenon DEF Backed
<1>10. Paused'
  BY <1>1, <1>5, Zenon DEF Order, Paused, Plays
<1>11. Faultless'
  BY <1>1, Zenon DEF Faultless
<1> QED BY <1>5, <1>7, <1>8, <1>9, <1>10, <1>11 DEF Order

(* Steps that change one session's pause, started or hndRtp only.          *)
SameIds == \A q \in RtpIds : rtp'[q].sched_id = rtp[q].sched_id

(* The slots stay those of the listed sessions.                            *)
LEMMA ScheduledSame ==
  ASSUME SameIds, UNCHANGED sched
  PROVE  \A q \in RtpIds : Scheduled(q)' <=> Scheduled(q)
  BY Zenon DEF SameIds, Scheduled

(* schedule_start starts the client's session, whose slot it is.           *)
LEMMA OrderPlayNext ==
  ASSUME Inv, Typed, Order, PlayNext
  PROVE  Order'
<1>1. /\ main.pc = "play" /\ main.todo # <<>> /\ fault = "none"
      /\ main' = [main EXCEPT !.todo = Tail(@)]
      /\ UNCHANGED <<clients, session, sched>>
  BY Zenon DEF PlayNext
<1>2. PICK c \in Clients : c = main.client
  BY <1>1, AtHead
<1>3. PICK r \in RtpIds : r = Head(main.todo)
  BY <1>1, AtHead
<1>4. /\ Listed(c) = {r} /\ Tail(main.todo) = <<>>
      /\ rtp[r] \in RtpSessions /\ Scheduled(r)
  BY <1>1, <1>2, <1>3, AtHead
<1>5. main'.pc = "play" /\ main'.client = c /\ main'.todo = <<>>
  BY <1>1, <1>2, <1>4 DEF Typed, Handlers
<1>6. /\ UNCHANGED fault
      /\ \/ UNCHANGED rtp
         \/ rtp' = [rtp EXCEPT ![r].pause = FALSE, ![r].started = TRUE]
  <2>1. rtp[r].sched_id \in Ids
    BY <1>4 DEF Scheduled
  <2>2. sched[rtp[r].sched_id].rtp_session = r
    BY <1>4 DEF Scheduled
  <2>3. r # Nil
    BY ServerAssumption
  <2> QED BY <1>3, <2>1, <2>2, <2>3, Zenon DEF PlayNext
<1>7. /\ SameIds
      /\ \A q \in RtpIds : rtp'[q].hndRtp = rtp[q].hndRtp
      /\ \A q \in RtpIds \ {r} : rtp'[q] = rtp[q]
  <2>1. CASE UNCHANGED rtp
    BY <2>1, Zenon DEF SameIds
  <2>2. CASE rtp' = [rtp EXCEPT ![r].pause = FALSE, ![r].started = TRUE]
    <3> DEFINE mid == [rtp EXCEPT ![r].pause = FALSE]
    <3>1. /\ \A q \in RtpIds \ {r} : mid[q] = rtp[q]
          /\ mid[r] = [rtp[r] EXCEPT !.pause = FALSE]
          /\ DOMAIN mid = RtpIds
      BY DEF Typed
    <3>2. rtp' = [mid EXCEPT ![r].started = TRUE]
      BY <2>2
    <3> HIDE DEF mid
    <3>3. /\ \A q \in RtpIds \ {r} : rtp'[q] = mid[q]
          /\ rtp'[r] = [mid[r] EXCEPT !.started = TRUE]
      BY <3>1, <3>2
    <3>4. mid[r] \in RtpSessions
      BY <1>4, <3>1 DEF RtpSessions
    <3>5. rtp'[r].sched_id = mid[r].sched_id /\ rtp'[r].hndRtp = mid[r].hndRtp
      BY <3>3, <3>4 DEF RtpSessions
    <3>6. mid[r].sched_id = rtp[r].sched_id /\ mid[r].hndRtp = rtp[r].hndRtp
      BY <1>4, <3>1 DEF RtpSessions
    <3> QED BY <3>1, <3>3, <3>5, <3>6, Zenon DEF SameIds
  <2> QED BY <1>6, <2>1, <2>2
<1>8. /\ Single' /\ Apart' /\ Member'
      /\ \A d \in Clients : Listed(d)' = Listed(d)
  BY <1>1, SessionsSame, ListsSame, Zenon DEF Order, Connected
<1>9. Added' /\ Handled'
  BY <1>5, Zenon DEF Added, Handled
<1>10. \A d : ~Released(d) /\ ~Removing(d) /\ ~Released(d)' /\ ~Removing(d)'
  BY <1>1, <1>5, Zenon DEF Released, Removing
<1>11. Booked'
  <2>1. ASSUME NEW d \in Clients, NEW q \in Listed(d)
        PROVE  Scheduled(q)' /\ rtp'[q].hndRtp # "closed"
    <3>1. Scheduled(q) /\ rtp[q].hndRtp # "closed"
      BY <1>1, <1>10, Zenon DEF Order, Booked
    <3>2. q \in RtpIds
      BY SessionIs
    <3> QED BY <1>1, <1>7, <3>1, <3>2, ScheduledSame, Zenon
  <2> QED BY <1>8, <2>1, Zenon DEF Booked
<1>12. Backed'
  <2>1. ASSUME NEW i \in Ids, sched'[i].valid
        PROVE  rtp'[sched'[i].rtp_session].sched_id = i /\ Held(i)'
    <3>1. rtp[sched[i].rtp_session].sched_id = i /\ Held(i)
      BY <1>1, <2>1, Zenon DEF Order, Backed, Adding
    <3>2. PICK d \in Clients : sched[i].rtp_session \in Listed(d)
      BY <3>1, Zenon DEF Held
    <3>3. sched[i].rtp_session \in RtpIds
      BY <3>2, SessionIs
    <3> QED BY <1>1, <1>7, <1>8, <1>10, <3>1, <3>2, <3>3, Zenon
            DEF Held, SameIds
  <2> QED BY <2>1, Zenon DEF Backed
<1>13. Paused'
  <2>1. ASSUME NEW d \in Clients, NEW q \in Listed(d), ~rtp'[q].pause
        PROVE  Plays(d)'
    <3>1. CASE d = c
      BY <1>5, <3>1, Zenon DEF Plays
    <3>2. CASE d # c
      <4>1. q \in RtpIds /\ q # r
        BY <1>4, <3>2, SessionIs DEF Order, Apart
      <4>2. Plays(d)
        BY <1>7, <2>1, <4>1, Zenon DEF Order, Paused
      <4> QED BY <1>1, <1>2, <3>2, <4>2, Zenon DEF Plays
    <3> QED BY <3>1, <3>2
  <2> QED BY <1>8, <2>1, Zenon DEF Paused
<1>14. Faultless'
  BY <1>1, <1>6, Zenon DEF Faultless
<1> QED BY <1>8, <1>9, <1>11, <1>12, <1>13, <1>14 DEF Order

(* RtpDelete closes the handle of the client's session.                    *)
LEMMA OrderDeleteRtp ==
  ASSUME Inv, Typed, Order, DeleteRtp
  PROVE  Order'
<1>1. /\ main.pc \in {"teardown", "close"} /\ main.todo # <<>> /\ fault = "none"
      /\ main' = [main EXCEPT !.pc = IF @ = "teardown" THEN "teardown remove"
                                                       ELSE "close remove"]
      /\ UNCHANGED <<clients, session, sched, fault>>
  BY Zenon DEF DeleteRtp
<1>2. PICK c \in Clients : c = main.client
  BY <1>1, AtHead
<1>3. PICK r \in RtpIds : r = Head(main.todo)
  BY <1>1, AtHead
<1>4. Listed(c) = {r} /\ rtp[r] \in RtpSessions /\ Scheduled(r)
  BY <1>1, <1>2, <1>3, AtHead
<1>5. /\ main'.pc \in {"teardown remove", "close remove"}
      /\ main'.client = c /\ main'.todo = main.todo
  BY <1>1, <1>2 DEF Typed, Handlers
<1>6. /\ SameIds
      /\ \A q \in RtpIds : rtp'[q].pause = rtp[q].pause
      /\ \A q \in RtpIds \ {r} : rtp'[q] = rtp[q]
  <2>1. PICK h : rtp' = [rtp EXCEPT ![r].hndRtp = h]
    BY <1>3 DEF DeleteRtp
  <2>2. /\ \A q \in RtpIds \ {r} : rtp'[q] = rtp[q]
        /\ rtp'[r] = [rtp[r] EXCEPT !.hndRtp = h]
    BY <2>1 DEF Typed
  <2>3. rtp'[r].sched_id = rtp[r].sched_id /\ rtp'[r].pause = rtp[r].pause
    BY <1>4, <2>2 DEF RtpSessions
  <2> QED BY <2>2, <2>3, Zenon DEF SameIds
<1>7. /\ Single' /\ Apart' /\ Member'
      /\ \A d \in Clients : Listed(d)' = Listed(d)
  BY <1>1, SessionsSame, ListsSame, Zenon DEF Order, Connected
<1>8. Added' /\ Handled'
  <2>1. main.todo = session[c].rtp_session
    BY <1>1, <1>2, Zenon DEF Order, Handled
  <2> QED BY <1>1, <1>5, <2>1, Zenon DEF Added, Handled
<1>9. /\ Removing(c)'
      /\ \A d : ~Released(d) /\ ~Removing(d) /\ ~Released(d)'
  BY <1>1, <1>5, Zenon DEF Released, Removing
<1>10. Booked'
  <2>1. ASSUME NEW d \in Clients, NEW q \in Listed(d)
        PROVE  Scheduled(q)' /\ (rtp'[q].hndRtp = "closed" => Removing(d)')
    <3>1. Scheduled(q) /\ rtp[q].hndRtp # "closed"
      BY <1>1, <1>9, Zenon DEF Order, Booked
    <3>2. q \in RtpIds
      BY SessionIs
    <3>3. Scheduled(q)'
      BY <1>1, <1>6, <3>1, <3>2, ScheduledSame, Zenon
    <3>4. CASE d = c
      BY <1>9, <3>3, <3>4
    <3>5. CASE d # c
      <4>1. q # r
        BY <1>4, <3>5 DEF Order, Apart
      <4> QED BY <1>6, <3>1, <3>2, <3>3, <4>1, Zenon
    <3> QED BY <3>4, <3>5
  <2> QED BY <1>7, <2>1, Zenon DEF Booked
<1>11. Backed'
  <2>1. ASSUME NEW i \in Ids, sched'[i].valid
        PROVE  rtp'[sched'[i].rtp_session].sched_id = i /\ Held(i)'
    <3>1. rtp[sched[i].rtp_session].sched_id = i /\ Held(i)
      BY <1>1, <2>1, Zenon DEF Order, Backed, Adding
    <3>2. PICK d \in Clients : sched[i].rtp_session \in Listed(d)
      BY <3>1, Zenon DEF Held
    <3>3. sched[i].rtp_session \in RtpIds
      BY <3>2, SessionIs
    <3> QED BY <1>1, <1>6, <1>7, <1>9, <3>1, <3>2, <3>3, Zenon
            DEF Held, SameIds
  <2> QED BY <2>1, Zenon DEF Backed
<1>12. Paused'
  <2>1. \A d \in Clients : Listed(d) \subseteq RtpIds
    BY SessionIs
  <2>2. \A d \in Clients : Plays(d) => Plays(d)'
    BY <1>1, Zenon DEF Plays
  <2> QED BY <1>6, <1>7, <2>1, <2>2, Zenon DEF Order, Paused
<1>13. Faultless'
  BY <1>1, Zenon DEF Faultless
<1> QED BY <1>7, <1>8, <1>10, <1>11, <1>12, <1>13 DEF Order

(* schedule_remove frees the slot of the client's session and no other.    *)
LEMMA OrderRemoveRtp ==
  ASSUME Inv, Typed, Order, RemoveRtp
  PROVE  Order'
<1>1. /\ main.pc \in {"teardown remove", "close remove"} /\ fault = "none"
      /\ main' = [main EXCEPT
           !.pc = IF @ = "teardown remove" THEN "teardown" ELSE "close",
           !.todo = Tail(@)]
      /\ UNCHANGED <<clients, session, rtp>>
  BY Zenon DEF RemoveRtp
<1>2. main.todo # <<>>
  BY <1>1, Zenon DEF Inv, Work, AtWork
<1>3. PICK c \in Clients : c = main.client
  BY <1>1, <1>2, AtHead
<1>4. PICK r \in RtpIds : r = Head(main.todo)
  BY <1>1, <1>2, AtHead
<1>5. /\ Listed(c) = {r} /\ Tail(main.todo) = <<>>
      /\ rtp[r] \in RtpSessions /\ Scheduled(r)
  BY <1>1, <1>2, <1>3, <1>4, AtHead
<1>6. PICK id \in Ids : id = rtp[r].sched_id
  BY <1>5 DEF Scheduled
<1>7. main'.pc \in {"teardown", "close"} /\ main'.client = c /\ main'.todo = <<>>
  BY <1>1, <1>3, <1>5 DEF Typed, Handlers
<1>8. UNCHANGED fault /\ sched' = [sched EXCEPT ![id].valid = FALSE]
  BY <1>4, <1>6, Zenon DEF RemoveRtp
<1>9. /\ ~sched'[id].valid
      /\ \A i \in Ids \ {id} : sched'[i] = sched[i]
  <2>1. sched \in [Ids -> Slots]
    BY DEF Typed
  <2>2. ~[sched[id] EXCEPT !.valid = FALSE].valid
    BY <2>1 DEF Slots
  <2> QED BY <1>8, <2>1, <2>2
<1>10. /\ Single' /\ Apart' /\ Member'
       /\ \A d \in Clients : Listed(d)' = Listed(d)
  BY <1>1, SessionsSame, ListsSame, Zenon DEF Order, Connected
<1>11. Added' /\ Handled'
  BY <1>7, Zenon DEF Added, Handled
<1>12. /\ Released(c)' /\ \A d : ~Released(d)
       /\ \A d \in Clients \ {c} : ~Removing(d) /\ ~Released(d)'
  BY <1>1, <1>3, <1>7, Zenon DEF Released, Removing
<1>13. \A d \in Clients \ {c} : \A q \in Listed(d) : q # r
  BY <1>5 DEF Order, Apart
<1>14. Booked'
  <2>1. ASSUME NEW d \in Clients \ {c}, NEW q \in Listed(d)
        PROVE  Scheduled(q)' /\ rtp'[q].hndRtp # "closed"
    <3>1. Scheduled(q) /\ rtp[q].hndRtp # "closed"
      BY <1>1, <1>12, Zenon DEF Order, Booked
    <3>2. sched[rtp[q].sched_id].rtp_session = q /\ sched[id].rtp_session = r
      BY <1>5, <1>6, <3>1 DEF Scheduled
    <3>3. rtp[q].sched_id # id
      BY <1>13, <3>2
    <3> QED BY <1>1, <1>9, <3>1, <3>3, Zenon DEF Scheduled
  <2> QED BY <1>10, <1>12, <2>1, Zenon DEF Booked
<1>15. Backed'
  <2>1. ASSUME NEW i \in Ids, sched'[i].valid
        PROVE  rtp'[sched'[i].rtp_session].sched_id = i /\ Held(i)'
    <3>1. i # id /\ sched'[i] = sched[i]
      BY <1>9, <2>1
    <3>2. rtp[sched[i].rtp_session].sched_id = i /\ Held(i)
      BY <1>1, <2>1, <3>1, Zenon DEF Order, Backed, Adding
    <3>3. PICK d \in Clients : sched[i].rtp_session \in Listed(d)
      BY <3>2, Zenon DEF Held
    <3>4. d # c
      BY <1>5, <1>6, <3>1, <3>2, <3>3
    <3> QED BY <1>1, <1>10, <1>12, <3>1, <3>2, <3>3, <3>4, Zenon DEF Held
  <2> QED BY <2>1, Zenon DEF Backed
<1>16. Paused'
  <2>1. \A d \in Clients : Plays(d) => Plays(d)'
    BY <1>1, Zenon DEF Plays
  <2> QED BY <1>1, <1>10, <2>1, Zenon DEF Order, Paused
<1>17. Faultless'
  BY <1>1, <1>8, Zenon DEF Faultless
<1> QED BY <1>10, <1>11, <1>14, <1>15, <1>16, <1>17 DEF Order

(* Every valid slot is that of another connected client, so a connected    *)
(* client without a stream finds a free one.                               *)
LEMMA SlotForEach ==
  ASSUME Inv, Typed, Order, main.pc = "idle", NEW c \in Connected,
         Listed(c) = {}
  PROVE  FreeSlots # {}
<1> SUFFICES ASSUME FreeSlots = {} PROVE FALSE
  OBVIOUS
<1>1. clients \in Seq(Clients) /\ Len(clients) \in Nat
  <2>1. clients \in Seq(Clients)
    BY DEF Typed
  <2> QED BY <2>1, LenProperties
<1>2. \A k \in 1 .. Len(clients) : clients[k] \in Clients
  BY <1>1, ElementOfSeq
<1>3. PICK kc \in 1 .. Len(clients) : clients[kc] = c
  BY DEF Connected
<1> DEFINE Owner(i, k) == sched[i].rtp_session \in Listed(clients[k])
           owner == [i \in Ids |-> CHOOSE k \in 1 .. Len(clients) : Owner(i, k)]
           others == (1 .. Len(clients)) \ {kc}
<1>4. ASSUME NEW i \in Ids
      PROVE  \E k \in 1 .. Len(clients) : Owner(i, k)
  <2>1. sched[i].valid
    BY <1>4, Zenon DEF FreeSlots
  <2>2. PICK d \in Clients : sched[i].rtp_session \in Listed(d)
    BY <2>1, AtRest
  <2>3. d \in Connected
    BY <2>2, Lister DEF Order, Member
  <2> QED BY <2>2, <2>3, Zenon DEF Connected
<1>5. \A i \in Ids : owner[i] \in 1 .. Len(clients) /\ Owner(i, owner[i])
  BY <1>4, Zenon
<1>6. owner \in [Ids -> others]
  <2>1. \A i \in Ids : owner[i] # kc
    BY <1>3, <1>5, Zenon
  <2>2. \A i \in Ids : owner[i] \in others
    BY <1>5, <2>1
  <2> HIDE DEF others, Owner
  <2> QED BY <2>2
<1>7. /\ IsFiniteSet(Ids) /\ Cardinality(Ids) = MAX_CONNECTION
  <2>1. 0 \in Int /\ MAX_CONNECTION - 1 \in Int /\ MAX_CONNECTION \in Nat \ {0}
    BY ServerAssumption
  <2> QED BY <2>1, FS_Interval DEF Ids
<1>8. /\ IsFiniteSet(others) /\ Cardinality(others) = Len(clients) - 1
  <2>1. 1 \in Int /\ Len(clients) \in Int /\ kc \in 1 .. Len(clients)
        /\ Len(clients) >= 1
    BY <1>1
  <2>2. IsFiniteSet(1 .. Len(clients)) /\ Cardinality(1 .. Len(clients)) = Len(clients)
    BY <2>1, FS_Interval
  <2> QED BY <2>1, <2>2, FS_RemoveElement
<1>9. Cardinality(others) < Cardinality(Ids)
  <2>1. Len(clients) <= MAX_CONNECTION
    BY ServerAssumption DEF Inv, ConnCount
  <2> QED BY <1>1, <1>7, <1>8, <2>1, ServerAssumption
<1> HIDE DEF owner, others
<1>10. PICK i, j \in Ids : i # j /\ owner[i] = owner[j]
  BY <1>6, <1>7, <1>8, <1>9, FS_PigeonHole
<1>11. PICK d \in Clients : d = clients[owner[i]]
  BY <1>2, <1>5
<1>12. /\ sched[i].rtp_session \in Listed(d)
       /\ sched[j].rtp_session \in Listed(d)
  BY <1>5, <1>10, <1>11
<1>13. sched[i].rtp_session = sched[j].rtp_session
  <2>1. HasSession(d) /\ session[d].rtp_session # <<>>
    BY <1>12, Lister, ListedIs DEF Order
  <2>2. Listed(d) = {Head(session[d].rtp_session)}
    BY <2>1, ListedIs DEF Order
  <2> QED BY <1>12, <2>2
<1>14. rtp[sched[i].rtp_session].sched_id = i /\ rtp[sched[j].rtp_session].sched_id = j
  <2>1. sched[i].valid /\ sched[j].valid
    BY Zenon DEF FreeSlots
  <2> QED BY <2>1, AtRest
<1> QED BY <1>10, <1>13, <1>14

(* A SETUP that is its client's first gets a free slot.                    *)
LEMMA OrderSetup ==
  ASSUME Inv, Typed, Order, NEW c \in Clients, Setup(c),
         session[c].rtp_session = <<>>
  PROVE  Order'
<1>0. PICK r \in RtpIds : \E id : SetupOf(c, r, id)
  BY SetupParts
<1>1. PICK id : SetupOf(c, r, id)
  BY <1>0
<1>2. /\ rtp[r] = Nil /\ AppendRtp(c, r, "READY") /\ "READY" \in States
      /\ UNCHANGED <<clients, fault>>
  BY <1>1, Zenon DEF SetupOf, FreshRtp, States
<1>3. HasSession(c) /\ c \in Connected /\ main.pc = "idle" /\ fault = "none"
  BY <1>2, Zenon DEF AppendRtp, InState, Serving, MainFree
<1>4. Listed(c) = {}
  BY <1>3, ListedIs DEF Order
<1>5. /\ id \in Ids /\ ~sched[id].valid
      /\ sched' = [sched EXCEPT ![id].valid = TRUE]
      /\ main' = [pc |-> "add", client |-> c, todo |-> <<r>>, slot |-> id]
  <2>1. FreeSlots # {}
    BY <1>3, <1>4, SlotForEach
  <2> QED BY <1>1, <2>1, Zenon DEF SetupOf, FreeSlots
<1>6. /\ main'.pc = "add" /\ main'.client = c /\ Head(main'.todo) = r
      /\ main'.slot = id
  BY <1>5
<1>7. /\ sched'[id].valid
      /\ \A i \in Ids \ {id} : sched'[i] = sched[i]
  <2>1. sched \in [Ids -> Slots]
    BY DEF Typed
  <2>2. [sched[id] EXCEPT !.valid = TRUE].valid
    BY <1>5, <2>1 DEF Slots
  <2> QED BY <1>5, <2>1, <2>2
<1>8. /\ session'[c] \in Sessions /\ session'[c].rtp_session = <<r>>
      /\ \A d \in Clients \ {c} : session'[d] = session[d]
  <2>1. Append(<<>>, r) = <<r>>
    OBVIOUS
  <2> QED BY <1>2, <2>1, RtpAppended
<1>9. HasSession(c)' /\ \A d \in Clients \ {c} : HasSession(d)' <=> HasSession(d)
  BY <1>8, ServerAssumption, Zenon DEF HasSession, Sessions, States
<1>10. Listed(c)' = {r} /\ \A d \in Clients \ {c} : Listed(d)' = Listed(d)
  <2>1. Listed(c)' = {<<r>>[k] : k \in 1 .. Len(<<r>>)}
    BY <1>8, <1>9, Zenon DEF Listed
  <2>2. {<<r>>[k] : k \in 1 .. Len(<<r>>)} = {r}
    <3>1. Len(<<r>>) = 1 /\ <<r>>[1] = r
      OBVIOUS
    <3> QED BY <3>1
  <2>3. \A d \in Clients \ {c} : Listed(d)' = Listed(d)
    BY <1>8, <1>9, Zenon DEF Listed
  <2> QED BY <2>1, <2>2, <2>3
<1>11. \A d \in Clients : \A q \in Listed(d) : q \in RtpIds /\ q # r
  <2>1. ASSUME NEW d \in Clients, NEW q \in Listed(d)
        PROVE  q \in RtpIds /\ rtp[q] \in RtpSessions
    <3>1. HasSession(d)
      BY Lister
    <3>2. PICK k \in 1 .. Len(session[d].rtp_session) :
            q = session[d].rtp_session[k]
      BY <3>1, Zenon DEF Listed
    <3> QED BY <3>1, <3>2, Zenon DEF Inv, Allocated, AllLive, Live
  <2>2. Nil \notin RtpSessions
    BY ServerAssumption DEF RtpSessions, Ids, ERR_GENERIC
  <2> QED BY <1>2, <2>1, <2>2
<1>12. /\ rtp'[r].sched_id = id /\ rtp'[r].hndRtp # "closed" /\ rtp'[r].pause
       /\ \A q \in RtpIds \ {r} : rtp'[q] = rtp[q]
  <2>1. PICK h \in {"open", "null"} :
          rtp' = [rtp EXCEPT ![r] = [NewRtp EXCEPT !.hndRtp = h],
                             ![session'[c].rtp_session[1]].sched_id = id]
    BY <1>1, Zenon DEF SetupOf
  <2>2. session'[c].rtp_session[1] = r
    BY <1>8
  <2>3. rtp' = [rtp EXCEPT ![r] = [NewRtp EXCEPT !.hndRtp = h],
                           ![r].sched_id = id]
    BY <2>1, <2>2, Zenon
  <2> DEFINE new == [NewRtp EXCEPT !.hndRtp = h]
             mid == [rtp EXCEPT ![r] = new]
  <2>4. mid[r] = new /\ \A q \in RtpIds \ {r} : mid[q] = rtp[q]
    BY DEF Typed
  <2>5. DOMAIN mid = RtpIds
    BY DEF Typed
  <2>6. new \in RtpSessions /\ new.hndRtp = h /\ new.pause
    BY NewRtpTyped DEF RtpSessions, NewRtp
  <2>7. rtp' = [mid EXCEPT ![r].sched_id = id]
    BY <2>3
  <2> HIDE DEF mid, new
  <2>8. /\ rtp'[r] = [new EXCEPT !.sched_id = id]
        /\ \A q \in RtpIds \ {r} : rtp'[q] = mid[q]
    BY <2>4, <2>5, <2>7
  <2>9. rtp'[r].sched_id = id /\ rtp'[r].hndRtp = h /\ rtp'[r].pause
    BY <2>6, <2>8 DEF RtpSessions
  <2> QED BY <2>4, <2>8, <2>9
<1>13. ASSUME NEW d \in Clients \ {c}, NEW q \in Listed(d)
       PROVE  /\ rtp'[q] = rtp[q] /\ rtp[q].sched_id # id
              /\ Scheduled(q)' /\ rtp'[q].hndRtp # "closed"
  <2>1. Scheduled(q) /\ rtp[q].hndRtp # "closed"
    BY <1>3, AtRest
  <2>2. rtp'[q] = rtp[q]
    BY <1>11, <1>12
  <2>3. sched[rtp[q].sched_id].valid
    BY <2>1 DEF Scheduled
  <2> QED BY <1>5, <1>7, <2>1, <2>2, <2>3, Zenon DEF Scheduled
<1>14. Single' /\ Apart' /\ Member'
  <2>1. Single'
    <3>1. Len(<<r>>) <= 1
      OBVIOUS
    <3> QED BY <1>8, <1>9, <3>1, Zenon DEF Order, Single
  <2>2. Apart'
    BY <1>10, <1>11 DEF Order, Apart
  <2>3. Member'
    BY <1>2, <1>3, <1>9, Zenon DEF Order, Member, Connected
  <2> QED BY <2>1, <2>2, <2>3
<1>15. Added'
  BY <1>6, <1>7, <1>10, <1>12, <1>13, Zenon DEF Added
<1>16. Handled'
  BY <1>6, Zenon DEF Handled
<1>17. Booked'
  BY <1>6, <1>10, <1>13, Zenon DEF Booked
<1>18. Backed'
  <2>1. ASSUME NEW i \in Ids, sched'[i].valid, i # id
        PROVE  rtp'[sched'[i].rtp_session].sched_id = i /\ Held(i)'
    <3>1. sched'[i] = sched[i]
      BY <1>7, <2>1
    <3>2. rtp[sched[i].rtp_session].sched_id = i
      BY <1>3, <2>1, <3>1, AtRest
    <3>3. PICK d \in Clients : sched[i].rtp_session \in Listed(d)
      BY <1>3, <2>1, <3>1, AtRest
    <3>4. d # c
      BY <1>4, <3>3
    <3>5. \A e : ~Released(e)'
      BY <1>6, Zenon DEF Released
    <3> QED BY <1>10, <1>13, <3>1, <3>2, <3>3, <3>4, <3>5, Zenon DEF Held
  <2> QED BY <1>6, <2>1, Zenon DEF Backed, Adding
<1>19. Paused'
  <2>1. \A d \in Clients \ {c} : Plays(d) => Plays(d)'
    BY <1>3, <1>8, Zenon DEF Plays
  <2>2. ASSUME NEW d \in Clients, NEW q \in Listed(d)', ~rtp'[q].pause
        PROVE  Plays(d)'
    <3>1. d # c
      BY <1>10, <1>12, <2>2
    <3>2. q \in Listed(d)
      BY <1>10, <2>2, <3>1
    <3>3. ~rtp[q].pause
      BY <1>13, <2>2, <3>1, <3>2
    <3> QED BY <2>1, <3>1, <3>2, <3>3, Zenon DEF Order, Paused
  <2> QED BY <2>2, Zenon DEF Paused
<1>20. Faultless'
  BY <1>2, <1>3, Zenon DEF Faultless
<1> QED BY <1>14, <1>15, <1>16, <1>17, <1>18, <1>19, <1>20 DEF Order

-----------------------------------------------------------------------------

(* Nothing is listed when the server starts.                               *)
LEMMA OrderInit == Init => Order
<1> SUFFICES ASSUME Init PROVE Order
  OBVIOUS
<1>1. \A c \in Clients : ~HasSession(c) /\ Listed(c) = {}
  BY DEF Init, HasSession, Listed
<1>2. \A i \in Ids : ~sched[i].valid
  BY DEF Init
<1>3. main.pc = "idle" /\ fault = "none"
  BY DEF Init, Idle
<1>4. Single /\ Apart /\ Member
  BY <1>1 DEF Single, Apart, Member
<1>5. Added /\ Handled /\ Faultless
  BY <1>3, Zenon DEF Added, Handled, Faultless
<1>6. Booked /\ Backed /\ Paused
  BY <1>1, <1>2 DEF Booked, Backed, Paused
<1> QED BY <1>4, <1>5, <1>6 DEF Order

(* A client's second SETUP, and one that fails, end the orderly time.      *)
LEMMA OrderlyStep ==
  ASSUME Typed, [Next]_vars, orderly'
  PROVE  /\ orderly
         /\ \A c \in Clients :
              /\ ~SetupUnsupported(c) /\ ~SetupNoPort(c)
              /\ Setup(c) => session[c].rtp_session = <<>>
<1>1. ASSUME NEW c \in Clients, Accept(c) \/ Close(c) \/ Request(c)
      PROVE  orderly
  <2>1. CASE Setup(c)
    BY <2>1, Zenon DEF Setup
  <2>2. ~SetupUnsupported(c) /\ ~SetupNoPort(c)
    BY Zenon DEF SetupUnsupported, SetupNoPort
  <2>3. CASE Accept(c) \/ Close(c) \/ Options(c) \/ SetupRefused(c)
               \/ PlayRefused(c) \/ Play(c) \/ Teardown(c)
    BY <2>3, Zenon DEF Accept, Close, Options, SetupRefused, PlayRefused,
       Play, Teardown
  <2> QED BY <1>1, <2>1, <2>2, <2>3, Zenon DEF Request
<1>2. ASSUME MainStep PROVE orderly
  BY <1>2, Zenon DEF MainStep, SetupFinish, PlayNext, PlayFinish, DeleteRtp,
     RemoveRtp, TeardownFinish, CloseFinish
<1>3. ASSUME SenderStep PROVE orderly
  BY <1>3, Zenon DEF SenderStep, SenderCheck, SenderPause,
     SenderHandle, SenderCall, SenderReturn
<1>4. ASSUME UNCHANGED vars PROVE orderly
  BY <1>4, Zenon DEF vars
<1>5. ASSUME NEW c \in Clients
      PROVE  /\ ~SetupUnsupported(c) /\ ~SetupNoPort(c)
             /\ Setup(c) => session[c].rtp_session = <<>>
  BY Zenon DEF SetupUnsupported, SetupNoPort, Setup
<1> QED BY <1>1, <1>2, <1>3, <1>4, <1>5, Zenon DEF Next

(* While it lasts, every step keeps the table and the lists in order.      *)
LEMMA OrderStep ==
  ASSUME Inv, orderly => Order, [Next]_vars
  PROVE  (orderly => Order)'
<1> SUFFICES ASSUME orderly' PROVE Order'
  OBVIOUS
<1>1. Typed
  BY TypedIsTypeOK DEF Inv
<1>2. /\ Order
      /\ \A c \in Clients :
           /\ ~SetupUnsupported(c) /\ ~SetupNoPort(c)
           /\ Setup(c) => session[c].rtp_session = <<>>
  BY <1>1, OrderlyStep
<1>3. ASSUME NEW c \in Clients, Accept(c) \/ Close(c) PROVE Order'
  BY <1>1, <1>2, <1>3, OrderAccept, OrderCloseFreed, OrderStarts
<1>4. ASSUME NEW c \in Clients, Request(c) PROVE Order'
  <2>1. CASE Options(c) \/ SetupRefused(c) \/ PlayRefused(c)
    BY <1>1, <1>2, <2>1, OrderStates
  <2>2. CASE Play(c) \/ Teardown(c)
    BY <1>1, <1>2, <2>2, OrderStarts
  <2>3. CASE Setup(c)
    BY <1>1, <1>2, <2>3, OrderSetup
  <2> QED BY <1>2, <1>4, <2>1, <2>2, <2>3, Zenon DEF Request
<1>5. CASE MainStep
  BY <1>1, <1>2, <1>5, OrderSetupFinish, OrderPlayNext, OrderPlayFinish,
     OrderDeleteRtp, OrderRemoveRtp, OrderFinishes, Zenon DEF MainStep
<1>6. CASE SenderStep
  BY <1>1, <1>2, <1>6, OrderSender
<1>7. CASE UNCHANGED vars
  <2>1. UNCHANGED <<clients, session, rtp, sched, main, fault>>
    BY <1>7, Zenon DEF vars, tables
  <2>2. Faultless'
    BY <1>2, <2>1, Zenon DEF Order, Faultless
  <2> QED BY <1>2, <2>1, <2>2, OrderSame
<1> QED BY <1>3, <1>4, <1>5, <1>6, <1>7, Zenon DEF Next

(* The inductive invariant holds in every state.                           *)
LEMMA OrderAlways == Spec => [](Inv /\ (orderly => Order))
<1>1. Init => Inv /\ (orderly => Order)
  BY InitInv, OrderInit
<1>2. (Inv /\ (orderly => Order)) /\ [Next]_vars
        => (Inv /\ (orderly => Order))'
  <2>1. Inv /\ [Next]_vars => Inv'
    BY TypeStep, ConnStep, SlotStep, AllocatedStep, WorkStep, Zenon DEF Inv
  <2> QED BY <2>1, OrderStep
<1> QED BY <1>1, <1>2, PTL DEF Spec

(* While every client sets up one stream at most, the scheduler table and  *)
(* the clients' lists agree whenever no handler is at work on them.        *)
THEOREM ScheduleAgrees == Spec => []OrderlySchedule
<1>1. Order => OrderlySchedule
  <2> SUFFICES ASSUME Order PROVE OrderlySchedule
    OBVIOUS
  <2>1. ASSUME NEW c \in Clients, ~AtWorkOn(c), NEW r \in Listed(c)
        PROVE  Scheduled(r) /\ rtp[r].hndRtp # "closed"
    BY <2>1, Zenon DEF Order, Booked, Released, Removing, AtWorkOn
  <2>2. ASSUME NEW i \in Ids, sched[i].valid, ~Adding(i)
        PROVE  \E c \in Connected : sched[i].rtp_session \in Listed(c)
    <3>1. PICK c \in Clients : sched[i].rtp_session \in Listed(c)
      BY <2>2, Zenon DEF Order, Backed, Held
    <3>2. c \in Connected
      BY <3>1, Lister DEF Order, Member
    <3> QED BY <3>1, <3>2
  <2> QED BY <2>1, <2>2, Zenon DEF OrderlySchedule
<1>2. (orderly => Order) => OrderlySchedule
  BY <1>1, Zenon DEF OrderlySchedule
<1> QED BY <1>2, OrderAlways, PTL

(* While every client sets up one stream at most, a session that is        *)
(* streamed is that of a client that plays, or whose PLAY is being served. *)
THEOREM StreamsPlayed == Spec => []OrderlyStreams
<1>1. (orderly => Order) => OrderlyStreams
  BY Zenon DEF Order, Backed, Held, Paused, OrderlyStreams,
     StreamedOnlyToPlayers, Streamed
<1> QED BY <1>1, OrderAlways, PTL

(* While every client sets up one stream at most, schedule_start and       *)
(* schedule_remove stay within the table, and a NULL session is read only  *)
(* while schedule_add is at work.                                          *)
THEOREM OrderlyInTable == Spec => []OrderlyFaults
<1>1. (orderly => Order) => OrderlyFaults
  BY Zenon DEF Order, Faultless, OrderlyFaults
<1> QED BY <1>1, OrderAlways, PTL

=============================================================================
