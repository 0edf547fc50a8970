---------------------------- MODULE HpRtspProofs -----------------------------
(***************************************************************************)
(* What is proved of hp-ipc's RTSP server for any number of connections    *)
(* and descriptors.                                                        *)
(***************************************************************************)
EXTENDS HpRtsp, FiniteSetTheorems, WellFoundedInduction, TLAPS

(* The descriptor accept returned is the newest connection's until another *)
(* thread closes that number, and then no connection's.                    *)
Handed ==
  listener.pc \in {"reset", "fill"} =>
    FileOf(listener.fd) \in {accepted, NoFile, Udp}

RtspInv == RtspTypeOK /\ Handed /\ NewestOnly

(* With clients that come one after the other, number 1 is the connection  *)
(* or free, and what is above it a stream or free; the stream's number is  *)
(* not 1.                                                                  *)
Table ==
  /\ fdt[0] = Stdin /\ fdt[1] \in {NoFile, accepted}
  /\ \A f \in Fds \ {0, 1} : fdt[f] \in {NoFile, Udp}
  /\ udpfd # 1

(* The listener has a connection in hand only when no thread is alive.     *)
Handing ==
  /\ listener.pc \in {"reset", "fill"} => listener.fd = 1 /\ fdt[1] = accepted
  /\ listener.pc = "fill" => slot.port = 0
  /\ (listener.pc = "accept" /\ \A c \in Conns : ~Alive(c)) => fdt[1] = NoFile
  /\ listener.pc # "exited"

(* The thread that is alive is the newest, and has the slot until it has   *)
(* closed its connection.                                                  *)
Holds(c) ==
  /\ c = accepted /\ listener.pc = "accept"
  /\ IF thread[c].pc = "loop" /\ slot.status = "IDLE" THEN fdt[1] = NoFile
     ELSE slot.socket = 1 /\ fdt[1] = c /\ slot.owner = c
  /\ thread[c].pc = "recv" => thread[c].file = c
  /\ thread[c].pc \in {"recv", "play", "down"} => slot.status # "IDLE"
  /\ thread[c].pc \in {"close", "break"} => slot.status = "IDLE"

OneClient ==
  /\ Table /\ Handing
  /\ \A c \in Conns : Alive(c) => Holds(c)
  /\ slot.port \in {0, slot.owner}

(* With tidy clients as well, the only stream open is that of a client     *)
(* that plays.                                                             *)
Playing(c) ==
  \/ thread[c].pc \in {"loop", "recv"} /\ slot.status = "SENDING"
  \/ thread[c].pc = "play"
OneStream ==
  \A f \in Fds : fdt[f] = Udp => f = udpfd /\ \E c \in Conns : Playing(c)

OrderlyInv ==
  /\ RtspTypeOK
  /\ Orderly => OneClient
  /\ disorder = {} => OneStream

(* What the variables of RtspTypeOK range over.                            *)
Slots == [socket : Fds, status : {"IDLE", "CONNECTED", "SENDING"},
          port : 0 .. MaxConns, owner : 0 .. MaxConns]
Threads == [pc : {"none", "loop", "recv", "play", "down", "close", "break",
                  "done"}, file : Files]
Listeners == [pc : {"accept", "reset", "fill", "exited"}, fd : Fds]

-----------------------------------------------------------------------------

(* When a descriptor is free, LowestFree is one: a set of numbers has a    *)
(* least member.                                                           *)
LEMMA LowestIsFree ==
  ASSUME FreeFds # {}
  PROVE  LowestFree \in Fds /\ fdt[LowestFree] = NoFile
<1> DEFINE less == {ss \in Nat \X Nat : ss[1] < ss[2]}
<1>1. FreeFds \subseteq Nat
  <2>1. Fds \subseteq Nat
    BY RtspAssumption DEF Fds
  <2> QED BY <2>1 DEF FreeFds
<1>2. IsWellFoundedOn(less, Nat)
  BY NatLessThanWellFounded DEF OpToRel
<1>3. \A x, y \in Nat : <<y, x>> \notin less => x <= y
  OBVIOUS
<1> HIDE DEF less
<1>4. \E x \in FreeFds : \A y \in FreeFds : <<y, x>> \notin less
  BY <1>1, <1>2, WFMin, Zenon
<1>5. \E x \in FreeFds : \A y \in FreeFds : x <= y
  BY <1>1, <1>3, <1>4
<1>6. LowestFree \in FreeFds
  BY <1>5, Zenon DEF LowestFree
<1> QED BY <1>6, Zenon DEF FreeFds

(* A file that is opened takes a descriptor that was free.                 *)
LEMMA Opened ==
  ASSUME RtspTypeOK, FreeFds # {}, NEW x \in Files,
         fdt' = [fdt EXCEPT ![LowestFree] = x]
  PROVE  /\ fdt' \in [Fds -> Files]
         /\ fdt'[LowestFree] = x
         /\ \A g \in Fds \ {LowestFree} : fdt'[g] = fdt[g]
<1>1. LowestFree \in Fds
  BY LowestIsFree
<1>2. fdt \in [Fds -> Files]
  BY DEF RtspTypeOK
<1> HIDE DEF LowestFree
<1> QED BY <1>1, <1>2

(* Closing a number, open or not, touches no other.                        *)
LEMMA ClosedOne ==
  ASSUME RtspTypeOK, NEW fd, fdt' = Closed(fd)
  PROVE  /\ fdt' \in [Fds -> Files]
         /\ \A g \in Fds : fdt'[g] \in {fdt[g], NoFile}
<1>1. fdt \in [Fds -> Files] /\ NoFile \in Files
  BY DEF RtspTypeOK, Files
<1> QED BY <1>1 DEF Closed

(* What a client's thread may do without disturbing the newest one: open a *)
(* stream, close anything.                                                 *)
LEMMA Undisturbed ==
  ASSUME RtspInv, RtspTypeOK',
         \A g \in Fds : fdt'[g] \in {fdt[g], NoFile, Udp},
         UNCHANGED <<listener, accepted>>, slot'.socket = slot.socket
  PROVE  Handed' /\ NewestOnly'
<1>1. \A g \in Fds : FileOf(g)' \in {FileOf(g), NoFile, Udp}
  BY DEF FileOf
<1>2. slot.socket \in Fds /\ listener.fd \in Fds
  BY Zenon DEF RtspInv, RtspTypeOK
<1>3. FileOf(slot.socket)' \in {FileOf(slot.socket), NoFile, Udp}
  BY <1>2 DEF FileOf
<1>4. FileOf(listener.fd)' \in {FileOf(listener.fd), NoFile, Udp}
  BY <1>2 DEF FileOf
<1>5. Handed'
  BY <1>4 DEF RtspInv, Handed
<1>6. NewestOnly'
  BY <1>3 DEF RtspInv, NewestOnly
<1> QED BY <1>5, <1>6

-----------------------------------------------------------------------------

(* Type correctness, a step at a time: each of the variables that a step   *)
(* changes keeps its type.                                                 *)
LEMMA TypeListener ==
  ASSUME RtspTypeOK, Accept \/ Reset \/ Fill
  PROVE  RtspTypeOK'
<1> USE RtspAssumption
<1>1. /\ fdt \in [Fds -> Files] /\ slot \in Slots /\ listener \in Listeners
      /\ thread \in [Conns -> Threads] /\ accepted \in 0 .. MaxConns
  BY DEF RtspTypeOK, Slots, Threads, Listeners
<1>2. CASE Accept
  <2>1. CASE FreeFds = {}
    <3>1. listener' \in Listeners
      BY <1>1, <1>2, <2>1 DEF Accept, Listeners
    <3>2. disorder' \subseteq {"takeover", "early teardown", "leak", "no thread"}
      BY <1>2, Zenon DEF RtspTypeOK, Accept, Disorder
    <3> QED BY <1>2, <2>1, <3>1, <3>2, Zenon DEF RtspTypeOK, Accept, Listeners
  <2>2. CASE FreeFds # {}
    <3>1. accepted + 1 \in Conns /\ accepted' = accepted + 1
      BY <1>1, <1>2, <2>2 DEF Accept, Conns
    <3>2. accepted' \in 0 .. MaxConns
      BY <3>1 DEF Conns
    <3>3. accepted + 1 \in Files
      BY <3>1, Zenon DEF Files
    <3>4. fdt' = [fdt EXCEPT ![LowestFree] = accepted + 1]
      BY <1>2, <2>2, Zenon DEF Accept
    <3>5. fdt' \in [Fds -> Files]
      BY <2>2, <3>3, <3>4, Opened
    <3>6. listener' = [pc |-> "reset", fd |-> LowestFree]
      BY <1>2, <2>2, Zenon DEF Accept
    <3>7. LowestFree \in Fds
      BY <2>2, LowestIsFree
    <3>8. listener' \in Listeners
      BY <3>6, <3>7 DEF Listeners
    <3>9. disorder' \subseteq {"takeover", "early teardown", "leak", "no thread"}
      BY <1>2, Zenon DEF RtspTypeOK, Accept, Disorder
    <3> QED BY <1>2, <3>2, <3>5, <3>8, <3>9, Zenon DEF RtspTypeOK, Accept, Listeners
  <2> QED BY <2>1, <2>2
<1>3. CASE Reset
  <2>1. slot' \in Slots
    BY <1>3 DEF Reset, EmptySlot, Slots, Fds
  <2>2. listener' \in Listeners
    BY <1>1, <1>3 DEF Reset, Listeners
  <2> QED BY <1>3, <2>1, <2>2, Zenon DEF RtspTypeOK, Reset, Slots, Listeners
<1>4. CASE Fill
  <2>1. slot' \in Slots
    BY <1>1, <1>4 DEF Fill, Slots, Listeners
  <2>2. thread' \in [Conns -> Threads]
    <3>1. Goto(accepted, "loop") \/ thread' = thread
      BY <1>4, Zenon DEF Fill
    <3> QED BY <1>1, <3>1 DEF Goto, Threads
  <2>3. listener' \in Listeners
    <3>1. listener' = [pc |-> "accept", fd |-> 0]
      BY <1>4, Zenon DEF Fill
    <3> QED BY <3>1 DEF Listeners, Fds
  <2>4. disorder' \subseteq {"takeover", "early teardown", "leak", "no thread"}
    BY <1>4, Zenon DEF RtspTypeOK, Fill
  <2> QED
    BY <1>4, <2>1, <2>2, <2>3, <2>4, Zenon DEF RtspTypeOK, Fill, Slots, Threads, Listeners
<1> QED BY <1>2, <1>3, <1>4

(* A step of a client thread keeps the types. *)
LEMMA TypeThread ==
  ASSUME RtspTypeOK, NEW c \in Conns, ClientThread(c)
  PROVE  RtspTypeOK'
<1> USE RtspAssumption
<1>1. /\ fdt \in [Fds -> Files] /\ slot \in Slots
      /\ thread \in [Conns -> Threads] /\ udpfd \in Fds \cup {-1}
  BY DEF RtspTypeOK, Slots, Threads
<1>2. Udp \in Files /\ NoFile \in Files
  BY DEF Files
<1>3. \A pc \in {"loop", "play", "down", "close", "break", "done"} :
        Goto(c, pc) => thread' \in [Conns -> Threads]
  BY <1>1 DEF Goto, Threads
<1>4. CASE Loop(c)
  <2>1. FileOf(slot.socket) \in Files
    BY <1>1, <1>2 DEF FileOf, Slots
  <2>2. thread' \in [Conns -> Threads]
    BY <1>1, <1>2, <1>4, <2>1 DEF Loop, Threads
  <2> QED BY <1>4, <2>2, Zenon DEF RtspTypeOK, Loop, Threads
<1>5. CASE Query(c)
  <2>1. thread' \in [Conns -> Threads]
    BY <1>3, <1>5, Zenon DEF Query
  <2> QED BY <1>5, <2>1, Zenon DEF RtspTypeOK, Query, Threads
<1>6. CASE Setup(c)
  <2>1. thread' \in [Conns -> Threads]
    BY <1>3, <1>6, Zenon DEF Setup
  <2>2. \E q \in 0 .. MaxConns : slot' = [slot EXCEPT !.port = q]
    <3>1. slot.port \in 0 .. MaxConns /\ Conns \subseteq 0 .. MaxConns
      BY <1>1 DEF Slots, Conns
    <3> QED BY <1>6, <3>1, Zenon DEF Setup
  <2>3. slot' \in Slots
    BY <1>1, <2>2 DEF Slots
  <2> QED BY <1>6, <2>1, <2>3, Zenon DEF RtspTypeOK, Setup, Threads, Slots
<1>7. CASE PlayAnswer(c)
  <2>1. thread' \in [Conns -> Threads]
    BY <1>3, <1>7, Zenon DEF PlayAnswer
  <2>2. CASE UNCHANGED <<fdt, udpfd>>
    BY <1>7, <2>1, <2>2, Zenon DEF RtspTypeOK, PlayAnswer, Threads, Disorder
  <2>3. CASE udpfd' = -1 /\ UNCHANGED fdt
    BY <1>7, <2>1, <2>3, Zenon DEF RtspTypeOK, PlayAnswer, Threads, Disorder
  <2>4. CASE /\ FreeFds # {} /\ udpfd' = LowestFree
             /\ fdt' = [fdt EXCEPT ![LowestFree] = Udp]
    <3>1. LowestFree \in Fds
      BY <2>4, LowestIsFree
    <3>2. fdt' \in [Fds -> Files]
      BY <1>2, <2>4, Opened
    <3> QED BY <1>7, <2>1, <2>4, <3>1, <3>2, Zenon DEF RtspTypeOK, PlayAnswer, Threads, Disorder
  <2> QED BY <1>7, <2>2, <2>3, <2>4, Zenon DEF PlayAnswer
<1>8. CASE Play(c)
  <2>1. thread' \in [Conns -> Threads]
    BY <1>3, <1>8, Zenon DEF Play
  <2>2. slot' \in Slots
    BY <1>1, <1>8 DEF Play, Slots
  <2> QED BY <1>8, <2>1, <2>2, Zenon DEF RtspTypeOK, Play, Threads, Slots
<1>9. CASE TeardownAnswer(c)
  <2>1. thread' \in [Conns -> Threads]
    BY <1>3, <1>9, Zenon DEF TeardownAnswer
  <2>2. fdt' = Closed(udpfd) \/ fdt' = fdt
    BY <1>9, Zenon DEF TeardownAnswer
  <2>3. fdt' \in [Fds -> Files]
    BY <1>1, <2>2, ClosedOne
  <2>4. disorder' \subseteq {"takeover", "early teardown", "leak", "no thread"}
    BY <1>9, Zenon DEF RtspTypeOK, TeardownAnswer, Disorder
  <2> QED BY <1>9, <2>1, <2>3, <2>4, Zenon DEF RtspTypeOK, TeardownAnswer, Threads
<1>12. CASE Teardown(c)
  <2>1. thread' \in [Conns -> Threads]
    BY <1>3, <1>12, Zenon DEF Teardown
  <2>2. slot' \in Slots
    BY <1>1, <1>12 DEF Teardown, Slots
  <2> QED BY <1>12, <2>1, <2>2, Zenon DEF RtspTypeOK, Teardown, Threads, Slots
<1>10. CASE RecvFails(c)
  <2>1. thread' \in [Conns -> Threads]
    BY <1>3, <1>10, Zenon DEF RecvFails
  <2>2. slot' \in Slots
    BY <1>1, <1>10 DEF RecvFails, Slots
  <2> QED BY <1>10, <2>1, <2>2, Zenon DEF RtspTypeOK, RecvFails, Threads, Slots, Disorder
<1>11. CASE Close(c)
  <2>1. thread' \in [Conns -> Threads]
    BY <1>1, <1>2, <1>11 DEF Close, Threads
  <2>2. fdt' \in [Fds -> Files]
    BY <1>11, ClosedOne DEF Close
  <2> QED BY <1>11, <2>1, <2>2, Zenon DEF RtspTypeOK, Close, Threads
<1> QED BY <1>4, <1>5, <1>6, <1>7, <1>8, <1>9, <1>10, <1>11, <1>12, Zenon DEF ClientThread

-----------------------------------------------------------------------------

(* The listener moves the slot on to the newest connection, with the one   *)
(* before in between; the descriptor it got was free.                      *)
LEMMA NewestListener ==
  ASSUME RtspInv, RtspTypeOK', Accept \/ Reset \/ Fill
  PROVE  Handed' /\ NewestOnly'
<1>1. /\ slot.socket \in Fds /\ listener.fd \in Fds /\ accepted \in Nat
      /\ listener.pc = "accept" /\ slot.socket # 0 =>
           FileOf(slot.socket) \in {accepted, NoFile, Udp}
      /\ Handed
  <2>1. slot \in Slots /\ listener \in Listeners /\ accepted \in 0 .. MaxConns
    BY Zenon DEF RtspInv, RtspTypeOK, Slots, Listeners
  <2>2. slot.socket \in Fds /\ listener.fd \in Fds /\ accepted \in Nat
    BY <2>1, RtspAssumption DEF Slots, Listeners
  <2>3. listener.pc = "accept" => listener.pc # "reset"
    OBVIOUS
  <2> QED BY <2>2, <2>3, Zenon DEF RtspInv, NewestOnly
<1>2. CASE Accept
  <2>1. CASE FreeFds = {}
    <3>1. /\ UNCHANGED <<fdt, accepted, slot>> /\ listener'.pc = "exited"
          /\ listener.pc = "accept"
      BY <1>1, <1>2, <2>1 DEF Accept, RtspInv, RtspTypeOK
    <3>2. FileOf(slot.socket)' = FileOf(slot.socket)
      BY <3>1, Zenon DEF FileOf
    <3>3. NewestOnly'
      BY <1>1, <3>1, <3>2, Zenon DEF NewestOnly
    <3>4. Handed'
      BY <3>1 DEF Handed
    <3> QED BY <3>3, <3>4
  <2>2. CASE FreeFds # {}
    <3>1. /\ accepted' = accepted + 1 /\ slot' = slot
          /\ listener' = [pc |-> "reset", fd |-> LowestFree]
          /\ fdt' = [fdt EXCEPT ![LowestFree] = accepted + 1]
          /\ listener.pc = "accept" /\ accepted < MaxConns
      BY <1>2, <2>2, Zenon DEF Accept
    <3>2. accepted + 1 \in Files
      BY <1>1, <3>1, RtspAssumption DEF Files, Conns
    <3>3. /\ fdt'[LowestFree] = accepted'
          /\ \A g \in Fds \ {LowestFree} : fdt'[g] = fdt[g]
      BY <2>2, <3>1, <3>2, Opened DEF RtspInv
    <3>4. LowestFree \in Fds
      BY <2>2, LowestIsFree
    <3>5. FileOf(listener.fd)' = accepted'
      BY <3>1, <3>3, <3>4 DEF FileOf
    <3>6. Handed'
      BY <3>5, Zenon DEF Handed
    <3>7. slot.socket # 0 => FileOf(slot.socket)' \in {accepted', accepted, NoFile, Udp}
      BY <1>1, <3>1, <3>3, <3>4 DEF FileOf
    <3>8. listener'.pc = "reset" /\ accepted' - 1 = accepted
      BY <1>1, <3>1
    <3>9. NewestOnly'
      BY <3>1, <3>7, <3>8, Zenon DEF NewestOnly
    <3> QED BY <3>6, <3>9
  <2> QED BY <2>1, <2>2
<1>3. CASE Reset
  <2>1. /\ slot'.socket = 0 /\ listener.pc = "reset" /\ listener'.fd = listener.fd
        /\ UNCHANGED <<fdt, accepted>>
    BY <1>3 DEF Reset, EmptySlot, RtspInv, RtspTypeOK
  <2>2. FileOf(listener.fd)' = FileOf(listener.fd)
    BY <2>1, Zenon DEF FileOf
  <2> QED BY <1>1, <2>1, <2>2, Zenon DEF Handed, NewestOnly
<1>4. CASE Fill
  <2>1. /\ slot'.socket = listener.fd /\ listener.pc = "fill"
        /\ listener'.pc = "accept" /\ UNCHANGED <<fdt, accepted>>
    BY <1>4 DEF Fill, RtspInv, RtspTypeOK
  <2>2. FileOf(slot.socket)' = FileOf(listener.fd)
    BY <2>1, Zenon DEF FileOf
  <2>3. NewestOnly'
    BY <1>1, <2>1, <2>2, Zenon DEF Handed, NewestOnly
  <2>4. Handed'
    BY <2>1 DEF Handed
  <2> QED BY <2>3, <2>4
<1> QED BY <1>2, <1>3, <1>4

(* A client's thread opens a stream or closes a number; the socket of the  *)
(* slot is the listener's to set.                                          *)
LEMMA NewestThread ==
  ASSUME RtspInv, RtspTypeOK', NEW c \in Conns, ClientThread(c)
  PROVE  Handed' /\ NewestOnly'
<1>1. UNCHANGED <<listener, accepted>>
  BY Zenon DEF ClientThread, Loop, Query, Setup, PlayAnswer, Play, TeardownAnswer, Teardown,
     RecvFails, Close
<1>2. slot'.socket = slot.socket
  <2>1. slot \in Slots
    BY DEF RtspInv, RtspTypeOK, Slots
  <2>2. \/ slot' = slot
        \/ \E q \in 0 .. MaxConns : slot' = [slot EXCEPT !.port = q]
        \/ \E st \in {"IDLE", "SENDING"} : slot' = [slot EXCEPT !.status = st]
    <3>1. CASE Setup(c)
      BY <2>1, <3>1 DEF Setup, Conns, Slots
    <3>2. CASE Loop(c) \/ Query(c) \/ PlayAnswer(c) \/ TeardownAnswer(c) \/ Close(c)
      BY <3>2, Zenon DEF Loop, Query, PlayAnswer, TeardownAnswer, Close
    <3>3. CASE Play(c) \/ Teardown(c) \/ RecvFails(c)
      BY <3>3, Zenon DEF Play, Teardown, RecvFails
    <3> QED BY <3>1, <3>2, <3>3, Zenon DEF ClientThread
  <2> QED BY <2>1, <2>2 DEF Slots
<1>3. \A g \in Fds : fdt'[g] \in {fdt[g], NoFile, Udp}
  <2>1. CASE fdt' = fdt
    BY <2>1
  <2>2. CASE \E fd : fdt' = Closed(fd)
    BY <2>2, ClosedOne DEF RtspInv
  <2>3. CASE FreeFds # {} /\ fdt' = [fdt EXCEPT ![LowestFree] = Udp]
    <3>1. \A g \in Fds : g = LowestFree \/ fdt'[g] = fdt[g]
      BY <2>3, Opened DEF RtspInv, Files
    <3>2. fdt'[LowestFree] = Udp
      BY <2>3, Opened DEF RtspInv, Files
    <3> QED BY <3>1, <3>2
  <2>4. CASE PlayAnswer(c)
    BY <2>1, <2>3, <2>4, Zenon DEF PlayAnswer
  <2>5. CASE TeardownAnswer(c)
    BY <2>1, <2>2, <2>5, Zenon DEF TeardownAnswer
  <2>6. CASE Close(c)
    BY <2>2, <2>6, Zenon DEF Close
  <2>7. CASE Loop(c) \/ Query(c) \/ Setup(c) \/ Play(c) \/ Teardown(c) \/ RecvFails(c)
    BY <2>1, <2>7, Zenon DEF Loop, Query, Setup, Play, Teardown, RecvFails
  <2> QED BY <2>4, <2>5, <2>6, <2>7, Zenon DEF ClientThread
<1> QED BY <1>1, <1>2, <1>3, Undisturbed

-----------------------------------------------------------------------------

(* Before the listener runs nobody has been accepted: the invariant holds. *)
LEMMA RtspInvInit ==
  ASSUME RtspInit
  PROVE  RtspInv
<1> USE RtspAssumption
<1>1. 0 \in Fds /\ NoFile \in Files /\ Stdin \in Files /\ NoFile = 0
  BY DEF Fds, Files, NoFile
<1>2. slot \in Slots /\ thread \in [Conns -> Threads] /\ listener \in Listeners
  BY <1>1 DEF RtspInit, Slots, Threads, Listeners, EmptySlot
<1>3. fdt \in [Fds -> Files]
  BY <1>1 DEF RtspInit
<1>4. accepted \in 0 .. MaxConns /\ udpfd \in Fds /\ disorder = {}
  BY <1>1 DEF RtspInit
<1>5. RtspTypeOK
  BY <1>2, <1>3, <1>4, Zenon DEF RtspTypeOK, Slots, Threads, Listeners
<1>6. slot.socket = 0 /\ listener.pc = "accept"
  BY DEF RtspInit, EmptySlot
<1> QED BY <1>5, <1>6 DEF RtspInv, Handed, NewestOnly

(* Every step keeps RtspInv: the listener moves the slot on, the threads do *)
(* not move it back.                                                       *)
LEMMA RtspInvNext ==
  ASSUME RtspInv, [RtspNext]_rtspVars
  PROVE  RtspInv'
<1>1. CASE Accept \/ Reset \/ Fill
  BY <1>1, TypeListener, NewestListener, Zenon DEF RtspInv
<1>2. CASE \E c \in Conns : ClientThread(c)
  <2>1. PICK c \in Conns : ClientThread(c)
    BY <1>2
  <2> QED BY <2>1, TypeThread, NewestThread, Zenon DEF RtspInv
<1>3. CASE UNCHANGED rtspVars
  <2>1. RtspTypeOK'
    BY <1>3, Zenon DEF rtspVars, RtspInv, RtspTypeOK
  <2>2. Handed'
    BY <1>3, Zenon DEF rtspVars, RtspInv, Handed, FileOf
  <2>3. NewestOnly'
    BY <1>3, Zenon DEF rtspVars, RtspInv, NewestOnly, FileOf
  <2> QED BY <2>1, <2>2, <2>3, Zenon DEF RtspInv
<1> QED BY <1>1, <1>2, <1>3, Zenon DEF RtspNext

(* Every variable of the server keeps its type.                            *)
THEOREM RtspTypes == RtspSpec => []RtspTypeOK
<1>1. RtspInv => RtspTypeOK
  BY DEF RtspInv
<1> QED BY <1>1, RtspInvInit, RtspInvNext, PTL DEF RtspSpec

(* Whatever the threads do to the slot they share without a lock, no       *)
(* answer goes out on the connection of an earlier client (SendAnswer and  *)
(* its callers in rtsp_server.c).                                          *)
THEOREM NewestServed == RtspSpec => []NewestOnly
<1>1. RtspInv => NewestOnly
  BY DEF RtspInv
<1> QED BY <1>1, RtspInvInit, RtspInvNext, PTL DEF RtspSpec

-----------------------------------------------------------------------------

(* The types by name.                                                      *)
LEMMA Typed ==
  ASSUME RtspTypeOK
  PROVE  /\ fdt \in [Fds -> Files] /\ slot \in Slots
         /\ udpfd \in Fds \cup {-1} /\ thread \in [Conns -> Threads]
         /\ accepted \in 0 .. MaxConns /\ listener \in Listeners
  BY Zenon DEF RtspTypeOK, Slots, Threads, Listeners

(* Clients do not become orderly again, nor tidy.                          *)
LEMMA DisorderGrows ==
  ASSUME RtspNext
  PROVE  disorder \subseteq disorder'
<1>1. Accept => disorder \subseteq disorder'
  BY Zenon DEF Accept, Disorder
<1>2. Reset \/ Fill => disorder \subseteq disorder'
  BY Zenon DEF Reset, Fill
<1>3. \A c \in Conns : ClientThread(c) => disorder \subseteq disorder'
  <2> TAKE c \in Conns
  <2>1. Loop(c) \/ Query(c) \/ Setup(c) \/ Play(c) \/ Teardown(c) \/ Close(c)
          => disorder' = disorder
    BY Zenon DEF Loop, Query, Setup, Play, Teardown, Close
  <2>2. PlayAnswer(c) \/ RecvFails(c) => disorder \subseteq disorder'
    BY Zenon DEF PlayAnswer, RecvFails, Disorder
  <2>3. TeardownAnswer(c) => disorder \subseteq disorder'
    BY Zenon DEF TeardownAnswer, Disorder
  <2> QED BY <2>1, <2>2, <2>3, Zenon DEF ClientThread
<1> QED BY <1>1, <1>2, <1>3, Zenon DEF RtspNext

(* When 1 is free it is what is opened next; when it is not, it stays      *)
(* what it is.                                                             *)
LEMMA NextNumber ==
  ASSUME RtspTypeOK, Table
  PROVE  /\ 1 \in Fds
         /\ fdt[1] = NoFile => FreeFds # {} /\ LowestFree = 1
         /\ (fdt[1] # NoFile /\ FreeFds # {}) => LowestFree \in Fds \ {0, 1}
<1> USE RtspAssumption
<1>1. 0 \in Fds /\ 1 \in Fds /\ Fds \subseteq Nat
  BY DEF Fds
<1>2. 0 \notin FreeFds
  BY DEF Table, FreeFds, Stdin, NoFile
<1>3. ASSUME fdt[1] = NoFile
      PROVE  FreeFds # {} /\ LowestFree = 1
  <2>1. 1 \in FreeFds
    BY <1>1, <1>3 DEF FreeFds
  <2>2. \A g \in FreeFds : g \in Nat \ {0}
    BY <1>1, <1>2 DEF FreeFds
  <2>3. \A g \in FreeFds : 1 <= g
    BY <2>2
  <2>4. \A f \in FreeFds : (\A g \in FreeFds : f <= g) => f = 1
    BY <2>1, <2>2
  <2>5. LowestFree \in FreeFds /\ \A g \in FreeFds : LowestFree <= g
    BY <2>1, <2>3, Zenon DEF LowestFree
  <2> QED BY <2>1, <2>4, <2>5, Zenon
<1>4. ASSUME fdt[1] # NoFile, FreeFds # {}
      PROVE  LowestFree \in Fds \ {0, 1}
  <2>1. LowestFree \in Fds /\ fdt[LowestFree] = NoFile
    BY <1>4, LowestIsFree
  <2>2. fdt[0] # NoFile
    BY DEF Table, Stdin, NoFile
  <2> QED BY <1>4, <2>1, <2>2, Zenon
<1> QED BY <1>1, <1>3, <1>4

(* A thread that is alive: it is the only one, and 1 is its connection     *)
(* unless it has closed it.                                                *)
LEMMA OneAlive ==
  ASSUME RtspTypeOK, OneClient, NEW c \in Conns, Alive(c)
  PROVE  /\ Holds(c)
         /\ \A d \in Conns : Alive(d) => d = c
         /\ c = accepted /\ listener.pc = "accept"
         /\ c # NoFile
  BY DEF OneClient, Holds, Conns, NoFile

(* The table keeps its shape when 1 is opened for the next connection, a   *)
(* number above it for a stream, and when 1 or a stream is closed.         *)
LEMMA TableKept ==
  ASSUME RtspTypeOK, Table, accepted' = accepted, udpfd' = udpfd,
         \/ fdt' = fdt
         \/ fdt' = Closed(1)
         \/ FileOf(udpfd) = Udp /\ fdt' = Closed(udpfd)
  PROVE  Table' /\ (fdt' # Closed(1) => fdt'[1] = fdt[1])
<1>1. 0 \in Fds /\ 1 \in Fds /\ fdt \in [Fds -> Files] /\ Udp # Stdin
  <2>1. 0 \in Fds /\ 1 \in Fds
    BY RtspAssumption DEF Fds
  <2> QED BY <2>1, Typed DEF Udp, Stdin
<1>2. CASE fdt' = fdt
  BY <1>2, Zenon DEF Table
<1>3. CASE fdt' = Closed(1)
  BY <1>1, <1>3 DEF Table, Closed
<1>4. CASE FileOf(udpfd) = Udp /\ fdt' = Closed(udpfd)
  <2>1. udpfd \in Fds \ {0, 1}
    BY <1>1, <1>4 DEF FileOf, Table, NoFile, Udp
  <2>2. fdt' = [fdt EXCEPT ![udpfd] = NoFile]
    BY <1>4, <2>1 DEF Closed
  <2> QED BY <1>1, <2>1, <2>2 DEF Table
<1> QED BY <1>2, <1>3, <1>4

(* An orderly client is accepted when nobody is alive, so it gets          *)
(* descriptor 1.                                                           *)
LEMMA OneAccept ==
  ASSUME RtspTypeOK, OneClient, Orderly', Accept
  PROVE  OneClient'
<1>1. \A c \in Conns : ~Alive(c)
  BY DEF Accept, Disorder, Orderly
<1>2. listener.pc = "accept" /\ fdt[1] = NoFile /\ Table
  BY <1>1 DEF Accept, OneClient, Handing
<1>3. FreeFds # {} /\ LowestFree = 1 /\ 1 \in Fds
  BY <1>2, NextNumber
<1>4. /\ accepted' = accepted + 1 /\ fdt' = [fdt EXCEPT ![1] = accepted + 1]
      /\ listener' = [pc |-> "reset", fd |-> 1]
      /\ UNCHANGED <<slot, udpfd, thread>>
  BY <1>3 DEF Accept
<1>5. fdt \in [Fds -> Files]
  BY DEF RtspTypeOK
<1>6. Table'
  BY <1>2, <1>3, <1>4, <1>5 DEF Table
<1>7. Handing'
  BY <1>3, <1>4, <1>5 DEF Handing
<1>8. \A c \in Conns : ~Alive(c)'
  BY <1>1, <1>4, Zenon DEF Alive
<1>9. (slot.port \in {0, slot.owner})'
  BY <1>4, Zenon DEF OneClient
<1> QED BY <1>6, <1>7, <1>8, <1>9, Zenon DEF OneClient

(* Clearing the slot touches nobody: no thread runs while the listener     *)
(* prepares it.                                                            *)
LEMMA OneReset ==
  ASSUME RtspTypeOK, OneClient, Reset
  PROVE  OneClient'
<1>1. /\ listener.pc = "reset" /\ listener'.pc = "fill" /\ listener'.fd = listener.fd
      /\ slot'.port = 0 /\ UNCHANGED <<fdt, udpfd, thread, accepted>>
  BY DEF Reset, EmptySlot, RtspTypeOK
<1>2. \A c \in Conns : ~Alive(c)
  BY <1>1 DEF OneClient, Holds
<1>3. \A c \in Conns : ~Alive(c)'
  BY <1>1, <1>2, Zenon DEF Alive
<1>4. Table'
  BY <1>1, Zenon DEF OneClient, Table
<1>5. Handing'
  BY <1>1 DEF OneClient, Handing
<1> QED BY <1>1, <1>3, <1>4, <1>5, Zenon DEF OneClient

(* Filling the slot makes the newest connection the one thread there is. *)
LEMMA OneFill ==
  ASSUME RtspTypeOK, OneClient, Fill, Orderly'
  PROVE  OneClient'
<1>0. Goto(accepted, "loop")
  <2>1. "no thread" \notin disorder'
    BY DEF Orderly
  <2> QED BY <2>1, Zenon DEF Fill
<1>1. /\ slot \in Slots /\ thread \in [Conns -> Threads]
      /\ listener.pc = "fill" /\ listener'.pc = "accept"
      /\ UNCHANGED <<fdt, udpfd, accepted>>
  BY DEF Fill, RtspTypeOK, Slots, Threads
<1>2. listener.fd = 1 /\ fdt[1] = accepted /\ slot.port = 0
  BY <1>1 DEF OneClient, Handing
<1>3. /\ slot'.socket = 1 /\ slot'.status = "CONNECTED" /\ slot'.owner = accepted
      /\ slot'.port = 0
  BY <1>1, <1>2 DEF Fill, Slots
<1>4. \A c \in Conns : ~Alive(c)
  BY <1>1 DEF OneClient, Holds
<1>5. \A c \in Conns \ {accepted} : ~Alive(c)'
  BY <1>0, <1>1, <1>4 DEF Goto, Alive
<1>6. accepted \in Conns => thread'[accepted].pc = "loop"
  BY <1>0, <1>1 DEF Goto, Threads
<1>7. \A c \in Conns : Alive(c)' => Holds(c)'
  <2> SUFFICES ASSUME NEW c \in Conns, Alive(c)'
               PROVE  Holds(c)'
    OBVIOUS
  <2>1. c = accepted
    BY <1>5
  <2> QED BY <1>1, <1>2, <1>3, <1>6, <2>1 DEF Holds
<1>8. Table'
  BY <1>1, Zenon DEF OneClient, Table
<1>9. Handing'
  <2>1. (\A c \in Conns : ~Alive(c))' => fdt'[1] = NoFile
    <3>1. CASE accepted \in Conns
      BY <1>6, <3>1 DEF Alive
    <3>2. CASE accepted \notin Conns
      <4>1. accepted = NoFile
        BY <3>2, RtspAssumption, Typed DEF Conns, NoFile
      <4> QED BY <1>1, <1>2, <4>1
    <3> QED BY <3>1, <3>2
  <2> QED BY <1>1, <2>1 DEF Handing
<1> QED BY <1>3, <1>7, <1>8, <1>9, Zenon DEF OneClient

(* Where a thread is, and where it goes.                                   *)
LEMMA Places ==
  ASSUME RtspTypeOK, NEW c \in Conns
  PROVE  /\ Received(c) => thread[c].pc = "recv"
         /\ \A pc \in {"loop", "play", "down", "close", "break"} : Goto(c, pc) =>
              thread'[c].pc = pc /\ \A d \in Conns \ {c} : thread'[d] = thread[d]
         /\ thread[c].pc \in {"loop", "recv", "play", "down", "close", "break"} => Alive(c)
<1>1. thread \in [Conns -> Threads]
  BY Typed
<1>2. Received(c) => thread[c].pc = "recv"
  BY DEF Received, RecvFrom
<1>3. \A pc \in {"loop", "play", "down", "close", "break"} : Goto(c, pc) =>
        thread'[c].pc = pc /\ \A d \in Conns \ {c} : thread'[d] = thread[d]
  BY <1>1 DEF Goto, Threads
<1>4. thread[c].pc \in {"loop", "recv", "play", "down", "close", "break"} => Alive(c)
  BY DEF Alive
<1> QED BY <1>2, <1>3, <1>4

(* What a thread has to leave behind.                                      *)
LEMMA OneThread ==
  ASSUME RtspTypeOK, OneClient, NEW c \in Conns, Alive(c),
         UNCHANGED <<listener, accepted>>,
         \A d \in Conns \ {c} : thread'[d] = thread[d],
         Table', Alive(c)' => Holds(c)', ~Alive(c)' => fdt'[1] = NoFile,
         (slot.port \in {0, slot.owner})'
  PROVE  OneClient'
<1>1. Holds(c) /\ \A d \in Conns : Alive(d) => d = c
  BY OneAlive, Zenon
<1>2. listener.pc = "accept" /\ accepted \in Conns
  BY <1>1 DEF Holds
<1>3. \A d \in Conns \ {c} : ~Alive(d)'
  BY <1>1 DEF Alive
<1>4. Handing'
  BY <1>2 DEF Handing
<1>5. \A d \in Conns : Alive(d)' => Holds(d)'
  BY <1>3
<1> QED BY <1>4, <1>5, Zenon DEF OneClient

(* Requests that open and close nothing leave the one connection where it  *)
(* is.                                                                     *)
LEMMA OneQuiet ==
  ASSUME RtspTypeOK, OneClient, NEW c \in Conns,
         Loop(c) \/ Query(c) \/ Setup(c) \/ Play(c)
  PROVE  OneClient'
<1>1. /\ fdt \in [Fds -> Files] /\ slot \in Slots
      /\ thread \in [Conns -> Threads]
  BY Typed
<1>2. Alive(c)
  <2>1. Setup(c) => Received(c)
    BY Zenon DEF Setup, Received
  <2>2. thread[c].pc \in {"loop", "recv", "play"}
    BY <2>1, Places DEF Loop, Query, Play
  <2> QED BY <2>2, Places
<1>3. /\ Holds(c) /\ Table /\ slot.port \in {0, slot.owner}
      /\ c # NoFile /\ 1 \in Fds
  BY <1>2, OneAlive, NextNumber DEF OneClient
<1>4. UNCHANGED <<fdt, udpfd, listener, accepted>>
  BY Zenon DEF Loop, Query, Setup, Play
<1>5. \A d \in Conns \ {c} : thread'[d] = thread[d]
  BY <1>1 DEF Loop, Query, Setup, Play, Goto
<1>6. Table'
  BY <1>3, <1>4, Zenon DEF Table
<1>7. CASE Loop(c)
  <2>1. slot' = slot /\ thread[c].pc = "loop"
    BY <1>7, Zenon DEF Loop
  <2>2. CASE slot.status = "IDLE"
    <3>1. thread'[c].pc = "done"
      BY <1>1, <1>7, <2>2 DEF Loop
    <3>2. fdt'[1] = NoFile
      BY <1>3, <1>4, <2>1, <2>2 DEF Holds
    <3>3. ~Alive(c)'
      BY <3>1 DEF Alive
    <3> QED BY <1>2, <1>3, <1>4, <1>5, <1>6, <2>1, <3>2, <3>3, OneThread
  <2>3. CASE slot.status # "IDLE"
    <3>1. slot.socket = 1 /\ fdt[1] = c /\ slot.owner = c
      BY <1>3, <2>3 DEF Holds
    <3>2. thread'[c] = [pc |-> "recv", file |-> c]
      BY <1>1, <1>3, <1>7, <2>3, <3>1 DEF Loop, FileOf
    <3>3. Holds(c)'
      BY <1>3, <1>4, <2>1, <2>3, <3>1, <3>2 DEF Holds
    <3>4. Alive(c)'
      BY <3>2 DEF Alive
    <3> QED BY <1>2, <1>3, <1>4, <1>5, <1>6, <2>1, <3>3, <3>4, OneThread
  <2> QED BY <2>2, <2>3
<1>8. CASE Query(c) \/ Setup(c) \/ Play(c)
  <2>1. thread[c].pc \in {"recv", "play"} /\ thread'[c].pc = "loop"
    <3>1. Setup(c) => Received(c) /\ Goto(c, "loop")
      BY Zenon DEF Setup, Received
    <3> QED BY <1>8, <3>1, Places DEF Query, Play
  <2>2. slot.socket = 1 /\ fdt[1] = c /\ slot.owner = c /\ slot.status # "IDLE"
    BY <1>3, <2>1 DEF Holds
  <2>3. /\ slot'.socket = 1 /\ slot'.owner = c /\ slot'.status # "IDLE"
        /\ slot'.port \in {0, c}
    <3>1. CASE Query(c)
      BY <1>3, <2>2, <3>1 DEF Query
    <3>2. CASE Setup(c)
      <4>1. PICK p \in Conns :
              /\ RecvFrom(c, p)
              /\ \E q \in {slot.port, p} : slot' = [slot EXCEPT !.port = q]
        BY <2>2, <3>2 DEF Setup
      <4>2. p = c
        BY <1>3, <4>1 DEF RecvFrom, Holds
      <4>3. PICK q \in {0, c} : slot' = [slot EXCEPT !.port = q]
        BY <1>3, <2>2, <4>1, <4>2
      <4> QED BY <1>1, <2>2, <4>3 DEF Slots
    <3>3. CASE Play(c)
      BY <1>1, <1>3, <2>2, <3>3 DEF Play, Slots
    <3> QED BY <1>8, <3>1, <3>2, <3>3
  <2>4. Holds(c)' /\ Alive(c)'
    BY <1>3, <1>4, <2>1, <2>2, <2>3 DEF Holds, Alive
  <2>5. (slot.port \in {0, slot.owner})'
    BY <2>3
  <2> QED BY <1>2, <1>4, <1>5, <1>6, <2>4, <2>5, OneThread
<1> QED BY <1>7, <1>8

(* The answer to PLAY reaches descriptor 1, as the slot still names it. *)
LEMMA OnePlayAnswer ==
  ASSUME RtspTypeOK, OneClient, NEW c \in Conns, PlayAnswer(c)
  PROVE  OneClient'
<1>1. fdt \in [Fds -> Files] /\ slot \in Slots /\ thread \in [Conns -> Threads]
  BY Typed
<1>2. thread[c].pc = "recv" /\ Alive(c)
  BY DEF PlayAnswer, Received, RecvFrom, Alive
<1>3. Holds(c) /\ Table /\ slot.port \in {0, slot.owner} /\ c # NoFile
  BY <1>2, OneAlive DEF OneClient
<1>4. UNCHANGED <<slot, listener, accepted>>
  BY Zenon DEF PlayAnswer
<1>5. thread'[c].pc = "play" /\ \A d \in Conns \ {c} : thread'[d] = thread[d]
  BY <1>1 DEF PlayAnswer, Goto
<1>6. slot.socket = 1 /\ fdt[1] = c /\ slot.owner = c /\ slot.status # "IDLE"
  BY <1>2, <1>3 DEF Holds
<1>7. Table' /\ fdt'[1] = c
  <2>1. CASE UNCHANGED <<fdt, udpfd>>
    BY <1>3, <1>4, <1>6, <2>1, Zenon DEF Table
  <2>2. CASE udpfd' = -1 /\ UNCHANGED fdt
    BY <1>3, <1>4, <1>6, <2>2 DEF Table
  <2>3. CASE /\ FreeFds # {} /\ udpfd' = LowestFree
             /\ fdt' = [fdt EXCEPT ![LowestFree] = Udp]
    <3>1. LowestFree \in Fds \ {0, 1} /\ 1 \in Fds
      BY <1>3, <1>6, <2>3, NextNumber
    <3>2. Udp \in Files
      BY DEF Files
    <3>3. /\ fdt'[LowestFree] = Udp
          /\ \A g \in Fds \ {LowestFree} : fdt'[g] = fdt[g]
      BY <2>3, <3>2, Opened
    <3>4. 0 \in Fds
      BY RtspAssumption DEF Fds
    <3> QED BY <1>3, <1>4, <1>6, <2>3, <3>1, <3>3, <3>4, Zenon DEF Table
  <2> QED BY <2>1, <2>2, <2>3, Zenon DEF PlayAnswer
<1>8. Holds(c)' /\ Alive(c)'
  BY <1>3, <1>4, <1>5, <1>6, <1>7 DEF Holds, Alive
<1> QED BY <1>2, <1>3, <1>4, <1>5, <1>7, <1>8, OneThread

(* What a client's thread does between its request and its close leaves    *)
(* the connection to descriptor 1 and to the slot.                         *)
LEMMA OneLeaving ==
  ASSUME RtspTypeOK, OneClient, NEW c \in Conns, Alive(c), slot.status # "IDLE",
         Goto(c, "down") \/ Goto(c, "close") \/ Goto(c, "break"),
         UNCHANGED <<udpfd, listener, accepted>>,
         fdt' = fdt \/ (FileOf(udpfd) = Udp /\ fdt' = Closed(udpfd)),
         IF Goto(c, "down") THEN slot' = slot
         ELSE slot' = [slot EXCEPT !.status = "IDLE"]
  PROVE  OneClient'
<1>1. /\ fdt \in [Fds -> Files] /\ slot \in Slots
      /\ thread \in [Conns -> Threads]
  BY Typed
<1>2. Holds(c) /\ Table /\ slot.port \in {0, slot.owner} /\ c # NoFile
  BY OneAlive DEF OneClient
<1>3. /\ thread'[c].pc \in {"down", "close", "break"}
      /\ thread'[c].pc = "down" <=> Goto(c, "down")
      /\ \A d \in Conns \ {c} : thread'[d] = thread[d]
  BY <1>1 DEF Goto, Threads
<1>4. slot.socket = 1 /\ fdt[1] = c /\ slot.owner = c
  BY <1>2 DEF Holds
<1>5. /\ slot'.socket = 1 /\ slot'.owner = c /\ slot'.port = slot.port
      /\ thread'[c].pc = "down" => slot'.status # "IDLE"
      /\ thread'[c].pc # "down" => slot'.status = "IDLE"
  BY <1>1, <1>3, <1>4 DEF Slots
<1>6. Table' /\ fdt'[1] = c
  <2>1. Table'
    BY <1>2, TableKept, Zenon
  <2>2. fdt'[1] = fdt[1]
    <3>1. 1 \in Fds /\ udpfd # 1
      BY <1>2, NextNumber DEF Table
    <3> QED BY <1>1, <3>1 DEF Closed
  <2> QED BY <1>4, <2>1, <2>2
<1>7. Holds(c)' /\ Alive(c)'
  BY <1>2, <1>3, <1>5, <1>6 DEF Holds, Alive
<1>8. (slot.port \in {0, slot.owner})'
  BY <1>2, <1>4, <1>5
<1> QED BY <1>3, <1>6, <1>7, <1>8, OneThread

(* TEARDOWN and a broken connection close what the client itself opened. *)
LEMMA OneLeave ==
  ASSUME RtspTypeOK, OneClient, NEW c \in Conns, Orderly',
         TeardownAnswer(c) \/ Teardown(c) \/ RecvFails(c)
  PROVE  OneClient'
<1>1. /\ slot \in Slots /\ thread \in [Conns -> Threads]
  BY Typed
<1>2. thread[c].pc \in {"recv", "down"} /\ Alive(c)
  BY Places DEF TeardownAnswer, Teardown, RecvFails
<1>3. slot.status # "IDLE"
  BY <1>2, OneAlive DEF Holds
<1>4. CASE TeardownAnswer(c)
  <2>1. FileOf(udpfd) = Udp
    <3>1. "early teardown" \notin disorder'
      BY DEF Orderly
    <3> QED BY <1>4, <3>1, Zenon DEF TeardownAnswer
  <2>2. /\ Goto(c, "down") /\ UNCHANGED <<slot, udpfd, listener, accepted>>
        /\ fdt' = fdt \/ fdt' = Closed(udpfd)
    BY <1>4, Zenon DEF TeardownAnswer
  <2> QED BY <1>2, <1>3, <2>1, <2>2, OneLeaving, Zenon
<1>5. CASE Teardown(c) \/ RecvFails(c)
  <2>1. /\ Goto(c, "close") \/ Goto(c, "break")
        /\ slot' = [slot EXCEPT !.status = "IDLE"]
        /\ UNCHANGED <<fdt, udpfd, listener, accepted>>
    BY <1>5, Zenon DEF Teardown, RecvFails
  <2>2. ~Goto(c, "down")
    <3>1. thread'[c].pc # "down"
      BY <1>1, <2>1 DEF Goto, Threads
    <3> QED BY <1>1, <3>1 DEF Goto, Threads
  <2> QED BY <1>2, <1>3, <2>1, <2>2, OneLeaving, Zenon
<1> QED BY <1>4, <1>5

(* The thread closes its own connection: afterwards nobody is alive. *)
LEMMA OneClose ==
  ASSUME RtspTypeOK, OneClient, NEW c \in Conns, Close(c)
  PROVE  OneClient'
<1>1. /\ fdt \in [Fds -> Files] /\ slot \in Slots
      /\ thread \in [Conns -> Threads]
  BY Typed
<1>2. thread[c].pc \in {"close", "break"} /\ Alive(c)
  BY DEF Close, Alive
<1>3. Holds(c) /\ Table /\ slot.port \in {0, slot.owner}
  BY <1>2, OneAlive DEF OneClient
<1>4. UNCHANGED <<slot, udpfd, listener, accepted>>
  BY Zenon DEF Close
<1>5. slot.socket = 1 /\ slot.status = "IDLE"
  BY <1>2, <1>3 DEF Holds
<1>6. fdt' = Closed(1)
  BY <1>5 DEF Close
<1>7. Table'
  BY <1>3, <1>4, <1>6, TableKept, Zenon
<1>8. fdt'[1] = NoFile
  BY <1>1, <1>3, <1>6, NextNumber DEF Closed
<1>9. /\ thread'[c].pc \in {"loop", "done"}
      /\ \A d \in Conns \ {c} : thread'[d] = thread[d]
  BY <1>1 DEF Close
<1>10. Alive(c)' => Holds(c)'
  BY <1>3, <1>4, <1>5, <1>8, <1>9 DEF Holds, Alive
<1> QED BY <1>2, <1>3, <1>4, <1>7, <1>8, <1>9, <1>10, OneThread

-----------------------------------------------------------------------------

(* Only a thread that is alive plays: while there is none, or none that    *)
(* plays, no stream is open.                                               *)
LEMMA NoStream ==
  ASSUME RtspTypeOK, OneClient, OneStream
  PROVE  /\ listener.pc # "accept" => \A f \in Fds : fdt[f] # Udp
         /\ (\A c \in Conns : ~Alive(c)) => \A f \in Fds : fdt[f] # Udp
         /\ \A c \in Conns : (Alive(c) /\ ~Playing(c)) => \A f \in Fds : fdt[f] # Udp
<1>1. \A c \in Conns : Playing(c) => Alive(c)
  BY DEF Playing, Alive
<1>2. \A c \in Conns : Alive(c) =>
        listener.pc = "accept" /\ \A d \in Conns : Alive(d) => d = c
  BY OneAlive, Zenon
<1> QED BY <1>1, <1>2, Zenon DEF OneStream

(* The descriptors of a closed file, or of a connection, are no stream's.  *)
LEMMA NoNewStream ==
  ASSUME RtspTypeOK, NEW fd, fdt' = Closed(fd)
  PROVE  \A f \in Fds : fdt'[f] = Udp => fdt[f] = Udp
<1>1. \A f \in Fds : fdt'[f] \in {fdt[f], NoFile}
  BY ClosedOne, Zenon
<1>2. NoFile # Udp
  BY DEF NoFile, Udp
<1> QED BY <1>1, <1>2

(* With tidy clients the listener finds no stream open when it accepts. *)
LEMMA StreamListener ==
  ASSUME RtspTypeOK, OneClient, OneStream, disorder' = {}, Accept \/ Reset \/ Fill
  PROVE  OneStream'
<1>1. \A f \in Fds : fdt[f] # Udp
  <2>1. CASE Accept
    <3>1. \A c \in Conns : ~Alive(c)
      BY <2>1 DEF Accept, Disorder
    <3> QED BY <3>1, NoStream, Zenon
  <2>2. CASE Reset \/ Fill
    <3>1. listener.pc \in {"reset", "fill"}
      BY <2>2, Zenon DEF Reset, Fill
    <3> QED BY <3>1, NoStream
  <2> QED BY <2>1, <2>2
<1>2. \A f \in Fds : fdt'[f] # Udp
  <2>1. CASE fdt' = fdt
    BY <1>1, <2>1
  <2>2. CASE Accept /\ FreeFds # {}
    <3>1. accepted + 1 \in Files /\ accepted + 1 # Udp
      BY <2>2, Typed, RtspAssumption DEF Accept, Files, Conns, Udp
    <3>2. fdt' = [fdt EXCEPT ![LowestFree] = accepted + 1]
      BY <2>2, Zenon DEF Accept
    <3>3. /\ fdt'[LowestFree] = accepted + 1
          /\ \A g \in Fds \ {LowestFree} : fdt'[g] = fdt[g]
      BY <2>2, <3>1, <3>2, Opened
    <3> HIDE DEF LowestFree
    <3> QED BY <1>1, <3>1, <3>3
  <2>3. fdt' = fdt \/ (Accept /\ FreeFds # {})
    BY Zenon DEF Accept, Reset, Fill
  <2> QED BY <2>1, <2>2, <2>3
<1> QED BY <1>2 DEF OneStream

(* A client thread opens one stream at a time and keeps its descriptor to  *)
(* itself.                                                                 *)
LEMMA StreamThread ==
  ASSUME RtspTypeOK, OneClient, OneStream, disorder' = {},
         NEW c \in Conns, ClientThread(c)
  PROVE  OneStream'
<1>1. slot \in Slots /\ thread \in [Conns -> Threads]
  BY Typed
<1>2. ASSUME NEW d \in Conns, Playing(d), Alive(c) PROVE d = c
  <2>1. Alive(d)
    BY <1>2 DEF Playing, Alive
  <2> QED BY <1>2, <2>1, OneAlive
<1>3. ASSUME \A f \in Fds : fdt[f] # Udp,
             fdt' = fdt \/ \E fd : fdt' = Closed(fd)
      PROVE  OneStream'
  <2>1. \A f \in Fds : fdt'[f] # Udp
    BY <1>3, NoNewStream
  <2> QED BY <2>1 DEF OneStream
<1>4. ASSUME Alive(c), UNCHANGED <<fdt, udpfd>>, Playing(c) => Playing(c)'
      PROVE  OneStream'
  BY <1>2, <1>4, Zenon DEF OneStream
<1>5. CASE Loop(c)
  <2>1. Alive(c) /\ thread[c].pc = "loop" /\ UNCHANGED <<fdt, slot, udpfd>>
    BY <1>5, Places DEF Loop
  <2>2. slot.status = "SENDING" => thread'[c].pc = "recv"
    BY <1>1, <1>5 DEF Loop
  <2>3. Playing(c) => Playing(c)'
    BY <2>1, <2>2 DEF Playing
  <2> QED BY <1>4, <2>1, <2>3
<1>6. CASE Query(c) \/ Setup(c)
  <2>1. Received(c) /\ Goto(c, "loop") /\ UNCHANGED <<fdt, udpfd>>
    BY <1>6, Zenon DEF Query, Setup, Received
  <2>2. Alive(c) /\ thread[c].pc = "recv" /\ thread'[c].pc = "loop"
    BY <2>1, Places
  <2>3. slot'.status = slot.status
    <3>1. CASE Query(c)
      BY <3>1, Zenon DEF Query
    <3>2. CASE Setup(c)
      <4>1. \E q \in {slot.port} \cup (0 .. MaxConns) \cup Conns :
              slot' = [slot EXCEPT !.port = q]
        BY <3>2, Zenon DEF Setup
      <4> QED BY <1>1, <4>1 DEF Slots
    <3> QED BY <1>6, <3>1, <3>2
  <2>4. Playing(c) => Playing(c)'
    BY <2>2, <2>3 DEF Playing
  <2> QED BY <1>4, <2>1, <2>2, <2>4
<1>7. CASE PlayAnswer(c)
  <2>1. Alive(c) /\ thread[c].pc = "recv" /\ thread'[c].pc = "play"
    BY <1>7, Places DEF PlayAnswer
  <2>2. slot.status # "SENDING"
    BY <1>7 DEF PlayAnswer, Disorder
  <2>3. \A f \in Fds : fdt[f] # Udp
    BY <2>1, <2>2, NoStream DEF Playing
  <2>4. Playing(c)'
    BY <2>1 DEF Playing
  <2>5. CASE fdt' = fdt
    BY <1>3, <2>3, <2>5
  <2>6. CASE /\ FreeFds # {} /\ udpfd' = LowestFree
             /\ fdt' = [fdt EXCEPT ![LowestFree] = Udp]
    <3>1. \A f \in Fds \ {LowestFree} : fdt'[f] = fdt[f]
      BY <2>6, Opened DEF Files
    <3> QED BY <2>3, <2>4, <2>6, <3>1, Zenon DEF OneStream
  <2> QED BY <1>7, <2>5, <2>6, Zenon DEF PlayAnswer
<1>8. CASE Play(c)
  <2>1. Alive(c) /\ thread'[c].pc = "loop" /\ UNCHANGED <<fdt, udpfd>>
    BY <1>8, Places DEF Play
  <2>2. slot'.status = "SENDING"
    BY <1>1, <1>8 DEF Play, Slots
  <2>3. Playing(c)'
    BY <2>1, <2>2 DEF Playing
  <2> QED BY <1>4, <2>1, <2>3
<1>9. CASE TeardownAnswer(c)
  <2>1. FileOf(udpfd) = Udp
    BY <1>9 DEF TeardownAnswer
  <2>2. fdt' = Closed(udpfd)
    BY <1>9, <2>1 DEF TeardownAnswer, Disorder
  <2>3. udpfd \in Fds
    BY <2>1 DEF FileOf, NoFile, Udp
  <2>4. fdt'[udpfd] = NoFile
    BY <2>2, <2>3, Typed DEF Closed
  <2>5. \A f \in Fds : fdt'[f] # Udp
    BY <2>2, <2>4, NoNewStream DEF OneStream, NoFile, Udp
  <2> QED BY <2>5 DEF OneStream
<1>12. CASE Teardown(c)
  <2>1. Alive(c) /\ thread[c].pc = "down" /\ fdt' = fdt
    BY <1>12, Places DEF Teardown
  <2> QED BY <1>3, <2>1, NoStream DEF Playing
<1>10. CASE RecvFails(c)
  <2>1. Alive(c) /\ thread[c].pc = "recv"
    BY <1>10, Places DEF RecvFails
  <2>2. slot.status # "SENDING" /\ fdt' = fdt
    BY <1>10 DEF RecvFails, Disorder
  <2> QED BY <1>3, <2>1, <2>2, NoStream DEF Playing
<1>11. CASE Close(c)
  <2>1. Alive(c) /\ thread[c].pc \in {"close", "break"}
    BY <1>11, Places DEF Close
  <2>2. fdt' = Closed(slot.socket)
    BY <1>11, Zenon DEF Close
  <2> QED BY <1>3, <2>1, <2>2, NoStream DEF Playing
<1> QED BY <1>5, <1>6, <1>7, <1>8, <1>9, <1>10, <1>11, <1>12, Zenon DEF ClientThread

-----------------------------------------------------------------------------

(* At the start no descriptor but standard input is open. *)
LEMMA OrderlyInit ==
  ASSUME RtspInit
  PROVE  OrderlyInv
<1>1. RtspTypeOK
  BY RtspInvInit DEF RtspInv
<1>2. /\ fdt[0] = Stdin /\ \A f \in Fds \ {0} : fdt[f] = NoFile
      /\ 1 \in Fds
  BY RtspAssumption DEF RtspInit, Fds
<1>3. /\ accepted = NoFile /\ udpfd = 0 /\ listener.pc = "accept"
      /\ slot.port = 0 /\ \A c \in Conns : ~Alive(c)
  BY DEF RtspInit, EmptySlot, Alive, NoFile
<1>4. Table /\ Handing
  BY <1>2, <1>3 DEF Table, Handing
<1>5. OneClient
  BY <1>3, <1>4 DEF OneClient
<1>6. OneStream
  BY <1>2, <1>3 DEF OneStream, Udp, NoFile, Stdin
<1> QED BY <1>1, <1>5, <1>6 DEF OrderlyInv

(* As long as clients are orderly, every step keeps OneClient, and with    *)
(* tidy ones OneStream.                                                    *)
LEMMA OrderlyNext ==
  ASSUME OrderlyInv, [RtspNext]_rtspVars
  PROVE  OrderlyInv'
<1>1. CASE RtspNext
  <2>1. RtspTypeOK'
    BY <1>1, TypeListener, TypeThread, Zenon DEF RtspNext, OrderlyInv
  <2>2. disorder \subseteq disorder'
    BY <1>1, DisorderGrows
  <2>3. ASSUME Orderly' PROVE OneClient'
    <3>1. OneClient /\ RtspTypeOK
      BY <2>2, <2>3 DEF Orderly, OrderlyInv
    <3>2. CASE Accept \/ Reset \/ Fill
      BY <2>3, <3>1, <3>2, OneAccept, OneReset, OneFill
    <3>3. ASSUME NEW c \in Conns, ClientThread(c) PROVE OneClient'
      BY <2>3, <3>1, <3>3, OneQuiet, OnePlayAnswer, OneLeave, OneClose, Zenon
         DEF ClientThread
    <3> QED BY <1>1, <3>2, <3>3, Zenon DEF RtspNext
  <2>4. ASSUME disorder' = {} PROVE OneStream'
    <3>1. OneClient /\ OneStream /\ RtspTypeOK
      BY <2>2, <2>4 DEF Orderly, OrderlyInv
    <3>2. CASE Accept \/ Reset \/ Fill
      BY <2>4, <3>1, <3>2, StreamListener
    <3>3. ASSUME NEW c \in Conns, ClientThread(c) PROVE OneStream'
      BY <2>4, <3>1, <3>3, StreamThread
    <3> QED BY <1>1, <3>2, <3>3, Zenon DEF RtspNext
  <2> QED BY <2>1, <2>3, <2>4, Zenon DEF OrderlyInv
<1>2. CASE UNCHANGED rtspVars
  <2>1. UNCHANGED <<fdt, slot, udpfd, thread, accepted, listener, disorder>>
    BY <1>2, Zenon DEF rtspVars
  <2>2. RtspTypeOK' <=> RtspTypeOK
    BY <2>1, Zenon DEF RtspTypeOK
  <2>3. \A c \in Conns : (Alive(c)' <=> Alive(c)) /\ (Holds(c)' <=> Holds(c))
                         /\ (Playing(c)' <=> Playing(c))
    BY <2>1, Zenon DEF Alive, Holds, Playing
  <2>4. (Table' <=> Table) /\ (Handing' <=> Handing) /\ (Orderly' <=> Orderly)
    BY <2>1, <2>3, Zenon DEF Table, Handing, Orderly
  <2>5. (OneClient' <=> OneClient) /\ (OneStream' <=> OneStream)
    BY <2>1, <2>3, <2>4, Zenon DEF OneClient, OneStream
  <2> QED BY <2>1, <2>2, <2>4, <2>5, Zenon DEF OrderlyInv
<1> QED BY <1>1, <1>2

(* With clients that come one after the other a thread receives from its   *)
(* own client and answers it, and the process keeps its standard input     *)
(* (RtspClientMsg and TeardownAnswer in rtsp_server.c).                    *)
THEOREM ClientAnswered == RtspSpec => []OrderlyAnswers
<1>1. OrderlyInv => OrderlyAnswers
  <2> SUFFICES ASSUME OrderlyInv, Orderly PROVE OrderlyAnswers
    BY DEF OrderlyAnswers
  <2>1. RtspTypeOK /\ OneClient /\ fdt[0] = Stdin /\ 1 \in Fds
    BY NextNumber DEF OrderlyInv, OneClient, Table
  <2>2. ASSUME NEW c \in Conns, thread[c].pc = "recv"
        PROVE  /\ thread[c].file = c
               /\ FileOf(slot.socket) = c /\ slot.socket # 0
               /\ slot.owner = c
    <3>1. Alive(c)
      BY <2>2 DEF Alive
    <3>2. Holds(c)
      BY <2>1, <3>1 DEF OneClient
    <3> QED BY <2>1, <2>2, <3>2 DEF Holds, FileOf
  <2> QED BY <2>1, <2>2 DEF OrderlyAnswers
<1> QED BY <1>1, OrderlyInit, OrderlyNext, PTL DEF RtspSpec

(* With such clients the stream's number never names a connection, and the *)
(* stream goes to the port of the client that plays (PlayAnswer and        *)
(* VENC_Sent in rtsp_server.c).                                            *)
THEOREM StreamDirected == RtspSpec => []OrderlyStream
<1>1. OrderlyInv => OrderlyStream
  <2> SUFFICES ASSUME OrderlyInv, Orderly PROVE OrderlyStream
    BY DEF OrderlyStream
  <2>1. Table /\ slot.port \in {0, slot.owner}
    BY DEF OrderlyInv, OneClient
  <2>2. FileOf(udpfd) \in {NoFile, Stdin, Udp}
    BY <2>1 DEF Table, FileOf
  <2>3. {NoFile, Stdin, Udp} \cap Conns = {}
    BY DEF NoFile, Stdin, Udp, Conns
  <2> QED BY <2>1, <2>2, <2>3 DEF OrderlyStream
<1> QED BY <1>1, OrderlyInit, OrderlyNext, PTL DEF RtspSpec

(* When each also plays once and then tears down, at most one stream       *)
(* socket is open and accept never fails for want of a descriptor.         *)
THEOREM SocketsBounded == RtspSpec => []TidyListens
<1>1. OrderlyInv => TidyListens
  <2> SUFFICES ASSUME OrderlyInv, disorder = {} PROVE TidyListens
    BY DEF TidyListens
  <2>1. OneStream /\ Handing
    BY DEF OrderlyInv, OneClient, Orderly
  <2> DEFINE S == {f \in Fds : fdt[f] = Udp}
  <2>2. S = {} \/ S = {udpfd}
    BY <2>1 DEF OneStream
  <2> HIDE DEF S
  <2>3. Cardinality(S) <= 1
    <3>1. Cardinality({}) = 0
      BY FS_EmptySet
    <3>2. Cardinality({udpfd}) = 1
      BY FS_Singleton, Zenon
    <3> QED BY <2>2, <3>1, <3>2
  <2> QED BY <2>1, <2>3 DEF TidyListens, Handing, S
<1> QED BY <1>1, OrderlyInit, OrderlyNext, PTL DEF RtspSpec

=============================================================================
