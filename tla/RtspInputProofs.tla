-------------------------- MODULE RtspInputProofs --------------------------
(***************************************************************************)
(* What is proved of RtspInput for every kind of message, every number of  *)
(* them and every size of the buffer.                                      *)
(***************************************************************************)
EXTENDS RtspInput, FiniteSetTheorems, SequenceTheorems, WellFoundedInduction,
        TLAPS

(* What is in the buffer and on its way, cell by cell.                     *)
Size == in_size + Len(wire)
Cell(i) == IF i <= in_size THEN in_buffer[i] ELSE wire[i - in_size]
PartsOf(c) == Layout[sent[c.msg]]

(* The main thread reads into an empty buffer only.                        *)
Filled ==
  /\ \A i \in 1 .. in_size : in_buffer[i] \in Cells
  /\ pc = "select" => in_size = 0

(* Framed, cell by cell.                                                   *)
Chained ==
  /\ \A i \in 1 .. Size - 1 : Follows(Cell(i), Cell(i + 1))
  /\ Size > 0 =>
       /\ Cell(Size).msg = Len(sent) /\ Cell(Size).pos = Len(PartsOf(Cell(Size)))

(* A message begins here, or what was cut off from one.                    *)
Start(c) == c.pos = 1 \/ Part(c) \in {"lf", "nul"}
Begins == Size > 0 => Start(Cell(1))

(* Nothing is known of the buffer once in_size has wrapped.                *)
Unwrapped == Filled /\ Chained /\ (AllHonest => Begins)
Stream == TypeOK /\ (fault = "none" => Unwrapped)

-----------------------------------------------------------------------------
(* Cells.                                                                  *)

(* A set of numbers has a least one.                                       *)
LEMMA LeastIs ==
  ASSUME NEW T, T \subseteq Nat, T # {}
  PROVE  Least(T) \in T /\ \A j \in T : Least(T) <= j
<1> DEFINE less == {ss \in Nat \X Nat : ss[1] < ss[2]}
<1>1. IsWellFoundedOn(less, Nat)
  BY NatLessThanWellFounded DEF OpToRel
<1>2. \A x, y \in Nat : <<y, x>> \notin less => x <= y
  OBVIOUS
<1> HIDE DEF less
<1>3. \E x \in T : \A y \in T : <<y, x>> \notin less
  BY <1>1, WFMin, Zenon
<1>4. \E x \in T : \A y \in T : x <= y
  BY <1>2, <1>3
<1> QED BY <1>4, Zenon DEF Least

(* What a cell is.                                                         *)
LEMMA CellsAre ==
  ASSUME sent \in Seq(Kinds), NEW c \in Cells
  PROVE  /\ c.msg \in 1 .. Len(sent) /\ sent[c.msg] \in Kinds
         /\ c.pos \in 1 .. Len(PartsOf(c))
         /\ c = [msg |-> c.msg, pos |-> c.pos] /\ c # Zero
<1>1. PICK m \in 1 .. Len(sent) : \E i \in 1 .. Len(Layout[sent[m]]) :
        c = [msg |-> m, pos |-> i]
  BY DEF Cells
<1> QED BY <1>1 DEF PartsOf, Zero

(* A record of a message sent and a place in it is a cell.                 *)
LEMMA IsCell ==
  ASSUME NEW m \in 1 .. Len(sent), NEW i \in 1 .. Len(Layout[sent[m]])
  PROVE  [msg |-> m, pos |-> i] \in Cells
BY DEF Cells

(* What a message consists of.                                             *)
LEMMA LayoutShape ==
  ASSUME NEW kind \in Kinds
  PROVE  /\ Layout[kind] \in Seq(Parts) /\ Len(Layout[kind]) \in Nat \ {0}
         /\ \/ Interleaved(Layout[kind])
            \/ \E e \in 2 .. Len(Layout[kind]) :
                 \E b \in e + 1 .. Len(Layout[kind]) : Request(Layout[kind], e, b)
BY InputAssumption

(* Every unread cell is one the client sent.                               *)
LEMMA UnreadCells ==
  ASSUME TypeOK, Filled, fault = "none"
  PROVE  /\ in_size \in Nat /\ Len(wire) \in Nat /\ Size \in Nat
         /\ \A i \in 1 .. Size : Cell(i) \in Cells
<1>1. wire \in Seq(Cells) /\ in_size \in Nat
  <2>1. wire \in Seq(Cells) /\ in_size \in 0 .. SizeMod - 1
    BY Zenon DEF TypeOK
  <2>2. SizeMod \in Nat
    BY InputAssumption
  <2> QED BY <2>1, <2>2
<1>2. Len(wire) \in Nat /\ Size \in Nat
  BY <1>1 DEF Size
<1>3. ASSUME NEW i \in 1 .. Size PROVE Cell(i) \in Cells
  <2>1. CASE i <= in_size
    BY <1>1, <1>2, <2>1 DEF Cell, Filled
  <2>2. CASE i > in_size
    <3>1. i - in_size \in 1 .. Len(wire)
      BY <1>1, <1>2, <2>2 DEF Size
    <3>2. wire[i - in_size] \in Cells
      BY <1>1, <3>1
    <3> QED BY <1>1, <2>2, <3>2 DEF Cell
  <2> QED BY <1>1, <1>2, <2>1, <2>2
<1> QED BY <1>1, <1>2, <1>3

(* Unread is these cells.                                                  *)
LEMMA UnreadIs ==
  ASSUME TypeOK, Filled, fault = "none"
  PROVE  /\ Unread \in Seq(Cells) /\ Len(Unread) = Size
         /\ \A i \in 1 .. Size : Unread[i] = Cell(i)
<1> DEFINE held == SubSeq(in_buffer, 1, in_size)
<1>1. /\ in_size \in 0 .. RTSP_BUFFERSIZE /\ RTSP_BUFFERSIZE \in Nat
      /\ in_buffer \in Seq(Cells \cup {Zero}) /\ Len(in_buffer) = RTSP_BUFFERSIZE
  <2>1. RTSP_BUFFERSIZE \in Nat
    BY InputAssumption
  <2>2. in_buffer \in [1 .. RTSP_BUFFERSIZE -> Cells \cup {Zero}]
    BY Zenon DEF TypeOK
  <2>3. in_buffer \in Seq(Cells \cup {Zero}) /\ Len(in_buffer) = RTSP_BUFFERSIZE
    BY <2>1, <2>2
  <2>4. in_size \in Nat /\ in_size <= RTSP_BUFFERSIZE
    <3>1. fault = "none" => in_size <= RTSP_BUFFERSIZE
      BY Zenon DEF TypeOK
    <3> QED BY <3>1, UnreadCells
  <2> QED BY <2>1, <2>3, <2>4
<1>2. /\ Len(held) = in_size /\ held \in Seq(Cells \cup {Zero})
      /\ \A i \in 1 .. in_size : held[i] = in_buffer[i]
  BY <1>1
<1>3. held \in Seq(Cells)
  BY <1>2 DEF Filled
<1>4. wire \in Seq(Cells)
  BY DEF TypeOK
<1> HIDE DEF held
<1>5. held \o wire \in Seq(Cells) /\ Len(held \o wire) = Size
  BY <1>2, <1>3, <1>4 DEF Size
<1>6. ASSUME NEW i \in 1 .. Size PROVE (held \o wire)[i] = Cell(i)
  BY <1>2, <1>3, <1>4, UnreadCells DEF Cell, Size
<1> QED BY <1>5, <1>6 DEF Unread, held

(* The first message in the buffer lies at the front, and the next one     *)
(* behind it.                                                              *)
LEMMA FirstMessage ==
  ASSUME Stream, fault = "none", Size > 0, Cell(1).pos = 1
  PROVE  LET m == Cell(1).msg
             n == Len(PartsOf(Cell(1))) IN
         /\ m \in 1 .. Len(sent) /\ sent[m] \in Kinds
         /\ n \in 1 .. Size
         /\ \A i \in 1 .. n : Cell(i) = [msg |-> m, pos |-> i]
         /\ IF Size = n THEN m = Len(sent)
            ELSE Cell(n + 1).msg = m + 1 /\ Cell(n + 1).pos = 1
<1> DEFINE m == Cell(1).msg
           n == Len(PartsOf(Cell(1)))
           T == {i \in 1 .. n : i > Size \/ Cell(i) # [msg |-> m, pos |-> i]}
<1>1. /\ Size \in Nat \ {0} /\ sent \in Seq(Kinds)
      /\ \A i \in 1 .. Size : Cell(i) \in Cells
  <2>1. sent \in Seq(Kinds)
    BY Zenon DEF Stream, TypeOK
  <2> QED BY <2>1, UnreadCells DEF Stream, Unwrapped
<1>2. /\ m \in 1 .. Len(sent) /\ sent[m] \in Kinds /\ PartsOf(Cell(1)) = Layout[sent[m]]
      /\ Cell(1) = [msg |-> m, pos |-> 1]
  BY <1>1, CellsAre DEF PartsOf
<1>3. n \in Nat \ {0}
  BY <1>2, LayoutShape
<1>4. ASSUME NEW i \in 1 .. Size
      PROVE  /\ Cell(i) = [msg |-> Cell(i).msg, pos |-> Cell(i).pos]
             /\ Cell(i).pos \in 1 .. Len(Layout[sent[Cell(i).msg]])
             /\ Cell(i).msg \in Nat
  BY <1>1, CellsAre DEF PartsOf
<1>5. ASSUME NEW i \in 1 .. Size - 1
      PROVE  \/ Cell(i + 1).msg = Cell(i).msg /\ Cell(i + 1).pos = Cell(i).pos + 1
             \/ /\ Cell(i + 1).msg = Cell(i).msg + 1 /\ Cell(i + 1).pos = 1
                /\ Cell(i).pos = Len(Layout[sent[Cell(i).msg]])
  BY DEF Stream, Unwrapped, Chained, Follows
<1>6. Cell(Size).msg = Len(sent) /\ Cell(Size).pos = Len(Layout[sent[Cell(Size).msg]])
  BY DEF Stream, Unwrapped, Chained, PartsOf
<1>7. n = Len(Layout[sent[m]])
  BY <1>2
<1> HIDE DEF m, n
<1>8. T = {}
  <2> SUFFICES ASSUME T # {} PROVE FALSE
    BY Zenon
  <2>1. T \subseteq Nat
    BY <1>3
  <2>2. PICK x \in T : \A y \in T : x <= y
    BY <2>1, LeastIs, Zenon
  <2>3. x # 1
    BY <1>1, <1>2, <2>2
  <2>4. x - 1 \in 1 .. n /\ x - 1 \notin T
    BY <1>3, <2>2, <2>3
  <2>5. x - 1 \in 1 .. Size /\ Cell(x - 1) = [msg |-> m, pos |-> x - 1]
    BY <1>1, <1>3, <2>4
  <2>6. x - 1 # Size
    BY <1>3, <1>6, <1>7, <2>2, <2>5
  <2>7. x \in 1 .. Size /\ x - 1 \in 1 .. Size - 1 /\ (x - 1) + 1 = x
    BY <1>1, <2>5, <2>6
  <2>8. Cell(x) # [msg |-> m, pos |-> x]
    BY <1>1, <2>2, <2>7
  <2>9. Cell(x).msg = m /\ Cell(x).pos = x
    BY <1>3, <1>5, <1>7, <2>2, <2>5, <2>7
  <2> QED BY <1>4, <2>7, <2>8, <2>9
<1>9. n \in 1 .. Size /\ \A i \in 1 .. n : Cell(i) = [msg |-> m, pos |-> i]
  <2>1. \A i \in 1 .. n : ~(i > Size) /\ Cell(i) = [msg |-> m, pos |-> i]
    BY <1>8
  <2>2. n \in 1 .. n
    BY <1>3
  <2> QED BY <1>1, <1>3, <2>1, <2>2
<1>10. Size = n => m = Len(sent)
  BY <1>6, <1>9
<1>11. Size # n => Cell(n + 1).msg = m + 1 /\ Cell(n + 1).pos = 1
  <2> SUFFICES ASSUME Size # n
               PROVE  Cell(n + 1).msg = m + 1 /\ Cell(n + 1).pos = 1
    OBVIOUS
  <2>1. n \in 1 .. Size - 1 /\ n + 1 \in 1 .. Size /\ Cell(n) = [msg |-> m, pos |-> n]
    BY <1>1, <1>9
  <2>2. Cell(n + 1).msg # m \/ Cell(n + 1).pos # n + 1
    BY <1>3, <1>4, <1>7, <2>1
  <2> QED BY <1>5, <2>1, <2>2
<1> QED BY <1>2, <1>9, <1>10, <1>11 DEF m, n

-----------------------------------------------------------------------------
(* What RTSP_full_msg_rcvd measures.                                       *)

(* The body of a message is what lies between the empty line and the NULs, *)
(* or behind the introduction of interleaved data.                         *)
LEMMA BodyOfRequest ==
  ASSUME NEW kind \in Kinds, NEW e \in 2 .. Len(Layout[kind]),
         NEW b \in e + 1 .. Len(Layout[kind]), Request(Layout[kind], e, b)
  PROVE  BodyLen(kind) = b - (e + 1)
<1>1. Len(Layout[kind]) \in Nat
  BY LayoutShape
<1>2. {i \in 1 .. Len(Layout[kind]) : Layout[kind][i] = "body"} = e + 2 .. b
  <2>1. ASSUME NEW i \in 1 .. Len(Layout[kind])
        PROVE  Layout[kind][i] = "body" <=> i \in e + 2 .. b
    <3>1. \/ i \in 1 .. e - 1 \/ i = e \/ i = e + 1 \/ i \in e + 2 .. b
          \/ i \in b + 1 .. Len(Layout[kind])
      BY <1>1
    <3> QED BY <1>1, <3>1 DEF Request, HeaderParts
  <2> QED BY <1>1, <2>1
<1>3. Cardinality(e + 2 .. b) = b - (e + 1)
  <2>1. Cardinality(e + 2 .. b) = IF e + 2 > b THEN 0 ELSE b - (e + 2) + 1
    BY <1>1, FS_Interval
  <2> QED BY <1>1, <2>1
<1> QED BY <1>2, <1>3 DEF BodyLen

LEMMA BodyOfInterleaved ==
  ASSUME NEW kind \in Kinds, Interleaved(Layout[kind])
  PROVE  BodyLen(kind) = Len(Layout[kind]) - 1
<1>1. Len(Layout[kind]) \in Nat \ {0}
  BY LayoutShape
<1>2. {i \in 1 .. Len(Layout[kind]) : Layout[kind][i] = "body"} = 2 .. Len(Layout[kind])
  BY <1>1 DEF Interleaved
<1>3. Cardinality(2 .. Len(Layout[kind])) = Len(Layout[kind]) - 1
  <2>1. PICK n \in Nat \ {0} : n = Len(Layout[kind])
    BY <1>1
  <2>2. Cardinality(2 .. n) = n - 1
    BY FS_Interval
  <2> QED BY <2>1, <2>2
<1> QED BY <1>2, <1>3 DEF BodyLen

(* The parsers see the parts of the first message where its cells are.     *)
LEMMA PartsSeen ==
  ASSUME Stream, fault = "none", in_size > 0, Cell(1).pos = 1
  PROVE  LET m == Cell(1).msg
             kind == sent[m]
             n == Len(Layout[kind]) IN
         /\ m \in 1 .. Len(sent) /\ kind \in Kinds /\ in_size \in Nat \ {0}
         /\ n \in 1 .. Size /\ Size = in_size + Len(wire) /\ Len(wire) \in Nat
         /\ in_buffer[1].msg = m
         /\ \A i \in 1 .. in_size :
              /\ i <= n => PartAt(i) = Layout[kind][i] /\ in_buffer[i].msg = m
              /\ i = n + 1 => PartAt(i) \in {"line", "$"}
         /\ in_size < n => Part(Cell(in_size + 1)) = Layout[kind][in_size + 1]
         /\ in_size < n => wire[1].msg = m
         /\ AllHonest => Announces[kind] = BodyLen(kind)
<1> DEFINE m == Cell(1).msg
           n == Len(PartsOf(Cell(1)))
<1>1. /\ in_size \in Nat \ {0} /\ Len(wire) \in Nat /\ Size \in Nat
      /\ Size = in_size + Len(wire) /\ Size > 0
      /\ \A i \in 1 .. Size : Cell(i) \in Cells
  BY UnreadCells DEF Stream, Unwrapped, Size
<1>2. /\ m \in 1 .. Len(sent) /\ sent[m] \in Kinds
      /\ n \in 1 .. Size
      /\ \A i \in 1 .. n : Cell(i) = [msg |-> m, pos |-> i]
      /\ Size # n => Cell(n + 1).msg = m + 1 /\ Cell(n + 1).pos = 1
  BY <1>1, FirstMessage
<1>3. n = Len(Layout[sent[m]])
  BY DEF PartsOf
<1>4. \A i \in 1 .. in_size : in_buffer[i] = Cell(i)
  BY <1>1 DEF Cell
<1>5. sent \in Seq(Kinds) /\ \A c \in Cells : Part(c) = Layout[sent[c.msg]][c.pos]
  <2>1. sent \in Seq(Kinds)
    BY Zenon DEF Stream, TypeOK
  <2> QED BY <2>1, CellsAre DEF Part
<1> HIDE DEF m, n
<1>6. ASSUME NEW i \in 1 .. in_size, i <= n
      PROVE  PartAt(i) = Layout[sent[m]][i] /\ in_buffer[i].msg = m
  <2>1. in_buffer[i] = [msg |-> m, pos |-> i] /\ in_buffer[i] \in Cells
    BY <1>1, <1>2, <1>4, <1>6
  <2> QED BY <1>5, <2>1 DEF PartAt
<1>7. ASSUME NEW i \in 1 .. in_size, i = n + 1
      PROVE  PartAt(i) \in {"line", "$"}
  <2>1. in_buffer[i].pos = 1 /\ in_buffer[i] \in Cells
    BY <1>1, <1>2, <1>4, <1>7
  <2>2. PICK k \in Kinds : k = sent[in_buffer[i].msg]
    BY <1>5, <2>1, CellsAre
  <2>3. Layout[k][1] \in {"line", "$"}
    BY LayoutShape DEF Request, Interleaved
  <2> QED BY <1>5, <2>1, <2>2, <2>3 DEF PartAt
<1>8. ASSUME in_size < n
      PROVE  /\ Part(Cell(in_size + 1)) = Layout[sent[m]][in_size + 1]
             /\ wire[1].msg = m
  <2>1. in_size + 1 \in 1 .. n /\ in_size + 1 \in 1 .. Size
    BY <1>1, <1>2, <1>8
  <2>2. Cell(in_size + 1) = [msg |-> m, pos |-> in_size + 1]
    BY <1>2, <2>1
  <2>3. Cell(in_size + 1) = wire[1]
    BY <1>1 DEF Cell
  <2> QED BY <1>1, <1>5, <2>1, <2>2, <2>3
<1>9. in_buffer[1].msg = m
  BY <1>1, <1>4 DEF m
<1>10. AllHonest => Announces[sent[m]] = BodyLen(sent[m])
  BY <1>2 DEF AllHonest
<1> QED BY <1>1, <1>2, <1>3, <1>6, <1>7, <1>8, <1>9, <1>10 DEF m

(* RTSP_full_msg_rcvd of a request: its whole length once it is there, but *)
(* without what is not yet there of the last "\n" and the NULs; 0 before.  *)
LEMMA RequestMeasured ==
  ASSUME Stream, AllHonest, fault = "none", in_size > 0, Cell(1).pos = 1,
         NEW kind, kind = sent[Cell(1).msg],
         NEW e \in 2 .. Len(Layout[kind]), NEW b \in e + 1 .. Len(Layout[kind]),
         Request(Layout[kind], e, b)
  PROVE  IF in_size < b
           THEN \/ RTSP_full_msg_rcvd = 0
                \/ RTSP_full_msg_rcvd = in_size /\ in_size = e /\ b = e + 1
         ELSE IF in_size < Len(Layout[kind]) THEN RTSP_full_msg_rcvd = in_size
         ELSE RTSP_full_msg_rcvd = Len(Layout[kind])
<1> DEFINE n == Len(Layout[kind])
<1>1. /\ kind \in Kinds /\ in_size \in Nat \ {0} /\ n \in Nat
      /\ Announces[kind] = BodyLen(kind)
      /\ \A i \in 1 .. in_size :
           /\ i <= n => PartAt(i) = Layout[kind][i] /\ sent[in_buffer[i].msg] = kind
           /\ i = n + 1 => PartAt(i) \in {"line", "$"}
  BY PartsSeen
<1>2. e \in Nat /\ b \in Nat /\ n \in Nat /\ 2 <= e /\ e + 1 <= b /\ b <= n
  BY <1>1
<1>3. /\ Layout[kind][1] = "line" /\ Layout[kind][e] = "cr" /\ Layout[kind][e + 1] = "lf"
      /\ \A i \in 1 .. e - 1 :
           Layout[kind][i] \notin {"cr", "lf", "body", "nul", "$"}
      /\ \A i \in e + 2 .. b : Layout[kind][i] = "body"
      /\ \A i \in b + 1 .. n : Layout[kind][i] = "nul"
      /\ b > e + 1 => \E i \in 1 .. e - 1 : Layout[kind][i] = "Content-Length"
  BY <1>2 DEF Request, HeaderParts
<1>4. PartAt(1) = "line"
  BY <1>1, <1>2, <1>3
<1> HIDE DEF n
<1>5. CASE in_size < e
  <2>1. Stops = {}
    <3>1. ASSUME NEW i \in 1 .. in_size PROVE PartAt(i) \notin {"cr", "nul", "$"}
      <4>1. i \in 1 .. e - 1 /\ i <= n
        BY <1>1, <1>2, <1>5
      <4> QED BY <1>1, <1>3, <4>1
    <3> QED BY <3>1, Zenon DEF Stops
  <2>2. PartAt(1) # "$"
    BY <1>4
  <2>3. RTSP_full_msg_rcvd = 0
    BY <2>1, <2>2, Zenon DEF RTSP_full_msg_rcvd, NoHeader
  <2> QED BY <1>1, <1>2, <1>5, <2>3
<1>6. CASE e <= in_size
  <2>1. e \in Stops /\ \A i \in Stops : e <= i
    BY <1>1, <1>2, <1>3, <1>6 DEF Stops
  <2>2. Least(Stops) = e
    <3>1. Stops \subseteq Nat
      BY <1>1 DEF Stops
    <3>2. Least(Stops) \in Stops /\ \A j \in Stops : Least(Stops) <= j
      BY <2>1, <3>1, LeastIs
    <3>3. PICK x \in Nat : x = Least(Stops)
      BY <3>1, <3>2
    <3>4. x = e
      BY <1>2, <2>1, <3>2, <3>3
    <3> QED BY <3>3, <3>4
  <2>3. PICK h \in {e, e + 1} : h = HeaderLen /\ h = IF e < in_size THEN e + 1 ELSE e
    <3>1. e < in_size => PartAt(e + 1) = "lf"
      BY <1>1, <1>2, <1>3
    <3> QED BY <1>1, <1>2, <2>2, <3>1 DEF HeaderLen
  <2>4. Announced(h) = b - (e + 1)
    <3> DEFINE lengths == {i \in 2 .. h : PartAt(i) = "Content-Length"}
    <3>1. BodyLen(kind) = b - (e + 1)
      BY <1>1, BodyOfRequest
    <3>2. h \in Nat /\ h <= in_size /\ h <= n
      BY <1>1, <1>2, <1>6, <2>3
    <3>3. lengths \subseteq 2 .. h /\ lengths \subseteq Nat
      BY <3>2
    <3>4. CASE lengths = {}
      <4>1. ASSUME NEW i \in 1 .. e - 1 PROVE Layout[kind][i] # "Content-Length"
        <5>1. CASE i = 1
          BY <1>3, <5>1
        <5>2. CASE i # 1
          <6>1. i \in 2 .. h /\ i \in 1 .. in_size /\ i <= n
            BY <1>1, <1>2, <2>3, <3>2, <5>2
          <6> QED BY <1>1, <3>4, <6>1
        <5> QED BY <5>1, <5>2
      <4>2. b = e + 1
        BY <1>2, <1>3, <4>1
      <4>3. Announced(h) = 0
        BY <3>4, Zenon DEF Announced
      <4> QED BY <1>2, <4>2, <4>3
    <3>5. CASE lengths # {}
      <4>1. Least(lengths) \in lengths
        BY <3>3, <3>5, LeastIs, Zenon
      <4>2. PICK i \in 2 .. h : i = Least(lengths)
        BY <3>3, <4>1
      <4>3. i \in 1 .. in_size /\ i <= n
        BY <1>1, <3>2
      <4>4. Announced(h) = AnnouncedAt(i)
        BY <3>5, <4>2, Zenon DEF Announced
      <4>5. AnnouncedAt(i) = BodyLen(kind)
        BY <1>1, <4>3 DEF AnnouncedAt
      <4> QED BY <3>1, <4>4, <4>5
    <3> QED BY <3>4, <3>5
  <2>5. PICK total \in Nat : total = Total /\ total = h + (b - (e + 1))
    BY <1>2, <2>3, <2>4 DEF Total
  <2>6. PartAt(1) # "$" /\ ~NoHeader
    <3>1. PartAt(e) = "cr"
      BY <1>1, <1>2, <1>3, <1>6
    <3> QED BY <1>4, <2>1, <2>2, <3>1 DEF NoHeader
  <2>7. RTSP_full_msg_rcvd = IF total \in 0 .. in_size THEN total + TrailingNuls(total) ELSE 0
    BY <2>5, <2>6, Zenon DEF RTSP_full_msg_rcvd
  <2>8. CASE e = in_size
    <3>1. total = b - 1
      BY <1>2, <2>3, <2>5, <2>8
    <3>2. CASE b = e + 1
      <4>1. total = in_size
        BY <1>2, <2>8, <3>1, <3>2
      <4>2. TrailingNuls(in_size) = 0
        <5>1. {i \in in_size + 1 .. in_size :
                 \A j \in in_size + 1 .. i : PartAt(j) = "nul"} = {}
          BY <1>1
        <5> QED BY <5>1, FS_EmptySet DEF TrailingNuls
      <4>3. total \in 0 .. in_size
        BY <1>1, <4>1
      <4>4. RTSP_full_msg_rcvd = in_size + 0
        BY <2>7, <4>1, <4>2, <4>3
      <4>5. RTSP_full_msg_rcvd = in_size
        BY <1>1, <4>4
      <4> QED BY <1>1, <1>2, <2>8, <3>2, <4>5
    <3>3. CASE b # e + 1
      <4>1. total \notin 0 .. in_size /\ in_size < b
        BY <1>2, <2>8, <3>1, <3>3
      <4> QED BY <2>7, <4>1
    <3> QED BY <3>2, <3>3
  <2>9. CASE e < in_size
    <3>1. total = b
      BY <1>2, <2>3, <2>5, <2>9
    <3>2. CASE in_size < b
      <4>1. total \notin 0 .. in_size
        BY <1>1, <1>2, <3>1, <3>2
      <4> QED BY <2>7, <3>2, <4>1
    <3>3. CASE b <= in_size
      <4>1. PICK last \in Nat : /\ last = IF in_size < n THEN in_size ELSE n
                                /\ b <= last /\ last <= in_size /\ last <= n
        BY <1>1, <1>2, <3>3
      <4>2. {i \in b + 1 .. in_size : \A j \in b + 1 .. i : PartAt(j) = "nul"}
              = b + 1 .. last
        <5>1. ASSUME NEW i \in b + 1 .. last, NEW j \in b + 1 .. i
              PROVE  PartAt(j) = "nul"
          BY <1>1, <1>2, <1>3, <4>1
        <5>2. ASSUME NEW i \in b + 1 .. in_size, i > last
              PROVE  \E j \in b + 1 .. i : PartAt(j) # "nul"
          <6>1. n + 1 \in b + 1 .. i /\ n + 1 \in 1 .. in_size
            BY <1>1, <1>2, <4>1, <5>2
          <6> QED BY <1>1, <1>2, <6>1
        <5>3. ASSUME NEW i \in b + 1 .. in_size
              PROVE  (\A j \in b + 1 .. i : PartAt(j) = "nul") <=> i \in b + 1 .. last
          BY <1>1, <1>2, <4>1, <5>1, <5>2
        <5>4. b + 1 .. last \subseteq b + 1 .. in_size
          BY <1>1, <1>2, <4>1
        <5> QED BY <5>3, <5>4
      <4>3. TrailingNuls(b) = last - b
        <5>1. Cardinality(b + 1 .. last) = last - b
          <6>1. b + 1 \in Int /\ last \in Int
            BY <1>2
          <6>2. Cardinality(b + 1 .. last) = IF b + 1 > last THEN 0 ELSE last - (b + 1) + 1
            BY <6>1, FS_Interval
          <6> QED BY <1>2, <4>1, <6>2
        <5> QED BY <4>2, <5>1 DEF TrailingNuls
      <4>4. RTSP_full_msg_rcvd = last
        <5>1. total \in 0 .. in_size
          BY <1>1, <1>2, <3>1, <3>3
        <5>2. RTSP_full_msg_rcvd = b + (last - b)
          BY <2>7, <3>1, <4>3, <5>1
        <5> QED BY <1>2, <4>1, <5>2
      <4> QED BY <1>1, <1>2, <3>3, <4>1, <4>4 DEF n
    <3> QED BY <1>1, <1>2, <3>2, <3>3
  <2> QED BY <1>1, <1>2, <1>6, <2>8, <2>9
<1> QED BY <1>1, <1>2, <1>5, <1>6

(* RTSP_full_msg_rcvd of interleaved data: its whole length, which may be  *)
(* four bytes more than are there.                                         *)
LEMMA InterleavedMeasured ==
  ASSUME Stream, AllHonest, fault = "none", in_size > 0, Cell(1).pos = 1,
         NEW kind, kind = sent[Cell(1).msg], Interleaved(Layout[kind])
  PROVE  \/ RTSP_full_msg_rcvd = Len(Layout[kind])
         \/ RTSP_full_msg_rcvd = 0 /\ in_size < Len(Layout[kind])
<1>1. /\ kind \in Kinds /\ in_size \in Nat \ {0} /\ Len(Layout[kind]) \in Nat \ {0}
      /\ in_buffer[1].msg = Cell(1).msg
      /\ PartAt(1) = Layout[kind][1] /\ Announces[kind] = BodyLen(kind)
  BY PartsSeen, LayoutShape
<1>2. PartAt(1) = "$"
  BY <1>1 DEF Interleaved
<1>3. AnnouncedAt(1) = Len(Layout[kind]) - 1
  BY <1>1, BodyOfInterleaved DEF AnnouncedAt
<1>4. RTSP_full_msg_rcvd = IF AnnouncedAt(1) <= in_size THEN 1 + AnnouncedAt(1) ELSE 0
  BY <1>2, Zenon DEF RTSP_full_msg_rcvd
<1> QED BY <1>1, <1>3, <1>4

(* What RTSP_remove_msg is told to remove: a whole message, or nothing, or *)
(* more than there is, or what there is of a message whose last "\n" or    *)
(* NULs come later.                                                        *)
LEMMA Measured ==
  ASSUME Stream, AllHonest, fault = "none", in_size > 0, Cell(1).pos = 1
  PROVE  LET n == Len(PartsOf(Cell(1)))
             len == RTSP_full_msg_rcvd IN
         /\ len \in Nat
         /\ in_size >= n => len = n
         /\ in_size < n => \/ len = 0
                           \/ len > in_size
                           \/ len = in_size /\ Part(Cell(in_size + 1)) \in {"lf", "nul"}
<1>1. PICK kind \in Kinds : kind = sent[Cell(1).msg]
  BY PartsSeen
<1>2. Len(PartsOf(Cell(1))) = Len(Layout[kind]) /\ Len(Layout[kind]) \in Nat \ {0}
  BY <1>1, LayoutShape DEF PartsOf
<1>3. in_size \in Nat
  BY PartsSeen
<1>4. CASE Interleaved(Layout[kind])
  BY <1>1, <1>2, <1>3, <1>4, InterleavedMeasured
<1>5. ASSUME NEW e \in 2 .. Len(Layout[kind]), NEW b \in e + 1 .. Len(Layout[kind]),
             Request(Layout[kind], e, b), in_size < Len(Layout[kind]),
             b <= in_size \/ in_size = e
      PROVE  Part(Cell(in_size + 1)) \in {"lf", "nul"}
  <2>1. Part(Cell(in_size + 1)) = Layout[kind][in_size + 1]
    BY <1>1, <1>5, PartsSeen
  <2>2. in_size + 1 \in b + 1 .. Len(Layout[kind]) \/ in_size + 1 = e + 1
    BY <1>2, <1>3, <1>5
  <2> QED BY <1>5, <2>1, <2>2 DEF Request
<1>6. CASE \E e \in 2 .. Len(Layout[kind]) : \E b \in e + 1 .. Len(Layout[kind]) :
             Request(Layout[kind], e, b)
  <2>0. PICK e \in 2 .. Len(Layout[kind]) : \E b \in e + 1 .. Len(Layout[kind]) :
          Request(Layout[kind], e, b)
    BY <1>6
  <2>1. PICK b \in e + 1 .. Len(Layout[kind]) : Request(Layout[kind], e, b)
    BY <2>0
  <2>2. IF in_size < b
          THEN \/ RTSP_full_msg_rcvd = 0
               \/ RTSP_full_msg_rcvd = in_size /\ in_size = e /\ b = e + 1
        ELSE IF in_size < Len(Layout[kind]) THEN RTSP_full_msg_rcvd = in_size
        ELSE RTSP_full_msg_rcvd = Len(Layout[kind])
    BY <1>1, <2>1, RequestMeasured
  <2>3. in_size < Len(Layout[kind]) /\ (b <= in_size \/ in_size = e)
          => Part(Cell(in_size + 1)) \in {"lf", "nul"}
    BY <1>5, <2>1
  <2> QED BY <1>2, <1>3, <2>2, <2>3
<1> QED BY <1>4, <1>6, LayoutShape

(* Whatever is in the buffer and whatever lengths were announced, it is    *)
(* told to remove at most one cell more than there is.                     *)
LEMMA LengthIs ==
  ASSUME TypeOK, Filled, fault = "none", in_size > 0
  PROVE  RTSP_full_msg_rcvd \in Nat /\ RTSP_full_msg_rcvd <= in_size + 1
<1>1. /\ in_size \in Nat \ {0} /\ sent \in Seq(Kinds)
      /\ \A i \in 1 .. in_size : in_buffer[i] \in Cells
  <2>1. in_size \in Nat
    BY UnreadCells
  <2>2. sent \in Seq(Kinds)
    BY Zenon DEF TypeOK
  <2>3. \A i \in 1 .. in_size : in_buffer[i] \in Cells
    BY Zenon DEF Filled
  <2> QED BY <2>1, <2>2, <2>3
<1>2. CASE PartAt(1) = "$"
  <2>1. in_buffer[1] \in Cells
    BY <1>1
  <2>2. PICK kind \in Kinds : kind = sent[in_buffer[1].msg]
    BY <1>1, <2>1, CellsAre
  <2>3. Interleaved(Layout[kind])
    <3>1. /\ in_buffer[1].pos \in 1 .. Len(Layout[kind])
          /\ Layout[kind][in_buffer[1].pos] = "$"
      BY <1>1, <1>2, <2>1, <2>2, CellsAre DEF PartAt, Part, PartsOf
    <3>2. PICK p \in 1 .. Len(Layout[kind]) : Layout[kind][p] = "$"
      BY <3>1
    <3>3. ASSUME NEW e \in 2 .. Len(Layout[kind]),
                 NEW b \in e + 1 .. Len(Layout[kind]), Request(Layout[kind], e, b)
          PROVE  FALSE
      <4>1. \/ p \in 1 .. e - 1 \/ p = e \/ p = e + 1 \/ p \in e + 2 .. b
            \/ p \in b + 1 .. Len(Layout[kind])
        BY LayoutShape
      <4> QED BY <3>2, <3>3, <4>1 DEF Request, HeaderParts
    <3> QED BY <3>3, LayoutShape
  <2>4. Announces[kind] \in Nat
    <3>1. ~ \E e \in 2 .. Len(Layout[kind]) :
              \E b \in e + 1 .. Len(Layout[kind]) : Request(Layout[kind], e, b)
      BY <2>3 DEF Request, Interleaved
    <3> QED BY <3>1, InputAssumption
  <2>5. AnnouncedAt(1) \in Nat
    BY <2>2, <2>4 DEF AnnouncedAt
  <2>6. RTSP_full_msg_rcvd = IF AnnouncedAt(1) <= in_size THEN 1 + AnnouncedAt(1) ELSE 0
    BY <1>2, Zenon DEF RTSP_full_msg_rcvd
  <2> QED BY <1>1, <2>5, <2>6
<1>3. CASE PartAt(1) # "$"
  <2>1. \/ RTSP_full_msg_rcvd = 0
        \/ Total \in 0 .. in_size /\ RTSP_full_msg_rcvd = Total + TrailingNuls(Total)
    BY <1>3, Zenon DEF RTSP_full_msg_rcvd
  <2>2. ASSUME NEW len \in 0 .. in_size
        PROVE  TrailingNuls(len) \in Nat /\ TrailingNuls(len) <= in_size - len
    <3> DEFINE nuls == {i \in len + 1 .. in_size :
                          \A j \in len + 1 .. i : PartAt(j) = "nul"}
    <3>1. len + 1 \in Int /\ in_size \in Int
      BY <1>1
    <3>2. /\ IsFiniteSet(len + 1 .. in_size)
          /\ Cardinality(len + 1 .. in_size)
               = IF len + 1 > in_size THEN 0 ELSE in_size - (len + 1) + 1
      BY <3>1, FS_Interval
    <3>3. nuls \subseteq len + 1 .. in_size
      OBVIOUS
    <3> HIDE DEF nuls
    <3>4. IsFiniteSet(nuls) /\ Cardinality(nuls) <= Cardinality(len + 1 .. in_size)
      BY <3>2, <3>3, FS_Subset, Zenon
    <3>5. Cardinality(nuls) \in Nat
      BY <3>4, FS_CardinalityType
    <3>6. TrailingNuls(len) = Cardinality(nuls)
      BY DEF TrailingNuls, nuls
    <3> QED BY <1>1, <3>2, <3>4, <3>5, <3>6
  <2>3. CASE RTSP_full_msg_rcvd = 0
    BY <1>1, <2>3
  <2>4. CASE Total \in 0 .. in_size /\ RTSP_full_msg_rcvd = Total + TrailingNuls(Total)
    <3>1. PICK len \in 0 .. in_size : len = Total
      BY <2>4
    <3>2. PICK nuls \in Nat : nuls = TrailingNuls(len) /\ nuls <= in_size - len
      BY <2>2, Zenon
    <3>3. RTSP_full_msg_rcvd = len + nuls
      BY <2>4, <3>1, <3>2, Zenon
    <3> QED BY <1>1, <3>2, <3>3
  <2> QED BY <2>1, <2>3, <2>4
<1> QED BY <1>2, <1>3

-----------------------------------------------------------------------------
(* The client sends a message.                                             *)

(* A cell stays what it is.                                                *)
LEMMA CellsStay ==
  ASSUME sent \in Seq(Kinds), NEW kind \in Kinds, sent' = Append(sent, kind),
         NEW c \in Cells
  PROVE  c \in Cells' /\ PartsOf(c)' = PartsOf(c) /\ Part(c)' = Part(c)
<1>1. c.msg \in 1 .. Len(sent) /\ c.pos \in 1 .. Len(PartsOf(c)) /\ c # Zero
  BY CellsAre
<1>2. c = [msg |-> c.msg, pos |-> c.pos]
  BY CellsAre
<1>3. c.msg \in 1 .. Len(sent') /\ sent'[c.msg] = sent[c.msg]
  BY <1>1
<1>4. PICK m \in 1 .. Len(sent'), i \in 1 .. Len(Layout[sent'[c.msg]]) :
        m = c.msg /\ i = c.pos
  BY <1>1, <1>3 DEF PartsOf
<1>5. c \in Cells'
  BY <1>2, <1>4 DEF Cells
<1>6. PartsOf(c)' = PartsOf(c)
  BY <1>3 DEF PartsOf
<1>7. Part(c)' = Part(c)
  BY <1>3 DEF Part
<1> QED BY <1>5, <1>6, <1>7

(* Its cells go behind those that are unread.                              *)
LEMMA SendCells ==
  ASSUME TypeOK, Filled, NEW kind \in Kinds, Send(kind)
  PROVE  LET n == Len(Layout[kind]) IN
         /\ n \in Nat \ {0} /\ Size' = Size + n
         /\ \A i \in 1 .. Size : Cell(i)' = Cell(i)
         /\ \A i \in Size + 1 .. Size + n :
              Cell(i)' = [msg |-> Len(sent) + 1, pos |-> i - Size]
         /\ wire' \in Seq(Cells')
<1> DEFINE n == Len(Layout[kind])
           text == Text(Len(sent) + 1, kind)
<1>1. n \in Nat \ {0}
  BY LayoutShape
<1>2. /\ sent' = Append(sent, kind) /\ wire' = wire \o text
      /\ in_buffer' = in_buffer /\ in_size' = in_size /\ fault = "none"
  BY DEF Send
<1>3. /\ sent \in Seq(Kinds) /\ wire \in Seq(Cells)
      /\ in_size \in Nat /\ Len(wire) \in Nat /\ Size \in Nat
      /\ Size = in_size + Len(wire)
  <2>1. sent \in Seq(Kinds) /\ wire \in Seq(Cells)
    BY Zenon DEF TypeOK
  <2>2. Size = in_size + Len(wire)
    BY DEF Size
  <2> QED BY <1>2, <2>1, <2>2, UnreadCells
<1>4. Len(sent') = Len(sent) + 1 /\ sent'[Len(sent) + 1] = kind
  BY <1>2, <1>3
<1>5. PICK C : C = Cells'
  OBVIOUS
<1>6. \A j \in 1 .. n : [msg |-> Len(sent) + 1, pos |-> j] \in C
  <2>1. PICK m : m = Len(sent) + 1
    OBVIOUS
  <2>2. m \in 1 .. Len(sent') /\ sent'[m] = kind
    BY <1>3, <1>4, <2>1
  <2>3. ASSUME NEW j \in 1 .. n PROVE [msg |-> m, pos |-> j] \in C
    <3>1. j \in 1 .. Len(Layout[sent'[m]])
      BY <2>2
    <3> QED BY <1>5, <2>2, <3>1 DEF Cells
  <2> QED BY <2>1, <2>3
<1>7. /\ text \in Seq(C) /\ Len(text) = n
      /\ \A j \in 1 .. n : text[j] = [msg |-> Len(sent) + 1, pos |-> j]
  BY <1>1, <1>6 DEF Text
<1>8. wire \in Seq(C)
  <2>1. \A c \in Cells : c \in C
    BY <1>2, <1>3, <1>5, CellsStay
  <2> QED BY <1>3, <2>1
<1> HIDE DEF text, n
<1>9. /\ wire' \in Seq(C) /\ Len(wire') = Len(wire) + n
      /\ \A i \in 1 .. Len(wire) : wire'[i] = wire[i]
      /\ \A i \in Len(wire) + 1 .. Len(wire) + n : wire'[i] = text[i - Len(wire)]
  <2>1. PICK w : w = wire \o text
    OBVIOUS
  <2>2. /\ w \in Seq(C) /\ Len(w) = Len(wire) + Len(text)
        /\ \A i \in 1 .. Len(wire) + Len(text) :
             w[i] = IF i <= Len(wire) THEN wire[i] ELSE text[i - Len(wire)]
    BY <1>7, <1>8, <2>1, ConcatProperties, Zenon
  <2>3. /\ \A i \in 1 .. Len(wire) : w[i] = wire[i]
        /\ \A i \in Len(wire) + 1 .. Len(wire) + n : w[i] = text[i - Len(wire)]
    BY <1>1, <1>3, <1>7, <2>2
  <2> QED BY <1>2, <1>7, <2>1, <2>2, <2>3
<1>10. Size' = Size + n
  BY <1>1, <1>2, <1>3, <1>9 DEF Size
<1>11. ASSUME NEW i \in 1 .. Size PROVE Cell(i)' = Cell(i)
  BY <1>2, <1>3, <1>9 DEF Cell
<1>12. ASSUME NEW i \in Size + 1 .. Size + n
       PROVE  Cell(i)' = [msg |-> Len(sent) + 1, pos |-> i - Size]
  <2>1. /\ i - in_size \in Len(wire) + 1 .. Len(wire) + n /\ ~(i <= in_size)
        /\ (i - in_size) - Len(wire) = i - Size /\ i - Size \in 1 .. n
    BY <1>1, <1>3
  <2>2. wire'[i - in_size] = text[i - Size]
    BY <1>9, <2>1
  <2> QED BY <1>2, <1>7, <2>1, <2>2 DEF Cell
<1> QED BY <1>1, <1>5, <1>9, <1>10, <1>11, <1>12 DEF n

(* What is unread stays a gapless end of what the client sent.             *)
LEMMA SendStream ==
  ASSUME Stream, NEW kind \in Kinds, Send(kind)
  PROVE  Stream'
<1> DEFINE n == Len(Layout[kind])
<1>0. TypeOK /\ fault = "none" /\ Filled /\ Chained /\ (AllHonest => Begins)
  BY Zenon DEF Send, Stream, Unwrapped
<1>1. /\ sent \in Seq(Kinds) /\ sent' = Append(sent, kind) /\ Len(sent) < MaxMsgs
      /\ UNCHANGED <<in_buffer, in_size, out, pc, fault, used, answers, replied, whole>>
  <2>1. sent \in Seq(Kinds)
    BY <1>0, Zenon DEF TypeOK
  <2> QED BY <2>1 DEF Send
<1>2. /\ n \in Nat \ {0} /\ Size' = Size + n
      /\ \A i \in 1 .. Size : Cell(i)' = Cell(i)
      /\ \A i \in Size + 1 .. Size + n :
           Cell(i)' = [msg |-> Len(sent) + 1, pos |-> i - Size]
      /\ wire' \in Seq(Cells')
  BY <1>0, SendCells
<1>3. /\ Size \in Nat /\ in_size \in Nat
      /\ \A i \in 1 .. Size : Cell(i) \in Cells
  BY <1>0, UnreadCells
<1>4. ASSUME NEW c \in Cells
      PROVE  c \in Cells' /\ PartsOf(c)' = PartsOf(c) /\ Part(c)' = Part(c)
  BY <1>1, CellsStay
<1>5. sent' \in Seq(Kinds) /\ Len(sent') = Len(sent) + 1 /\ sent'[Len(sent) + 1] = kind
  BY <1>1
<1>6. TypeOK'
  <2>1. in_buffer' \in [1 .. RTSP_BUFFERSIZE -> Cells' \cup {Zero}]
    <3>1. in_buffer \in [1 .. RTSP_BUFFERSIZE -> Cells \cup {Zero}]
      BY <1>0, Zenon DEF TypeOK
    <3>2. Cells \cup {Zero} \subseteq Cells' \cup {Zero}
      BY <1>4
    <3> QED BY <1>1, <3>1, <3>2
  <2>2. Len(sent') <= MaxMsgs
    BY <1>1, <1>5, InputAssumption
  <2>3. /\ in_size' \in 0 .. SizeMod - 1 /\ (fault' = "none" => in_size' <= RTSP_BUFFERSIZE)
        /\ out' \in Seq(Msgs) /\ Len(out') <= OutReplies
        /\ pc' \in {"select", "handler", "gone"}
        /\ fault' \in {"none", "in_size wraps"}
        /\ used' \in [msg : 0 .. MaxMsgs, CSeq : 0 .. MaxMsgs, Session : 0 .. MaxMsgs]
        /\ answers' \in [Msgs -> 0 .. 2] /\ replied' \in Seq(Msgs)
        /\ whole' \in BOOLEAN
    BY <1>0, <1>1, Zenon DEF TypeOK
  <2> QED BY <1>2, <1>5, <2>1, <2>2, <2>3, Zenon DEF TypeOK
<1>7. Filled'
  BY <1>0, <1>1, <1>4 DEF Filled
<1>8. Chained'
  <2>1. ASSUME NEW c \in Cells, NEW d \in Cells, Follows(c, d)
        PROVE  Follows(c, d)'
    BY <1>4, <2>1 DEF Follows, PartsOf
  <2>2. ASSUME NEW i \in 1 .. Size + n - 1
        PROVE  \E c, d : c = Cell(i)' /\ d = Cell(i + 1)' /\ Follows(c, d)'
    <3>1. CASE i < Size
      <4>1. PICK c \in Cells, d \in Cells : c = Cell(i) /\ d = Cell(i + 1) /\ Follows(c, d)
        BY <1>0, <1>3, <3>1 DEF Chained
      <4>2. c = Cell(i)' /\ d = Cell(i + 1)'
        BY <1>2, <1>3, <3>1, <4>1
      <4> QED BY <2>1, <4>1, <4>2
    <3>2. CASE i = Size
      <4>1. PICK c \in Cells : c = Cell(i) /\ c = Cell(i)'
        BY <1>2, <1>3, <3>2
      <4>2. c.msg = Len(sent) /\ c.pos = Len(PartsOf(c)')
        BY <1>0, <1>3, <1>4, <3>2, <4>1 DEF Chained
      <4>3. PICK d : d = Cell(i + 1)' /\ d = [msg |-> Len(sent) + 1, pos |-> 1]
        BY <1>2, <1>3, <3>2
      <4>4. Follows(c, d)'
        BY <4>2, <4>3 DEF Follows, PartsOf
      <4> QED BY <4>1, <4>3, <4>4
    <3>3. CASE i > Size
      <4>1. PICK c : c = Cell(i)' /\ c = [msg |-> Len(sent) + 1, pos |-> i - Size]
        BY <1>2, <1>3, <3>3
      <4>2. PICK d : d = Cell(i + 1)' /\ d = [msg |-> Len(sent) + 1, pos |-> i + 1 - Size]
        BY <1>2, <1>3, <3>3
      <4>3. Follows(c, d)'
        BY <1>2, <1>3, <3>3, <4>1, <4>2 DEF Follows
      <4> QED BY <4>1, <4>2, <4>3
    <3> QED BY <1>2, <1>3, <3>1, <3>2, <3>3
  <2>3. ASSUME NEW i \in 1 .. Size' - 1 PROVE Follows(Cell(i), Cell(i + 1))'
    <3>1. i \in 1 .. Size + n - 1
      BY <1>2, <1>3
    <3>2. PICK c, d : c = Cell(i)' /\ d = Cell(i + 1)' /\ Follows(c, d)'
      BY <2>2, <3>1, Zenon
    <3> QED BY <3>2 DEF Follows
  <2>5. (Cell(Size).msg = Len(sent) /\ Cell(Size).pos = Len(PartsOf(Cell(Size))))'
    <3>1. PICK c : c = [msg |-> Len(sent) + 1, pos |-> n]
      OBVIOUS
    <3>2. PICK z \in Nat : z = Size + n
      BY <1>2, <1>3
    <3>3. z = Size' /\ z \in Size + 1 .. Size + n /\ z - Size = n
      BY <1>2, <1>3, <3>2
    <3>4. Cell(z)' = c
      BY <1>2, <3>1, <3>3
    <3>5. c.msg = Len(sent') /\ c.pos = Len(PartsOf(c)')
      BY <1>5, <3>1 DEF PartsOf
    <3> QED BY <3>3, <3>4, <3>5
  <2> QED BY <2>3, <2>5 DEF Chained
<1>9. AllHonest' => Begins'
  <2> SUFFICES ASSUME AllHonest' PROVE Start(Cell(1))'
    BY DEF Begins
  <2>1. AllHonest
    <3>1. ASSUME NEW m \in 1 .. Len(sent) PROVE Announces[sent[m]] = BodyLen(sent[m])
      <4>1. sent'[m] = sent[m] /\ m \in 1 .. Len(sent')
        BY <1>1, <1>5
      <4> QED BY <4>1 DEF AllHonest
    <3> QED BY <3>1 DEF AllHonest
  <2>2. CASE Size = 0
    <3>1. Cell(1)'.pos = 1
      BY <1>2, <2>2
    <3> QED BY <3>1 DEF Start
  <2>3. CASE Size > 0
    <3>1. PICK c \in Cells : c = Cell(1) /\ c = Cell(1)'
      BY <1>2, <1>3, <2>3
    <3>2. c.pos = 1 \/ Part(c) \in {"lf", "nul"}
      BY <1>0, <2>1, <2>3, <3>1 DEF Begins, Start
    <3>3. Part(c)' = Part(c)
      BY <1>4
    <3>4. c.pos = 1 \/ Part(c)' \in {"lf", "nul"}
      BY <3>2, <3>3
    <3> QED BY <3>1, <3>4 DEF Start
  <2> QED BY <1>3, <2>2, <2>3
<1> QED BY <1>6, <1>7, <1>8, <1>9 DEF Stream, Unwrapped

-----------------------------------------------------------------------------
(* The main thread reads and handles.                                      *)

(* What goes away at the front leaves the rest as it was.                  *)
LEMMA ChainKept ==
  ASSUME Chained, sent' = sent, NEW r \in Nat, Size' \in Nat, Size \in Nat,
         Size' = Size - r, \A i \in 1 .. Size' : Cell(i)' = Cell(i + r)
  PROVE  /\ Chained'
         /\ (Size' > 0 => Start(Cell(r + 1))) => Begins'
<1>1. PICK z \in Nat : z = Size'
  OBVIOUS
<1>2. z = Size - r /\ \A i \in 1 .. z : Cell(i)' = Cell(i + r)
  BY <1>1
<1>3. ASSUME NEW i \in 1 .. z - 1 PROVE Follows(Cell(i), Cell(i + 1))'
  <2>1. i \in 1 .. z /\ i + 1 \in 1 .. z /\ i + r \in 1 .. Size - 1
    BY <1>1, <1>2
  <2>2. /\ Cell(i)' = Cell(i + r) /\ Cell(i + 1)' = Cell((i + 1) + r)
        /\ (i + 1) + r = (i + r) + 1
    BY <1>2, <2>1
  <2>3. Follows(Cell(i + r), Cell((i + r) + 1))
    BY <2>1 DEF Chained
  <2> QED BY <2>2, <2>3 DEF Follows
<1>4. ASSUME z > 0
      PROVE  Cell(z)'.msg = Len(sent') /\ Cell(z)'.pos = Len(PartsOf(Cell(z))')
  <2>1. Cell(z)' = Cell(Size)
    BY <1>1, <1>2, <1>4
  <2>2. Cell(Size).msg = Len(sent) /\ Cell(Size).pos = Len(PartsOf(Cell(Size)))
    BY <1>1, <1>2, <1>4 DEF Chained
  <2>3. PartsOf(Cell(z))' = PartsOf(Cell(Size))
    BY <2>1 DEF PartsOf
  <2> QED BY <2>1, <2>2, <2>3
<1>5. Chained'
  BY <1>1, <1>3, <1>4 DEF Chained
<1>6. ASSUME Size' > 0 => Start(Cell(r + 1)) PROVE Begins'
  <2> SUFFICES ASSUME Size' > 0 PROVE Start(Cell(1))'
    BY DEF Begins
  <2>1. Cell(1)' = Cell(1 + r) /\ 1 + r = r + 1
    BY <1>1, <1>2
  <2>2. Start(Cell(r + 1))
    BY <1>6
  <2>3. PICK c : c = Cell(1)' /\ c = Cell(r + 1)
    BY <2>1
  <2>4. Part(c)' = Part(c)
    BY DEF Part
  <2> QED BY <2>2, <2>3, <2>4 DEF Start
<1> QED BY <1>5, <1>6

(* Reading moves cells from the wire to the buffer.                        *)
LEMMA ReadCells ==
  ASSUME TypeOK, Filled, fault = "none", NEW n \in 1 .. Len(wire), Read(n)
  PROVE  /\ in_size = 0 /\ in_size' = n /\ n <= RTSP_BUFFERSIZE
         /\ Size' = Size /\ \A i \in 1 .. Size : Cell(i)' = Cell(i)
         /\ wire' \in Seq(Cells)
         /\ in_buffer' \in [1 .. RTSP_BUFFERSIZE -> Cells \cup {Zero}]
         /\ \A i \in 1 .. n : in_buffer'[i] = wire[i] /\ wire[i] \in Cells
<1>1. wire \in Seq(Cells) /\ in_buffer \in [1 .. RTSP_BUFFERSIZE -> Cells \cup {Zero}]
  BY Zenon DEF TypeOK
<1>2. in_size = 0 /\ Len(wire) \in Nat /\ RTSP_BUFFERSIZE \in Nat /\ Size = Len(wire)
  BY <1>1, InputAssumption DEF Read, Filled, Size
<1>3. /\ in_size' = n /\ n <= RTSP_BUFFERSIZE
      /\ in_buffer' = [i \in 1 .. RTSP_BUFFERSIZE |->
                         IF i \in 1 .. n THEN wire[i] ELSE in_buffer[i]]
      /\ wire' = SubSeq(wire, n + 1, Len(wire))
  BY <1>2 DEF Read
<1>4. \A i \in 1 .. n : wire[i] \in Cells /\ in_buffer'[i] = wire[i]
  BY <1>1, <1>2, <1>3
<1>5. in_buffer' \in [1 .. RTSP_BUFFERSIZE -> Cells \cup {Zero}]
  BY <1>1, <1>2, <1>3, <1>4
<1>6. /\ wire' \in Seq(Cells) /\ Len(wire') = Len(wire) - n
      /\ \A i \in 1 .. Len(wire) - n : wire'[i] = wire[n + i]
  BY <1>1, <1>2, <1>3
<1>7. Size' = Size
  <2>1. Size' = in_size' + Len(wire')
    BY DEF Size
  <2> QED BY <1>2, <1>3, <1>6, <2>1
<1>8. ASSUME NEW i \in 1 .. Size PROVE Cell(i)' = Cell(i)
  <2>1. Cell(i) = wire[i]
    BY <1>2 DEF Cell
  <2>2. CASE i <= n
    BY <1>2, <1>3, <1>4, <2>1, <2>2 DEF Cell
  <2>3. CASE i > n
    <3>1. i - n \in 1 .. Len(wire) - n /\ n + (i - n) = i
      BY <1>2, <2>3
    <3>2. wire'[i - n] = wire[i]
      BY <1>6, <3>1
    <3> QED BY <1>2, <1>3, <2>1, <2>3, <3>2 DEF Cell
  <2> QED BY <1>2, <2>2, <2>3
<1> QED BY <1>2, <1>3, <1>4, <1>5, <1>6, <1>7, <1>8

(* RTSP_remove_msg takes cells off the front, or wraps in_size.            *)
LEMMA RemoveCells ==
  ASSUME TypeOK, Filled, fault = "none", NEW len \in Nat, len <= in_size + 1,
         RTSP_remove_msg(len), UNCHANGED <<sent, wire>>
  PROVE  /\ IF len > in_size
              THEN fault' = "in_size wraps" /\ in_size' # in_size
              ELSE /\ fault' = "none" /\ in_size' = in_size - len
                   /\ Size' = Size - len /\ Size' \in Nat
                   /\ \A i \in 1 .. Size' : Cell(i)' = Cell(i + len)
                   /\ \A i \in 1 .. in_size' : in_buffer'[i] \in Cells
         /\ in_size' \in 0 .. SizeMod - 1
         /\ fault' = "none" => in_size' <= RTSP_BUFFERSIZE
         /\ in_buffer' \in [1 .. RTSP_BUFFERSIZE -> Cells \cup {Zero}]
<1>1. in_buffer \in [1 .. RTSP_BUFFERSIZE -> Cells \cup {Zero}]
  BY Zenon DEF TypeOK
<1>2. /\ RTSP_BUFFERSIZE \in Nat /\ in_size \in Nat /\ Len(wire) \in Nat
      /\ Size = in_size + Len(wire) /\ in_size <= RTSP_BUFFERSIZE
      /\ SizeMod \in Nat /\ SizeMod > RTSP_BUFFERSIZE + 1
      /\ \A i \in 1 .. in_size : in_buffer[i] \in Cells
  <2>1. RTSP_BUFFERSIZE \in Nat /\ SizeMod \in Nat /\ SizeMod > RTSP_BUFFERSIZE + 1
    BY InputAssumption
  <2>2. in_size <= RTSP_BUFFERSIZE
    BY Zenon DEF TypeOK
  <2> QED BY <2>1, <2>2, UnreadCells DEF Size, Filled
<1>3. \/ in_buffer' = in_buffer /\ (in_size' = 0 \/ len = 0)
      \/ in_buffer' = [i \in 1 .. RTSP_BUFFERSIZE |->
                         IF i + len <= RTSP_BUFFERSIZE
                           THEN in_buffer[i + len] ELSE Zero]
  BY Zenon DEF RTSP_remove_msg
<1>4. in_buffer' \in [1 .. RTSP_BUFFERSIZE -> Cells \cup {Zero}]
  BY <1>1, <1>2, <1>3
<1>5. CASE len > in_size
  <2>0. in_size' = in_size - len + SizeMod
    BY <1>5, Zenon DEF RTSP_remove_msg
  <2>1. fault' = "in_size wraps"
    BY <1>5, Zenon DEF RTSP_remove_msg
  <2>2. in_size' \in 0 .. SizeMod - 1 /\ in_size' # in_size
    BY <1>2, <1>5, <2>0
  <2>3. fault' # "none"
    <3>1. "in_size wraps" # "none"
      OBVIOUS
    <3> QED BY <2>1, <3>1, Zenon
  <2> QED BY <1>4, <1>5, <2>1, <2>2, <2>3, Zenon
<1>6. CASE len <= in_size
  <2>1. ~(len > in_size)
    BY <1>2, <1>6
  <2>2. in_size' = in_size - len /\ fault' = "none"
    BY <2>1, Zenon DEF RTSP_remove_msg
  <2>5. ASSUME NEW i \in 1 .. in_size - len
        PROVE  in_buffer'[i] = in_buffer[i + len] /\ in_buffer'[i] \in Cells
    <3>1. /\ i \in 1 .. RTSP_BUFFERSIZE /\ i + len <= RTSP_BUFFERSIZE
          /\ i + len \in 1 .. in_size /\ in_size' # 0
      BY <1>2, <1>6, <2>2
    <3>2. in_buffer'[i] = in_buffer[i + len]
      <4>1. CASE in_buffer' = in_buffer /\ (in_size' = 0 \/ len = 0)
        <5>1. i + len = i
          BY <3>1, <4>1
        <5> QED BY <4>1, <5>1
      <4>2. CASE in_buffer' = [j \in 1 .. RTSP_BUFFERSIZE |->
                                 IF j + len <= RTSP_BUFFERSIZE
                                   THEN in_buffer[j + len] ELSE Zero]
        BY <3>1, <4>2
      <4> QED BY <1>3, <4>1, <4>2
    <3> QED BY <1>2, <3>1, <3>2
  <2>6. Size' = Size - len /\ Size' \in Nat
    <3>1. Size' = in_size' + Len(wire)
      BY DEF Size
    <3> QED BY <1>2, <1>6, <2>2, <3>1
  <2>7. ASSUME NEW i \in 1 .. Size - len PROVE Cell(i)' = Cell(i + len)
    <3>1. Cell(i)' = IF i <= in_size - len THEN in_buffer'[i]
                     ELSE wire[i - (in_size - len)]
      BY <2>2 DEF Cell
    <3>2. i - (in_size - len) = (i + len) - in_size
      BY <1>2
    <3>3. i <= in_size - len <=> i + len <= in_size
      BY <1>2
    <3>4. CASE i <= in_size - len
      <4>1. i \in 1 .. in_size - len
        BY <1>2, <3>4
      <4> QED BY <2>5, <3>1, <3>3, <3>4, <4>1 DEF Cell
    <3>5. CASE ~(i <= in_size - len)
      BY <3>1, <3>2, <3>3, <3>5, Zenon DEF Cell
    <3> QED BY <3>4, <3>5
  <2>8. in_size' \in 0 .. SizeMod - 1 /\ in_size' <= RTSP_BUFFERSIZE
    BY <1>2, <1>6, <2>2
  <2>9. \A i \in 1 .. in_size' : in_buffer'[i] \in Cells
    BY <2>2, <2>5
  <2>10. \A i \in 1 .. Size' : Cell(i)' = Cell(i + len)
    <3> SUFFICES ASSUME NEW i \in 1 .. Size' PROVE Cell(i)' = Cell(i + len)
      OBVIOUS
    <3>1. i \in 1 .. Size - len
      BY <1>2, <2>6
    <3> QED BY <2>7, <3>1
  <2> QED BY <1>4, <2>1, <2>2, <2>6, <2>8, <2>9, <2>10, Zenon
<1>7. len > in_size \/ len <= in_size
  BY <1>2
<1> QED BY <1>5, <1>6, <1>7, Zenon

(* strstr finds a header in the buffer or none.                            *)
LEMMA HeaderTypes ==
  ASSUME TypeOK, NEW part
  PROVE  Header(part) \in 0 .. MaxMsgs
<1>1. /\ in_buffer \in [1 .. RTSP_BUFFERSIZE -> Cells \cup {Zero}]
      /\ sent \in Seq(Kinds) /\ Len(sent) <= MaxMsgs
  BY Zenon DEF TypeOK
<1>2. RTSP_BUFFERSIZE \in Nat /\ MaxMsgs \in Nat
  BY InputAssumption
<1>3. StrLen \in 0 .. RTSP_BUFFERSIZE
  <2> DEFINE T == StrEnds \cup {RTSP_BUFFERSIZE + 1}
  <2>1. T \subseteq 1 .. RTSP_BUFFERSIZE + 1 /\ T \subseteq Nat /\ T # {}
    BY <1>2 DEF StrEnds
  <2>2. Least(T) \in T
    BY <2>1, LeastIs
  <2> QED BY <1>2, <2>1, <2>2 DEF StrLen
<1> DEFINE found == {i \in 1 .. StrLen : PartAt(i) = part}
<1>4. CASE found = {}
  BY <1>2, <1>4 DEF Header
<1>5. CASE found # {}
  <2>1. found \subseteq Nat /\ found \subseteq 1 .. RTSP_BUFFERSIZE
    BY <1>2, <1>3
  <2>2. Least(found) \in 1 .. RTSP_BUFFERSIZE
    BY <1>5, <2>1, LeastIs
  <2>3. PICK c \in Cells \cup {Zero} : c = in_buffer[Least(found)]
    BY <1>1, <2>2
  <2>4. c.msg \in 0 .. MaxMsgs
    BY <1>1, <1>2, <2>3, CellsAre DEF Zero
  <2> QED BY <1>5, <2>3, <2>4 DEF Header
<1> QED BY <1>4, <1>5

(* Reading changes where the cells are, not what they are.                 *)
LEMMA ReadStream ==
  ASSUME Stream, NEW n \in 1 .. Len(wire), Read(n)
  PROVE  Stream'
<1>0. TypeOK /\ fault = "none" /\ Filled /\ Chained /\ (AllHonest => Begins)
  BY Zenon DEF Read, Stream, Unwrapped
<1>1. /\ in_size = 0 /\ in_size' = n /\ n <= RTSP_BUFFERSIZE
      /\ Size' = Size /\ \A i \in 1 .. Size : Cell(i)' = Cell(i)
      /\ wire' \in Seq(Cells)
      /\ in_buffer' \in [1 .. RTSP_BUFFERSIZE -> Cells \cup {Zero}]
      /\ \A i \in 1 .. n : in_buffer'[i] = wire[i] /\ wire[i] \in Cells
  BY <1>0, ReadCells
<1>2. /\ UNCHANGED <<sent, out, fault, used, answers, replied>>
      /\ pc' = "handler" /\ whole' \in BOOLEAN
  <2>1. whole' = (whole /\ AtEnd(n))
    BY DEF Read
  <2>2. whole' \in BOOLEAN
    BY <2>1, Zenon
  <2> QED BY <2>2, Zenon DEF Read
<1>3. Cells' = Cells
  BY <1>2 DEF Cells
<1>4. in_size' \in 0 .. SizeMod - 1 /\ in_size' <= RTSP_BUFFERSIZE
  BY <1>1, InputAssumption
<1>5. TypeOK'
  <2>1. /\ sent' \in Seq(Kinds) /\ Len(sent') <= MaxMsgs
        /\ out' \in Seq(Msgs) /\ Len(out') <= OutReplies
        /\ fault' \in {"none", "in_size wraps"}
        /\ used' \in [msg : 0 .. MaxMsgs, CSeq : 0 .. MaxMsgs, Session : 0 .. MaxMsgs]
        /\ answers' \in [Msgs -> 0 .. 2] /\ replied' \in Seq(Msgs)
    BY <1>0, <1>2, Zenon DEF TypeOK
  <2>2. pc' \in {"select", "handler", "gone"}
    BY <1>2
  <2> QED BY <1>1, <1>2, <1>3, <1>4, <2>1, <2>2, Zenon DEF TypeOK
<1>6. Filled'
  BY <1>1, <1>2, <1>3 DEF Filled
<1>7. Chained' /\ (AllHonest' => Begins')
  <2>1. Size \in Nat /\ Size' = Size - 0 /\ 0 \in Nat
    BY <1>0, <1>1, UnreadCells
  <2>2. \A i \in 1 .. Size' : Cell(i)' = Cell(i + 0)
    BY <1>1, <2>1
  <2>3. AllHonest' = AllHonest
    BY <1>2 DEF AllHonest
  <2>4. ASSUME AllHonest PROVE Size' > 0 => Start(Cell(0 + 1))
    BY <1>0, <1>1, <2>4 DEF Begins
  <2> QED BY <1>0, <1>1, <1>2, <2>1, <2>2, <2>3, <2>4, ChainKept
<1> QED BY <1>5, <1>6, <1>7 DEF Stream, Unwrapped

(* An answer is queued if there is room, and what it was given noted.      *)
LEMMA AnswerTypes ==
  ASSUME TypeOK, NEW m \in Msgs, Answer(m)
  PROVE  /\ out' = out \/ out' = Append(out, m)
         /\ out' \in Seq(Msgs) /\ Len(out') <= OutReplies
         /\ used' \in [msg : 0 .. MaxMsgs, CSeq : 0 .. MaxMsgs, Session : 0 .. MaxMsgs]
         /\ used' = used \/ used' = [msg |-> m, CSeq |-> Header("CSeq"),
                                     Session |-> Header("Session")]
         /\ answers' \in [Msgs -> 0 .. 2]
         /\ answers' = [answers EXCEPT ![m] = IF @ = 2 THEN 2 ELSE @ + 1]
<1>1. /\ out \in Seq(Msgs) /\ Len(out) <= OutReplies /\ answers \in [Msgs -> 0 .. 2]
      /\ used \in [msg : 0 .. MaxMsgs, CSeq : 0 .. MaxMsgs, Session : 0 .. MaxMsgs]
  BY Zenon DEF TypeOK
<1>2. Queued(m) = out \/ (Len(out) < OutReplies /\ Queued(m) = Append(out, m))
  BY DEF Queued
<1>3. OutReplies \in Nat /\ MaxMsgs \in Nat
  BY InputAssumption
<1>4. out' = out \/ (out' = Append(out, m) /\ Len(out) < OutReplies)
  <2>1. out' \in {out, Queued(m)}
    BY Zenon DEF Answer
  <2> QED BY <1>2, <2>1
<1>5. out' \in Seq(Msgs) /\ Len(out') <= OutReplies
  <2>1. CASE out' = out
    BY <1>1, <2>1
  <2>2. CASE out' = Append(out, m) /\ Len(out) < OutReplies
    <3>1. Append(out, m) \in Seq(Msgs) /\ Len(Append(out, m)) = Len(out) + 1
      BY <1>1
    <3>2. Len(out) \in Nat
      BY <1>1
    <3> QED BY <1>3, <2>2, <3>1, <3>2
  <2> QED BY <1>4, <2>1, <2>2
<1>6. used' = used \/ used' = [msg |-> m, CSeq |-> Header("CSeq"),
                               Session |-> Header("Session")]
  BY Zenon DEF Answer
<1>7. used' \in [msg : 0 .. MaxMsgs, CSeq : 0 .. MaxMsgs, Session : 0 .. MaxMsgs]
  <2>1. m \in 0 .. MaxMsgs
    BY <1>3 DEF Msgs
  <2> QED BY <1>1, <1>6, <2>1, HeaderTypes
<1>8. answers' = [answers EXCEPT ![m] = IF @ = 2 THEN 2 ELSE @ + 1]
  BY DEF Answer
<1>9. answers' \in [Msgs -> 0 .. 2]
  BY <1>1, <1>8
<1> QED BY <1>4, <1>5, <1>6, <1>7, <1>8, <1>9

(* The message that sscanf finds is one of those in the buffer.            *)
LEMMA AddressedIs ==
  ASSUME TypeOK, Filled, fault = "none", in_size > 0
  PROVE  Addressed \in Msgs
<1>1. in_size \in Nat \ {0} /\ sent \in Seq(Kinds) /\ Len(sent) <= MaxMsgs
  <2>1. in_size \in Nat
    BY UnreadCells
  <2>2. sent \in Seq(Kinds) /\ Len(sent) <= MaxMsgs
    BY Zenon DEF TypeOK
  <2> QED BY <2>1, <2>2
<1> DEFINE text == {i \in 1 .. in_size : PartAt(i) \notin {"cr", "lf"}}
<1>2. PICK i \in 1 .. in_size : i = IF text = {} THEN 1 ELSE Least(text)
  <2>1. text # {} => Least(text) \in text
    <3>1. text \subseteq Nat
      BY <1>1
    <3> QED BY <3>1, LeastIs, Zenon
  <2>2. text \subseteq 1 .. in_size /\ 1 \in 1 .. in_size
    BY <1>1
  <2> HIDE DEF text
  <2> QED BY <2>1, <2>2
<1>3. Addressed = in_buffer[i].msg
  BY <1>2, Zenon DEF Addressed
<1>4. in_buffer[i] \in Cells
  BY <1>2 DEF Filled
<1>5. in_buffer[i].msg \in 1 .. Len(sent)
  BY <1>1, <1>4, CellsAre
<1> QED BY <1>1, <1>3, <1>5, InputAssumption DEF Msgs

(* What a turn of the loop finds and what it removes.                      *)
LEMMA HandleRemoves ==
  ASSUME Stream, Handle
  PROVE  LET len == RTSP_full_msg_rcvd IN
         /\ in_size \in Nat \ {0} /\ Size \in Nat \ {0} /\ Unwrapped /\ fault = "none"
         /\ Cell(1) \in Cells /\ in_buffer[1] = Cell(1)
         /\ len \in Nat /\ len <= in_size + 1 /\ RTSP_remove_msg(len)
         /\ AllHonest /\ Cell(1).pos # 1 => len = 0
         /\ AllHonest /\ len <= in_size /\ Size > len => Start(Cell(len + 1))
<1> DEFINE len == RTSP_full_msg_rcvd
           n == Len(PartsOf(Cell(1)))
<1>0. TypeOK /\ fault = "none" /\ in_size > 0 /\ Filled /\ Chained /\ (AllHonest => Begins)
  BY Zenon DEF Handle, Stream, Unwrapped
<1>1. /\ in_size \in Nat \ {0} /\ Size \in Nat \ {0}
      /\ Cell(1) \in Cells /\ in_buffer[1] = Cell(1)
  <2>1. Size = in_size + Len(wire)
    BY DEF Size
  <2>2. in_size \in Nat \ {0} /\ Size \in Nat \ {0} /\ 1 \in 1 .. Size
    BY <1>0, <2>1, UnreadCells
  <2> QED BY <1>0, <2>2, UnreadCells DEF Cell
<1>2. len \in Nat /\ len <= in_size + 1
  BY <1>0, LengthIs
<1>3. RTSP_remove_msg(len)
  <2>1. PICK l \in {RTSP_full_msg_rcvd} : RTSP_remove_msg(l)
    BY Zenon DEF Handle
  <2>2. l = RTSP_full_msg_rcvd
    OBVIOUS
  <2> QED BY <2>1, <2>2, Zenon
<1> HIDE DEF len
<1>4. ASSUME AllHonest, Cell(1).pos # 1
      PROVE  len = 0 /\ Start(Cell(len + 1))
  <2>1. Start(Cell(1))
    BY <1>0, <1>1, <1>4 DEF Begins
  <2>2. PartAt(1) \in {"lf", "nul"}
    BY <1>1, <1>4, <2>1 DEF Start, PartAt
  <2>3. NoHeader /\ PartAt(1) # "$"
    BY <2>2 DEF NoHeader
  <2>4. len = 0
    BY <2>3, Zenon DEF RTSP_full_msg_rcvd, len
  <2> QED BY <2>1, <2>4
<1>5. ASSUME AllHonest, Cell(1).pos = 1, len <= in_size, Size > len
      PROVE  Start(Cell(len + 1))
  <2>1. /\ in_size >= n => len = n
        /\ in_size < n => \/ len = 0
                          \/ len > in_size
                          \/ len = in_size /\ Part(Cell(in_size + 1)) \in {"lf", "nul"}
    BY <1>0, <1>5, Measured DEF len
  <2>2. n \in 1 .. Size /\ n \in Nat /\ (Size # n => Cell(n + 1).pos = 1)
    BY <1>0, <1>1, <1>5, FirstMessage
  <2>3. CASE in_size >= n
    BY <1>5, <2>1, <2>2, <2>3 DEF Start
  <2>4. CASE in_size < n
    BY <1>1, <1>2, <1>5, <2>1, <2>4 DEF Start
  <2> QED BY <1>1, <2>2, <2>3, <2>4
<1>6. Unwrapped
  BY <1>0 DEF Unwrapped
<1> QED BY <1>0, <1>1, <1>2, <1>3, <1>4, <1>5, <1>6 DEF len

(* Handling leaves a gapless end of what was sent, unless in_size wraps.   *)
LEMMA HandleStream ==
  ASSUME Stream, Handle
  PROVE  Stream'
<1> DEFINE len == RTSP_full_msg_rcvd
<1>1. /\ in_size \in Nat \ {0} /\ Size \in Nat \ {0} /\ Unwrapped /\ fault = "none"
      /\ len \in Nat /\ len <= in_size + 1 /\ RTSP_remove_msg(len)
      /\ AllHonest /\ len <= in_size /\ Size > len => Start(Cell(len + 1))
  BY HandleRemoves
<1>2. /\ Answer(Addressed) /\ UNCHANGED <<sent, wire, pc, replied, whole>>
      /\ pc = "handler" /\ TypeOK /\ Filled /\ Chained
  BY <1>1, Zenon DEF Handle, Stream, Unwrapped
<1>3. /\ out' \in Seq(Msgs) /\ Len(out') <= OutReplies
      /\ used' \in [msg : 0 .. MaxMsgs, CSeq : 0 .. MaxMsgs, Session : 0 .. MaxMsgs]
      /\ answers' \in [Msgs -> 0 .. 2]
  <2>1. in_size > 0
    BY <1>1
  <2>2. Addressed \in Msgs
    BY <1>1, <1>2, <2>1, AddressedIs
  <2> QED BY <1>2, <2>2, AnswerTypes
<1> HIDE DEF len
<1>4. /\ IF len > in_size
           THEN fault' = "in_size wraps" /\ in_size' # in_size
           ELSE /\ fault' = "none" /\ in_size' = in_size - len
                /\ Size' = Size - len /\ Size' \in Nat
                /\ \A i \in 1 .. Size' : Cell(i)' = Cell(i + len)
                /\ \A i \in 1 .. in_size' : in_buffer'[i] \in Cells
      /\ in_size' \in 0 .. SizeMod - 1
      /\ fault' = "none" => in_size' <= RTSP_BUFFERSIZE
      /\ in_buffer' \in [1 .. RTSP_BUFFERSIZE -> Cells \cup {Zero}]
  BY <1>1, <1>2, RemoveCells, Zenon
<1>5. Cells' = Cells /\ AllHonest' = AllHonest
  BY <1>2 DEF Cells, AllHonest
<1>6. fault' \in {"none", "in_size wraps"}
  <2>1. fault' = "in_size wraps" \/ fault' = "none"
    BY <1>4, Zenon
  <2> QED BY <2>1, Zenon
<1>7. TypeOK'
  <2>1. /\ sent' \in Seq(Kinds) /\ Len(sent') <= MaxMsgs /\ wire' \in Seq(Cells)
        /\ pc' \in {"select", "handler", "gone"} /\ replied' \in Seq(Msgs)
        /\ whole' \in BOOLEAN
    BY <1>2, Zenon DEF TypeOK
  <2> QED BY <1>3, <1>4, <1>5, <1>6, <2>1, Zenon DEF TypeOK
<1>8. fault' = "none" => Unwrapped'
  <2> SUFFICES ASSUME fault' = "none" PROVE Unwrapped'
    OBVIOUS
  <2>1. ~(len > in_size)
    <3>1. "in_size wraps" # "none"
      OBVIOUS
    <3> QED BY <1>4, <3>1, Zenon
  <2>2. /\ Size' = Size - len /\ Size' \in Nat /\ Size \in Nat
        /\ \A i \in 1 .. Size' : Cell(i)' = Cell(i + len)
        /\ \A i \in 1 .. in_size' : in_buffer'[i] \in Cells
    BY <1>1, <1>4, <2>1, Zenon
  <2>3. ASSUME AllHonest PROVE Size' > 0 => Start(Cell(len + 1))
    <3>1. Size' > 0 => len <= in_size /\ Size > len
      BY <1>1, <2>1, <2>2
    <3> QED BY <1>1, <2>3, <3>1, Zenon
  <2>4. Chained' /\ (AllHonest => Begins')
    BY <1>1, <1>2, <2>2, <2>3, ChainKept
  <2>5. Filled'
    <3>1. pc' # "select"
      BY <1>2
    <3> QED BY <1>5, <2>2, <3>1, Zenon DEF Filled
  <2> QED BY <1>5, <2>4, <2>5, Zenon DEF Unwrapped
<1> QED BY <1>7, <1>8 DEF Stream

(* A step that leaves the text alone.                                      *)
LEMMA StreamKept ==
  ASSUME Stream, UNCHANGED <<sent, wire, in_buffer, in_size, fault>>,
         TypeOK', pc' = "select" => in_size = 0
  PROVE  Stream'
<1> SUFFICES ASSUME fault' = "none" PROVE Unwrapped'
  BY DEF Stream
<1>1. Filled /\ Chained /\ (AllHonest => Begins)
  BY DEF Stream, Unwrapped
<1>2. Filled'
  BY <1>1 DEF Filled, Cells
<1>3. Chained'
  BY <1>1 DEF Chained, Follows, Size, Cell, PartsOf
<1>4. AllHonest' = AllHonest /\ Begins' = Begins
  BY DEF AllHonest, Begins, Start, Size, Cell, Part
<1> QED BY <1>1, <1>2, <1>3, <1>4, Zenon DEF Unwrapped

(* The replies are written, or the connection is given up.                 *)
LEMMA ReturnStream ==
  ASSUME Stream, Return \/ ReturnFails \/ Close
  PROVE  Stream'
<1>1. /\ UNCHANGED <<sent, wire, in_buffer, in_size, fault, used, answers, whole>>
      /\ pc' = "select" \/ pc' = "gone"
      /\ pc' = "select" => in_size = 0
      /\ \/ out' = out /\ replied' = replied
         \/ out' = <<>> /\ replied' = replied \o out
  <2>1. CASE Return
    BY <2>1 DEF Return
  <2>2. CASE Close \/ ReturnFails
    <3>1. pc' # "select"
      BY <2>2 DEF Close, ReturnFails
    <3> QED BY <2>2, <3>1, Zenon DEF Close, ReturnFails
  <2> QED BY <2>1, <2>2
<1>2. out \in Seq(Msgs) /\ Len(out) <= OutReplies /\ replied \in Seq(Msgs)
  BY Zenon DEF Stream, TypeOK
<1>3. out' \in Seq(Msgs) /\ Len(out') <= OutReplies /\ replied' \in Seq(Msgs)
  <2>1. CASE out' = out /\ replied' = replied
    BY <1>2, <2>1
  <2>2. CASE out' = <<>> /\ replied' = replied \o out
    <3>1. <<>> \in Seq(Msgs) /\ Len(<<>>) <= OutReplies
      BY InputAssumption
    <3>2. replied \o out \in Seq(Msgs)
      BY <1>2
    <3> QED BY <2>2, <3>1, <3>2
  <2> QED BY <1>1, <2>1, <2>2
<1>4. Cells' = Cells
  BY <1>1 DEF Cells
<1>5. /\ sent' \in Seq(Kinds) /\ Len(sent') <= MaxMsgs /\ wire' \in Seq(Cells)
      /\ in_buffer' \in [1 .. RTSP_BUFFERSIZE -> Cells \cup {Zero}]
      /\ in_size' \in 0 .. SizeMod - 1 /\ (fault' = "none" => in_size' <= RTSP_BUFFERSIZE)
      /\ fault' \in {"none", "in_size wraps"}
      /\ used' \in [msg : 0 .. MaxMsgs, CSeq : 0 .. MaxMsgs, Session : 0 .. MaxMsgs]
      /\ answers' \in [Msgs -> 0 .. 2] /\ whole' \in BOOLEAN
  BY <1>1, Zenon DEF Stream, TypeOK
<1>6. pc' \in {"select", "handler", "gone"}
  <2>1. pc' = "select" \/ pc' = "gone"
    BY <1>1
  <2> QED BY <2>1
<1>7. TypeOK'
  BY <1>3, <1>4, <1>5, <1>6, Zenon DEF TypeOK
<1> QED BY <1>1, <1>7, StreamKept

(* Every step keeps the stream gapless.                                    *)
LEMMA StreamNext == Stream /\ [Next]_vars => Stream'
<1> SUFFICES ASSUME Stream, [Next]_vars PROVE Stream'
  OBVIOUS
<1>1. CASE \E kind \in Kinds : Send(kind)
  BY <1>1, SendStream
<1>2. CASE Recv
  BY <1>2, ReadStream DEF Recv
<1>3. CASE Main \/ Close
  BY <1>3, HandleStream, ReturnStream DEF Main
<1>4. CASE UNCHANGED vars
  <2>1. /\ UNCHANGED <<sent, wire, in_buffer, in_size, out, pc>>
        /\ UNCHANGED <<fault, used, answers, replied, whole>>
    BY <1>4 DEF vars
  <2>2. Cells' = Cells
    BY <2>1 DEF Cells
  <2>3. TypeOK'
    BY <2>1, <2>2, Zenon DEF Stream, TypeOK
  <2>4. CASE fault = "none"
    <3>1. pc' = "select" => in_size = 0
      BY <2>1, <2>4, Zenon DEF Stream, Unwrapped, Filled
    <3> QED BY <2>1, <2>3, <3>1, StreamKept
  <2>5. CASE fault # "none"
    BY <2>1, <2>3, <2>5 DEF Stream
  <2> QED BY <2>4, <2>5
<1> QED BY <1>1, <1>2, <1>3, <1>4 DEF Next

(* A new connection has an empty buffer.                                   *)
LEMMA StreamInit == Init => Stream
<1> SUFFICES ASSUME Init PROVE Stream
  OBVIOUS
<1>1. /\ sent = <<>> /\ wire = <<>> /\ in_size = 0 /\ out = <<>> /\ pc = "select"
      /\ fault = "none" /\ used = [msg |-> 0, CSeq |-> 0, Session |-> 0]
      /\ in_buffer = [i \in 1 .. RTSP_BUFFERSIZE |-> Zero]
      /\ answers = [m \in Msgs |-> 0] /\ replied = <<>>
  BY Zenon DEF Init
<1>2. whole \in BOOLEAN
  BY Zenon DEF Init
<1>3. /\ MaxMsgs \in Nat /\ RTSP_BUFFERSIZE \in Nat /\ OutReplies \in Nat
      /\ SizeMod \in Nat /\ SizeMod > RTSP_BUFFERSIZE + 1
  BY InputAssumption
<1>4. /\ sent \in Seq(Kinds) /\ Len(sent) <= MaxMsgs
      /\ in_size \in 0 .. SizeMod - 1 /\ in_size <= RTSP_BUFFERSIZE
      /\ out \in Seq(Msgs) /\ Len(out) <= OutReplies /\ replied \in Seq(Msgs)
      /\ pc \in {"select", "handler", "gone"} /\ fault \in {"none", "in_size wraps"}
      /\ used \in [msg : 0 .. MaxMsgs, CSeq : 0 .. MaxMsgs, Session : 0 .. MaxMsgs]
      /\ answers \in [Msgs -> 0 .. 2]
  BY <1>1, <1>3
<1>5. wire \in Seq(Cells) /\ in_buffer \in [1 .. RTSP_BUFFERSIZE -> Cells \cup {Zero}]
  BY <1>1
<1>6. TypeOK
  BY <1>2, <1>4, <1>5, Zenon DEF TypeOK
<1>7. Filled /\ Chained /\ Begins
  BY <1>1 DEF Filled, Chained, Begins, Size
<1> QED BY <1>6, <1>7 DEF Stream, Unwrapped

LEMMA StreamAlways == Spec => []Stream
BY StreamInit, StreamNext, PTL DEF Spec

(* The variables of a connection have their types; in_size, from which     *)
(* RTSP_remove_msg subtracts what RTSP_full_msg_rcvd measured, stays        *)
(* within in_buffer until that is more than there is and it wraps.         *)
THEOREM InputTypes == Spec => []TypeOK
<1>1. Stream => TypeOK
  BY DEF Stream
<1> QED BY <1>1, StreamAlways, PTL

(* Until in_size wraps, what is left in in_buffer and on its way has no    *)
(* gap; if the client announces its lengths, it begins with a message, or  *)
(* with the "\n" or a NUL that RTSP_full_msg_rcvd did not count because it *)
(* had not arrived.                                                        *)
THEOREM InputFramed == Spec => []Framed
<1>1. Stream => Framed
  <2> SUFFICES ASSUME Stream, fault = "none", Unread # <<>>
               PROVE  /\ AllHonest => \/ Unread[1].pos = 1
                                      \/ Part(Unread[1]) \in {"lf", "nul"}
                      /\ \A i \in 1 .. Len(Unread) - 1 : Follows(Unread[i], Unread[i + 1])
                      /\ Unread[Len(Unread)].msg = Len(sent)
                      /\ Unread[Len(Unread)].pos
                           = Len(Layout[sent[Unread[Len(Unread)].msg]])
    BY DEF Framed
  <2>0. TypeOK /\ Filled /\ Chained /\ (AllHonest => Begins)
    BY Zenon DEF Stream, Unwrapped
  <2>1. /\ Unread \in Seq(Cells) /\ Len(Unread) = Size
        /\ \A i \in 1 .. Size : Unread[i] = Cell(i)
    BY <2>0, UnreadIs
  <2>2. Size \in Nat \ {0}
    BY <2>1
  <2>3. /\ Unread[1] = Cell(1) /\ Unread[Len(Unread)] = Cell(Size)
        /\ \A i \in 1 .. Size - 1 : Unread[i] = Cell(i) /\ Unread[i + 1] = Cell(i + 1)
    BY <2>1, <2>2
  <2>4. AllHonest => Start(Cell(1))
    BY <2>0, <2>2 DEF Begins
  <2> QED BY <2>0, <2>1, <2>2, <2>3, <2>4 DEF Chained, PartsOf, Start
<1> QED BY <1>1, StreamAlways, PTL

(* If the client announces its lengths, RTSP_handler goes round without    *)
(* removing anything only on a message that is not all there, or on the    *)
(* "\n" or a NUL that came apart from its message.                         *)
THEOREM InputRemoves == Spec => RemovedIfWhole
<1>1. ASSUME Stream, Handle, AllHonest, in_size' = in_size
      PROVE  \/ Part(in_buffer[1]) \in {"lf", "nul"}
             \/ \E i \in 1 .. Len(wire) : wire[i].msg = in_buffer[1].msg
  <2> DEFINE len == RTSP_full_msg_rcvd
             n == Len(PartsOf(Cell(1)))
  <2> SUFFICES ASSUME Part(in_buffer[1]) \notin {"lf", "nul"}
               PROVE  \E i \in 1 .. Len(wire) : wire[i].msg = in_buffer[1].msg
    OBVIOUS
  <2>1. /\ in_size \in Nat \ {0} /\ Size \in Nat \ {0} /\ Unwrapped /\ fault = "none"
        /\ in_buffer[1] = Cell(1) /\ len \in Nat /\ len <= in_size + 1
        /\ RTSP_remove_msg(len)
    BY <1>1, HandleRemoves
  <2>2. Cell(1).pos = 1
    BY <1>1, <2>1 DEF Unwrapped, Begins, Start
  <2>3. len = 0
    <3>1. UNCHANGED <<sent, wire>>
      BY <1>1, Zenon DEF Handle
    <3> HIDE DEF len
    <3>2. in_size' # in_size \/ in_size' = in_size - len
      <4>1. TypeOK /\ Filled
        BY <1>1, <2>1 DEF Stream, Unwrapped
      <4> QED BY <2>1, <3>1, <4>1, RemoveCells, Zenon
    <3> QED BY <1>1, <2>1, <3>2
  <2>4. in_size < n
    <3>1. in_size > 0 /\ Size > 0
      BY <2>1
    <3>2. in_size >= n => len = n
      BY <1>1, <2>1, <2>2, <3>1, Measured
    <3>3. n \in 1 .. Size
      BY <1>1, <2>1, <2>2, <3>1, FirstMessage
    <3> HIDE DEF len, n
    <3> QED BY <2>1, <2>3, <3>2, <3>3
  <2>5. wire[1].msg = Cell(1).msg /\ 1 \in 1 .. Len(wire)
    BY <1>1, <2>1, <2>2, <2>4, PartsSeen DEF PartsOf
  <2> QED BY <2>1, <2>5
<1>2. Stream /\ [Next]_vars =>
        [Handle /\ AllHonest /\ in_size' = in_size =>
           \/ Part(in_buffer[1]) \in {"lf", "nul"}
           \/ \E i \in 1 .. Len(wire) : wire[i].msg = in_buffer[1].msg]_vars
  BY <1>1
<1> QED BY <1>2, StreamAlways, PTL DEF Spec, RemovedIfWhole

-----------------------------------------------------------------------------
(* While every read ends with a message of the length it announces.        *)

(* The message that is handled next.                                       *)
First == IF Size = 0 THEN Len(sent) + 1 ELSE Cell(1).msg

(* Nothing is read, or the last of it ends a message; so does what was     *)
(* handled.                                                                *)
ReadWhole ==
  /\ fault = "none"
  /\ Size > 0 => Cell(1).pos = 1
  /\ in_size > 0 => Cell(in_size).pos = Len(PartsOf(Cell(in_size)))

(* What was handled is what comes before it.                               *)
Handled == \A m \in Msgs : answers[m] = IF m < First THEN 1 ELSE 0

(* The replies, written and waiting, rise, and are all to earlier messages.*)
Rising(r) == \A i, j \in 1 .. Len(r) : i < j => r[i] < r[j]
Below(r, m) == \A i \in 1 .. Len(r) : r[i] < m

(* The last request was one the client sent, and given its own headers.    *)
Own ==
  used.msg # 0 =>
    /\ used.msg \in 1 .. Len(sent)
    /\ \A part \in {"CSeq", "Session"} :
         (\E i \in 1 .. Len(Layout[sent[used.msg]]) :
            Layout[sent[used.msg]][i] = part)
         => used[part] = used.msg

OneByOne ==
  whole /\ AllHonest =>
           /\ ReadWhole /\ Handled /\ Own
           /\ Rising(replied \o out) /\ Below(replied \o out, First)

(* The buffer holds the whole of the next message.                         *)
LEMMA WholeInBuffer ==
  ASSUME Stream, AllHonest, ReadWhole, in_size > 0
  PROVE  LET m == Cell(1).msg
             n == Len(PartsOf(Cell(1))) IN
         /\ Cell(1).pos = 1 /\ in_buffer[1].msg = m /\ m \in Msgs
         /\ m \in 1 .. Len(sent) /\ sent[m] \in Kinds /\ PartsOf(Cell(1)) = Layout[sent[m]]
         /\ n \in Nat \ {0} /\ n <= in_size /\ in_size <= Size /\ Size \in Nat \ {0}
         /\ in_size \in Nat /\ RTSP_full_msg_rcvd = n /\ First = m
         /\ IF Size = n THEN m = Len(sent)
            ELSE Cell(n + 1).msg = m + 1 /\ Cell(n + 1).pos = 1
<1> DEFINE m == Cell(1).msg
           n == Len(PartsOf(Cell(1)))
<1>1. /\ in_size \in Nat \ {0} /\ Len(wire) \in Nat /\ Size = in_size + Len(wire)
      /\ Size \in Nat \ {0} /\ in_size <= Size
  <2>1. in_size \in Nat /\ Len(wire) \in Nat /\ Size = in_size + Len(wire)
    BY UnreadCells DEF Stream, Unwrapped, ReadWhole, Size
  <2> QED BY <2>1
<1>2. fault = "none" /\ Cell(1).pos = 1
  BY <1>1 DEF ReadWhole
<1>3. /\ m \in 1 .. Len(sent) /\ sent[m] \in Kinds /\ n \in 1 .. Size
      /\ \A i \in 1 .. n : Cell(i) = [msg |-> m, pos |-> i]
      /\ IF Size = n THEN m = Len(sent)
         ELSE Cell(n + 1).msg = m + 1 /\ Cell(n + 1).pos = 1
  BY <1>1, <1>2, FirstMessage
<1>4. m \in Msgs
  <2>1. sent \in Seq(Kinds) /\ Len(sent) <= MaxMsgs
    BY Zenon DEF Stream, TypeOK
  <2> QED BY <1>3, <2>1, InputAssumption DEF Msgs
<1>5. PartsOf(Cell(1)) = Layout[sent[m]] /\ n = Len(Layout[sent[m]])
  BY DEF PartsOf
<1>6. in_buffer[1].msg = m
  BY <1>1 DEF Cell
<1> HIDE DEF m, n
<1>7. n <= in_size
  <2> SUFFICES ASSUME in_size < n PROVE FALSE
    BY <1>1, <1>3
  <2>1. Cell(in_size) = [msg |-> m, pos |-> in_size]
    BY <1>1, <1>3
  <2>2. Cell(in_size).pos = Len(Layout[sent[Cell(in_size).msg]])
    BY <1>1 DEF ReadWhole, PartsOf
  <2> QED BY <1>1, <1>3, <1>5, <2>1, <2>2
<1>8. RTSP_full_msg_rcvd = n
  BY <1>1, <1>2, <1>7, Measured DEF n
<1>9. First = m
  BY <1>1 DEF First, m
<1> QED BY <1>1, <1>2, <1>3, <1>4, <1>5, <1>6, <1>7, <1>8, <1>9 DEF m, n

(* strstr finds a request's own header, for it searches from the front and *)
(* nothing before the end of the header ends the string.                   *)
LEMMA HeaderOwn ==
  ASSUME Stream, AllHonest, ReadWhole, in_size > 0, NEW part \in {"CSeq", "Session"},
         \E i \in 1 .. Len(PartsOf(Cell(1))) : PartsOf(Cell(1))[i] = part
  PROVE  Header(part) = Cell(1).msg
<1> DEFINE m == Cell(1).msg
<1>1. PICK kind \in Kinds : kind = sent[m] /\ PartsOf(Cell(1)) = Layout[kind]
  BY WholeInBuffer
<1>2. PICK n \in Nat : n = Len(Layout[kind]) /\ n <= in_size /\ in_size \in Nat
  BY <1>1, WholeInBuffer
<1>3. in_size <= RTSP_BUFFERSIZE /\ RTSP_BUFFERSIZE \in Nat
  <2>1. in_size <= RTSP_BUFFERSIZE
    BY Zenon DEF Stream, TypeOK, ReadWhole
  <2> QED BY <2>1, InputAssumption
<1>4. \A i \in 1 .. n : PartAt(i) = Layout[kind][i] /\ in_buffer[i].msg = m
  <2>1. fault = "none" /\ Cell(1).pos = 1
    BY WholeInBuffer DEF ReadWhole
  <2> QED BY <1>1, <1>2, <2>1, PartsSeen
<1>5. PICK i \in 1 .. n : Layout[kind][i] = part
  BY <1>1, <1>2
<1>6. \A j \in 1 .. i : Layout[kind][j] \in HeaderParts
  <2>1. ~Interleaved(Layout[kind])
    BY <1>2, <1>5 DEF Interleaved
  <2>2. PICK e \in 2 .. n : \E b \in e + 1 .. n : Request(Layout[kind], e, b)
    BY <1>2, <2>1, LayoutShape
  <2>3. PICK b \in e + 1 .. n : Request(Layout[kind], e, b)
    BY <2>2
  <2>4. i \notin e .. n
    <3> SUFFICES ASSUME i \in e .. n PROVE FALSE
      OBVIOUS
    <3>1. i = e \/ i = e + 1 \/ i \in e + 2 .. b \/ i \in b + 1 .. n
      BY <1>2
    <3> QED BY <1>2, <1>5, <2>3, <3>1 DEF Request
  <2>5. \A j \in 1 .. i : j \in 1 .. e - 1
    BY <1>2, <2>4
  <2> QED BY <2>3, <2>5 DEF Request
<1>7. StrLen \in Nat /\ i <= StrLen
  <2> DEFINE T == StrEnds \cup {RTSP_BUFFERSIZE + 1}
  <2>1. T \subseteq Nat /\ T # {}
    BY <1>3 DEF StrEnds
  <2>2. Least(T) \in T
    BY <2>1, LeastIs
  <2>3. \A j \in T : j > i
    <3>1. ASSUME NEW j \in StrEnds PROVE j > i
      <4>1. j \in 1 .. RTSP_BUFFERSIZE /\ PartAt(j) \in {"nul", "$"}
        BY DEF StrEnds
      <4>2. ~(j \in 1 .. i)
        BY <1>2, <1>4, <1>6, <4>1 DEF HeaderParts
      <4> QED BY <1>2, <1>3, <4>1, <4>2
    <3> QED BY <1>2, <1>3, <3>1
  <2>4. PICK z \in Nat : z = Least(T) /\ z > i
    BY <2>1, <2>2, <2>3
  <2> QED BY <1>2, <2>4 DEF StrLen
<1> DEFINE found == {j \in 1 .. StrLen : PartAt(j) = part}
<1>8. i \in found /\ found \subseteq Nat
  BY <1>2, <1>4, <1>5, <1>7
<1>9. Least(found) \in found /\ Least(found) <= i
  BY <1>8, LeastIs
<1>10. Least(found) \in 1 .. n
  BY <1>2, <1>7, <1>9
<1> QED BY <1>4, <1>8, <1>10 DEF Header

(* The message it finds there is the first one.                            *)
LEMMA AddressedFirst ==
  ASSUME Stream, AllHonest, ReadWhole, in_size > 0
  PROVE  Addressed = Cell(1).msg
<1> DEFINE text == {i \in 1 .. in_size : PartAt(i) \notin {"cr", "lf"}}
<1>1. in_size \in Nat \ {0} /\ in_buffer[1].msg = Cell(1).msg
  BY WholeInBuffer
<1>2. PartAt(1) \in {"line", "$"}
  <2>1. fault = "none" /\ Cell(1).pos = 1
    BY WholeInBuffer DEF ReadWhole
  <2>2. PICK kind \in Kinds : kind = sent[Cell(1).msg] /\ PartAt(1) = Layout[kind][1]
    BY <1>1, <2>1, PartsSeen
  <2> QED BY <2>2, LayoutShape DEF Request, Interleaved
<1>3. 1 \in text /\ text \subseteq Nat
  BY <1>1, <1>2
<1>4. \A i \in text : 1 <= i
  BY <1>1
<1>5. Least(text) = 1
  <2>1. Least(text) \in text /\ Least(text) <= 1
    BY <1>3, LeastIs
  <2>2. PICK x \in text : x = Least(text) /\ x <= 1
    BY <2>1
  <2> QED BY <1>3, <1>4, <2>2
<1>6. text # {}
  BY <1>3
<1> HIDE DEF text
<1>7. Addressed = in_buffer[Least(text)].msg
  BY <1>6, Zenon DEF Addressed, text
<1> QED BY <1>1, <1>5, <1>7

(* What is unchanged when the text is.                                     *)
LEMMA FirstKept ==
  ASSUME UNCHANGED <<sent, wire, in_buffer, in_size, fault>>
  PROVE  /\ First' = First /\ (ReadWhole => ReadWhole')
         /\ AllHonest' = AllHonest
BY DEF First, ReadWhole, Size, Cell, PartsOf, AllHonest

(* A message that is sent waits behind the others.                         *)
LEMMA SendOne ==
  ASSUME Stream, OneByOne, NEW kind \in Kinds, Send(kind)
  PROVE  OneByOne'
<1> SUFFICES ASSUME whole, AllHonest'
             PROVE  (/\ ReadWhole /\ Handled /\ Own
                     /\ Rising(replied \o out) /\ Below(replied \o out, First))'
  BY DEF OneByOne, Send
<1> DEFINE n == Len(Layout[kind])
<1>1. /\ sent' = Append(sent, kind) /\ fault = "none"
      /\ UNCHANGED <<in_buffer, in_size, out, pc, fault, used, answers, replied, whole>>
  BY DEF Send
<1>2. sent \in Seq(Kinds) /\ TypeOK /\ Filled
  <2>1. sent \in Seq(Kinds)
    BY Zenon DEF Stream, TypeOK
  <2> QED BY <1>1, <2>1 DEF Stream, Unwrapped
<1>10. AllHonest
  <2>1. ASSUME NEW m \in 1 .. Len(sent) PROVE Announces[sent[m]] = BodyLen(sent[m])
    <3>1. sent'[m] = sent[m] /\ m \in 1 .. Len(sent')
      BY <1>1, <1>2
    <3> QED BY <3>1 DEF AllHonest
  <2> QED BY <2>1 DEF AllHonest
<1>3. /\ n \in Nat \ {0} /\ Size' = Size + n
      /\ \A i \in 1 .. Size : Cell(i)' = Cell(i)
      /\ \A i \in Size + 1 .. Size + n :
           Cell(i)' = [msg |-> Len(sent) + 1, pos |-> i - Size]
  BY <1>2, SendCells
<1>4. /\ Size \in Nat /\ in_size \in Nat /\ in_size <= Size
      /\ \A i \in 1 .. Size : Cell(i) \in Cells
  <2>1. Size = in_size + Len(wire)
    BY DEF Size
  <2> QED BY <1>1, <1>2, <2>1, UnreadCells
<1>5. ReadWhole /\ Handled /\ Own /\ Rising(replied \o out) /\ Below(replied \o out, First)
  BY <1>10 DEF OneByOne
<1>6. First' = First /\ Cell(1)'.pos = 1
  <2>1. CASE Size = 0
    BY <1>3, <2>1 DEF First
  <2>2. CASE Size > 0
    BY <1>3, <1>4, <1>5, <2>2 DEF First, ReadWhole
  <2> QED BY <1>4, <2>1, <2>2
<1>7. ReadWhole'
  <2>1. ASSUME in_size > 0 PROVE (Cell(in_size).pos = Len(PartsOf(Cell(in_size))))'
    <3>1. PICK c \in Cells : c = Cell(in_size) /\ c.pos = Len(PartsOf(c))
      BY <1>4, <1>5, <2>1 DEF ReadWhole
    <3>2. PartsOf(c)' = PartsOf(c)
      BY <1>1, <1>2, CellsStay
    <3>3. PICK z : z = in_size
      OBVIOUS
    <3>4. Cell(z)' = c /\ in_size' = z
      BY <1>1, <1>3, <1>4, <2>1, <3>1, <3>3
    <3> QED BY <3>1, <3>2, <3>4
  <2> QED BY <1>1, <1>5, <1>6, <2>1 DEF ReadWhole
<1>8. Own'
  <2> SUFFICES ASSUME used.msg # 0 PROVE Own'
    BY <1>1 DEF Own
  <2>1. used.msg \in 1 .. Len(sent)
    BY <1>5 DEF Own
  <2>2. sent'[used.msg] = sent[used.msg] /\ used.msg \in 1 .. Len(sent')
    BY <1>1, <1>2, <2>1
  <2> QED BY <1>1, <1>5, <2>2 DEF Own
<1>9. Handled' /\ (Rising(replied \o out) /\ Below(replied \o out, First))'
  BY <1>1, <1>5, <1>6 DEF Handled, Rising, Below
<1> QED BY <1>7, <1>8, <1>9

(* A read that ends a message brings whole messages.                       *)
LEMMA ReadOne ==
  ASSUME Stream, OneByOne, NEW n \in 1 .. Len(wire), Read(n)
  PROVE  OneByOne'
<1>0. /\ AllHonest' = AllHonest /\ fault = "none"
      /\ TypeOK /\ Filled /\ Chained
  <2>1. sent' = sent /\ fault = "none"
    BY DEF Read
  <2> QED BY <2>1 DEF AllHonest, Stream, Unwrapped
<1> SUFFICES ASSUME whole, AllHonest, AtEnd(n)
             PROVE  (/\ ReadWhole /\ Handled /\ Own
                     /\ Rising(replied \o out) /\ Below(replied \o out, First))'
  BY <1>0 DEF OneByOne, Read
<1>1. /\ in_size = 0 /\ in_size' = n /\ Size' = Size
      /\ \A i \in 1 .. Size : Cell(i)' = Cell(i)
  BY <1>0, ReadCells
<1>2. UNCHANGED <<sent, out, fault, used, answers, replied>>
  BY DEF Read
<1>3. ReadWhole /\ Handled /\ Own /\ Rising(replied \o out) /\ Below(replied \o out, First)
  BY DEF OneByOne
<1>4. Len(wire) \in Nat /\ Size = Len(wire) /\ \A i \in 1 .. Size : Cell(i) = wire[i]
  BY <1>0, <1>1, UnreadCells DEF Size, Cell
<1>5. Cell(n).pos = Len(PartsOf(Cell(n)))
  <2>1. Chained
    BY <1>0
  <2>2. CASE n = Len(wire)
    BY <1>4, <2>1, <2>2 DEF Chained
  <2>3. CASE n # Len(wire)
    <3>1. n \in 1 .. Size - 1 /\ n \in 1 .. Size /\ n + 1 \in 1 .. Size
      BY <1>4, <2>3
    <3>2. Cell(n + 1).msg # Cell(n).msg
      BY <1>4, <2>3, <3>1 DEF AtEnd
    <3> QED BY <2>1, <3>1, <3>2 DEF Chained, Follows, PartsOf
  <2> QED BY <2>2, <2>3
<1>6. Size > 0 /\ Cell(1)' = Cell(1) /\ Cell(n)' = Cell(n)
  BY <1>1, <1>4
<1>7. First' = First
  BY <1>1, <1>2, <1>6 DEF First
<1>8. ReadWhole'
  <2>1. PICK c : c = Cell(n) /\ c.pos = Len(PartsOf(c))
    BY <1>5
  <2>2. PartsOf(c)' = PartsOf(c)
    BY <1>2 DEF PartsOf
  <2>3. (Cell(in_size).pos = Len(PartsOf(Cell(in_size))))'
    BY <1>1, <1>6, <2>1, <2>2
  <2> QED BY <1>2, <1>3, <1>6, <2>3 DEF ReadWhole
<1>9. /\ Handled' /\ Own'
      /\ (Rising(replied \o out) /\ Below(replied \o out, First))'
  BY <1>2, <1>3, <1>7 DEF Handled, Own, Rising, Below
<1> QED BY <1>8, <1>9

(* A sequence of members of a set is one of members of a larger set.       *)
LEMMA WiderSeq ==
  ASSUME NEW S, NEW T, S \subseteq T, NEW r \in Seq(S)
  PROVE  r \in Seq(T)
OBVIOUS

(* A last reply above all the others keeps a sequence rising.              *)
LEMMA LastRises ==
  ASSUME NEW r \in Seq(Nat), NEW s \in Seq(Nat), NEW m \in Nat,
         Len(s) = Len(r) + 1, s[Len(r) + 1] = m,
         \A i \in 1 .. Len(r) : s[i] = r[i],
         Rising(r), Below(r, m)
  PROVE  Rising(s) /\ Below(s, m + 1)
<1>1. Len(r) \in Nat /\ \A i \in 1 .. Len(r) : r[i] \in Nat
  <2>1. r \in Seq(Nat)
    OBVIOUS
  <2> QED BY <2>1, LenProperties, ElementOfSeq
<1>2. ASSUME NEW i \in 1 .. Len(s), NEW j \in 1 .. Len(s), i < j
      PROVE  s[i] < s[j]
  <2>1. i \in 1 .. Len(r) /\ s[i] = r[i]
    <3>1. i \in 1 .. Len(r)
      BY <1>1, <1>2
    <3> QED BY <3>1
  <2>2. CASE j = Len(r) + 1
    BY <2>1, <2>2 DEF Below
  <2>3. CASE j # Len(r) + 1
    <3>1. j \in 1 .. Len(r)
      BY <1>1, <2>3
    <3> QED BY <1>2, <2>1, <3>1 DEF Rising
  <2> QED BY <2>2, <2>3
<1>3. ASSUME NEW i \in 1 .. Len(s) PROVE s[i] < m + 1
  <2>1. CASE i = Len(r) + 1
    BY <2>1
  <2>2. CASE i # Len(r) + 1
    <3>1. i \in 1 .. Len(r)
      BY <1>1, <2>2
    <3>2. s[i] = r[i] /\ r[i] < m /\ r[i] \in Nat
      BY <1>1, <3>1 DEF Below
    <3> QED BY <3>2
  <2> QED BY <2>1, <2>2
<1>4. Rising(s)
  BY <1>2 DEF Rising
<1>5. Below(s, m + 1)
  BY <1>3 DEF Below
<1> QED BY <1>4, <1>5

(* One more reply goes behind the others.                                  *)
LEMMA OneMoreReply ==
  ASSUME NEW a \in Seq(Nat), NEW b \in Seq(Nat), NEW m \in Nat,
         Rising(a \o b), Below(a \o b, m)
  PROVE  Rising(a \o Append(b, m)) /\ Below(a \o Append(b, m), m + 1)
<1>1. PICK c : c = Append(b, m)
  OBVIOUS
<1>2. /\ c \in Seq(Nat) /\ Len(c) = Len(b) + 1
      /\ \A i \in 1 .. Len(b) : c[i] = b[i]
      /\ c[Len(b) + 1] = m
  BY <1>1
<1>3. Len(a) \in Nat /\ Len(b) \in Nat
  OBVIOUS
<1>4. PICK r : r = a \o b
  OBVIOUS
<1>5. PICK s : s = a \o c
  OBVIOUS
<1>6. /\ r \in Seq(Nat) /\ Len(r) = Len(a) + Len(b)
      /\ \A i \in 1 .. Len(a) + Len(b) :
           r[i] = IF i <= Len(a) THEN a[i] ELSE b[i - Len(a)]
  BY <1>4, ConcatProperties, Zenon
<1>7. /\ s \in Seq(Nat) /\ Len(s) = Len(a) + Len(c)
      /\ \A i \in 1 .. Len(a) + Len(c) :
           s[i] = IF i <= Len(a) THEN a[i] ELSE c[i - Len(a)]
  <2>1. c \in Seq(Nat)
    BY <1>2
  <2> QED BY <1>5, <2>1, ConcatProperties, Zenon
<1>8. ASSUME NEW i \in 1 .. Len(r) PROVE s[i] = r[i]
  <2>1. /\ i \in Nat /\ i \in 1 .. Len(a) + Len(b) /\ i \in 1 .. Len(a) + Len(c)
    BY <1>2, <1>3, <1>6
  <2>2. CASE i <= Len(a)
    <3>1. r[i] = a[i] /\ s[i] = a[i]
      BY <1>6, <1>7, <2>1, <2>2, Zenon
    <3> QED BY <3>1
  <2>3. CASE ~(i <= Len(a))
    <3>1. r[i] = b[i - Len(a)] /\ s[i] = c[i - Len(a)]
      BY <1>6, <1>7, <2>1, <2>3, Zenon
    <3>2. i - Len(a) \in 1 .. Len(b)
      BY <1>3, <2>1, <2>3
    <3> QED BY <1>2, <3>1, <3>2
  <2> QED BY <2>2, <2>3
<1>9. s[Len(r) + 1] = m
  <2>1. /\ (Len(r) + 1) - Len(a) = Len(b) + 1 /\ ~(Len(r) + 1 <= Len(a))
        /\ Len(r) + 1 \in 1 .. Len(a) + Len(c)
    BY <1>2, <1>3, <1>6
  <2>2. s[Len(r) + 1] = c[(Len(r) + 1) - Len(a)]
    BY <1>7, <2>1, Zenon
  <2> QED BY <1>2, <2>1, <2>2
<1>10. Len(s) = Len(r) + 1
  BY <1>2, <1>3, <1>6, <1>7
<1>11. Rising(r) /\ Below(r, m)
  BY <1>4
<1>12. Rising(s) /\ Below(s, m + 1)
  <2>1. r \in Seq(Nat) /\ s \in Seq(Nat)
    BY <1>6, <1>7, Zenon
  <2>2. \A i \in 1 .. Len(r) : s[i] = r[i]
    BY <1>8, Zenon
  <2> QED BY <1>9, <1>10, <1>11, <2>1, <2>2, LastRises, Zenon
<1>13. a \o Append(b, m) = s
  BY <1>1, <1>5
<1> QED BY <1>12, <1>13, Zenon

(* A turn of the loop answers the first message and moves to the next.     *)
LEMMA HandleOne ==
  ASSUME Stream, OneByOne, Handle
  PROVE  OneByOne'
<1>0. AllHonest' = AllHonest
  <2>1. sent' = sent
    BY DEF Handle
  <2> QED BY <2>1 DEF AllHonest
<1> SUFFICES ASSUME whole, AllHonest
             PROVE  (/\ ReadWhole /\ Handled /\ Own
                     /\ Rising(replied \o out) /\ Below(replied \o out, First))'
  BY <1>0, Zenon DEF OneByOne, Handle
<1>1. ReadWhole /\ Handled /\ Own /\ Rising(replied \o out) /\ Below(replied \o out, First)
  BY DEF OneByOne
<1>2. PICK m : m = Cell(1).msg
  OBVIOUS
<1>3. PICK n : n = Len(PartsOf(Cell(1)))
  OBVIOUS
<1>4. /\ in_size > 0 /\ Answer(Addressed) /\ RTSP_remove_msg(RTSP_full_msg_rcvd)
      /\ UNCHANGED <<sent, wire, pc, replied, whole>> /\ fault = "none"
  BY HandleRemoves, Zenon DEF Handle
<1>5. /\ in_buffer[1].msg = m /\ m \in Msgs /\ m \in 1 .. Len(sent)
      /\ sent[m] \in Kinds /\ PartsOf(Cell(1)) = Layout[sent[m]]
      /\ n \in Nat \ {0} /\ n <= in_size /\ in_size <= Size /\ Size \in Nat \ {0}
      /\ in_size \in Nat /\ RTSP_full_msg_rcvd = n /\ First = m
      /\ IF Size = n THEN m = Len(sent)
         ELSE Cell(n + 1).msg = m + 1 /\ Cell(n + 1).pos = 1
  BY <1>1, <1>2, <1>3, <1>4, WholeInBuffer
<1>15. Addressed = m
  BY <1>1, <1>2, <1>4, AddressedFirst
<1>6. m \in Nat
  <2>1. MaxMsgs \in Nat
    BY InputAssumption
  <2> QED BY <1>5, <2>1 DEF Msgs
<1>7. fault' = "none" /\ in_size' = in_size - n /\ Size' = Size - n /\ Size' \in Nat
      /\ \A i \in 1 .. Size' : Cell(i)' = Cell(i + n)
  <2>1. /\ TypeOK /\ Filled /\ n \in Nat /\ RTSP_remove_msg(n)
        /\ ~(n > in_size) /\ n <= in_size + 1
    BY <1>4, <1>5 DEF Stream, Unwrapped
  <2>2. UNCHANGED <<sent, wire>>
    BY <1>4
  <2> QED BY <1>4, <2>1, <2>2, RemoveCells, Zenon
<1>8. First' = m + 1 /\ (Size' > 0 => Cell(1)'.pos = 1)
  <2>1. CASE Size = n
    <3>1. Size' = 0
      BY <1>5, <1>7, <2>1
    <3> QED BY <1>4, <1>5, <2>1, <3>1 DEF First
  <2>2. CASE Size # n
    <3>1. Size' > 0 /\ Cell(1)' = Cell(1 + n) /\ 1 + n = n + 1
      BY <1>5, <1>7, <2>2
    <3>2. Cell(1)'.msg = m + 1 /\ Cell(1)'.pos = 1
      BY <1>5, <2>2, <3>1
    <3> QED BY <3>1, <3>2 DEF First
  <2> QED BY <2>1, <2>2
<1>9. ReadWhole'
  <2>1. ASSUME in_size' > 0
        PROVE  (Cell(in_size).pos = Len(PartsOf(Cell(in_size))))'
    <3>1. PICK c : c = Cell(in_size) /\ c.pos = Len(PartsOf(c))
      BY <1>1, <1>4 DEF ReadWhole
    <3>2. PICK z : z = in_size'
      OBVIOUS
    <3>3. z \in 1 .. Size' /\ z + n = in_size
      BY <1>5, <1>7, <2>1, <3>2
    <3>4. Cell(z)' = c
      BY <1>7, <3>1, <3>3
    <3>5. PartsOf(c)' = PartsOf(c)
      BY <1>4 DEF PartsOf
    <3> QED BY <3>1, <3>2, <3>4, <3>5
  <2> QED BY <1>7, <1>8, <2>1 DEF ReadWhole
<1>10. /\ out \in Seq(Nat) /\ replied \in Seq(Nat) /\ answers \in [Msgs -> 0 .. 2]
  <2>1. out \in Seq(Msgs) /\ replied \in Seq(Msgs) /\ answers \in [Msgs -> 0 .. 2]
    BY Zenon DEF Stream, TypeOK
  <2>2. Msgs \subseteq Nat
    BY InputAssumption DEF Msgs
  <2>3. out \in Seq(Nat) /\ replied \in Seq(Nat)
    BY <2>1, <2>2, WiderSeq, Zenon
  <2> QED BY <2>1, <2>3, Zenon
<1>11. /\ out' = out \/ out' = Append(out, m)
       /\ used' = used \/ used' = [msg |-> m, CSeq |-> Header("CSeq"),
                                   Session |-> Header("Session")]
       /\ answers' = [answers EXCEPT ![m] = IF @ = 2 THEN 2 ELSE @ + 1]
  <2>1. TypeOK /\ Answer(m)
    BY <1>4, <1>15, Zenon DEF Stream
  <2> QED BY <1>5, <2>1, AnswerTypes, Zenon
<1>12. Handled'
  <2>1. ASSUME NEW k \in Msgs PROVE answers'[k] = IF k < m + 1 THEN 1 ELSE 0
    <3>1. k \in Nat
      BY <2>1, InputAssumption DEF Msgs
    <3>2. answers[k] = IF k < m THEN 1 ELSE 0
      BY <1>1, <1>5 DEF Handled
    <3>3. CASE k = m
      <4>1. answers[k] = 0
        BY <1>6, <3>2, <3>3
      <4>2. answers'[k] = 1
        BY <1>5, <1>10, <1>11, <3>3, <4>1
      <4> QED BY <1>6, <3>3, <4>2
    <3>4. CASE k # m
      <4>1. answers'[k] = answers[k]
        BY <1>10, <1>11, <3>4
      <4> QED BY <1>6, <3>1, <3>2, <3>4, <4>1
    <3> QED BY <3>3, <3>4
  <2> QED BY <1>8, <2>1, Zenon DEF Handled, Msgs
<1>13. Own'
  <2>1. CASE used' = used
    BY <1>1, <1>4, <2>1 DEF Own
  <2>2. CASE used' = [msg |-> m, CSeq |-> Header("CSeq"), Session |-> Header("Session")]
    <3>1. used'.msg = m /\ used'["CSeq"] = Header("CSeq")
          /\ used'["Session"] = Header("Session")
      BY <2>2
    <3>2. ASSUME NEW part \in {"CSeq", "Session"},
                 \E i \in 1 .. Len(Layout[sent[m]]) : Layout[sent[m]][i] = part
          PROVE  used'[part] = m
      <4>1. Header(part) = m
        BY <1>1, <1>2, <1>4, <1>5, <3>2, HeaderOwn
      <4> QED BY <3>1, <4>1
    <3> QED BY <1>4, <1>5, <3>1, <3>2 DEF Own
  <2> QED BY <1>11, <2>1, <2>2
<1>14. (Rising(replied \o out) /\ Below(replied \o out, First))'
  <2>1. Rising(replied \o out) /\ Below(replied \o out, m) /\ replied' = replied
    BY <1>1, <1>4, <1>5
  <2>2. Rising(replied \o out') /\ Below(replied \o out', m + 1)
    <3>1. CASE out' = out
      <4>1. PICK r : r = replied \o out
        OBVIOUS
      <4>2. r \in Seq(Nat)
        BY <1>10, <4>1
      <4>3. ASSUME NEW i \in 1 .. Len(r) PROVE r[i] < m + 1
        <5>1. r[i] \in Nat /\ r[i] < m
          BY <2>1, <4>1, <4>2, ElementOfSeq DEF Below
        <5> QED BY <1>6, <5>1
      <4> QED BY <2>1, <3>1, <4>1, <4>3 DEF Below
    <3>2. CASE out' = Append(out, m)
      BY <1>6, <1>10, <2>1, <3>2, OneMoreReply
    <3> QED BY <1>11, <3>1, <3>2
  <2> QED BY <1>8, <2>1, <2>2 DEF Rising, Below
<1> QED BY <1>9, <1>12, <1>13, <1>14

(* What is written to the socket is what waited.                           *)
LEMMA ReturnOne ==
  ASSUME Stream, OneByOne, Return \/ ReturnFails \/ Close
  PROVE  OneByOne'
<1>1. /\ UNCHANGED <<sent, wire, in_buffer, in_size, fault, used, answers, whole>>
      /\ \/ out' = out /\ replied' = replied
         \/ out' = <<>> /\ replied' = replied \o out
  BY Zenon DEF Return, ReturnFails, Close
<1>2. (replied \o out)' = replied \o out
  <2>1. CASE out' = out /\ replied' = replied
    BY <2>1
  <2>2. CASE out' = <<>> /\ replied' = replied \o out
    <3>1. replied \o out \in Seq(Msgs)
      <4>1. out \in Seq(Msgs) /\ replied \in Seq(Msgs)
        BY Zenon DEF Stream, TypeOK
      <4> QED BY <4>1
    <3>2. (replied \o out) \o <<>> = replied \o out
      BY <3>1, ConcatEmptySeq
    <3> QED BY <2>2, <3>2
  <2> QED BY <1>1, <2>1, <2>2
<1>3. First' = First /\ (ReadWhole => ReadWhole') /\ AllHonest' = AllHonest
  BY <1>1, FirstKept
<1> QED BY <1>1, <1>2, <1>3 DEF OneByOne, Handled, Own, Rising, Below

(* Every step keeps this so.                                               *)
LEMMA OneByOneNext == Stream /\ OneByOne /\ [Next]_vars => OneByOne'
<1> SUFFICES ASSUME Stream, OneByOne, [Next]_vars PROVE OneByOne'
  OBVIOUS
<1>1. CASE \E kind \in Kinds : Send(kind)
  BY <1>1, SendOne
<1>2. CASE Recv
  BY <1>2, ReadOne DEF Recv
<1>3. CASE Main \/ Close
  BY <1>3, HandleOne, ReturnOne DEF Main
<1>4. CASE UNCHANGED vars
  <2>1. /\ UNCHANGED <<sent, wire, in_buffer, in_size, out, pc>>
        /\ UNCHANGED <<fault, used, answers, replied, whole>>
    BY <1>4 DEF vars
  <2>2. First' = First /\ (ReadWhole => ReadWhole') /\ AllHonest' = AllHonest
    BY <2>1, FirstKept
  <2> QED BY <2>1, <2>2 DEF OneByOne, Handled, Own, Rising, Below
<1> QED BY <1>1, <1>2, <1>3, <1>4 DEF Next

(* A new connection has handled nothing.                                   *)
LEMMA OneByOneInit == Init => OneByOne
<1> SUFFICES ASSUME Init PROVE OneByOne
  OBVIOUS
<1>1. /\ sent = <<>> /\ wire = <<>> /\ in_size = 0 /\ out = <<>>
      /\ fault = "none" /\ used.msg = 0
      /\ answers = [m \in Msgs |-> 0] /\ replied = <<>>
  BY DEF Init
<1>2. Size = 0 /\ First = 1
  BY <1>1 DEF Size, First
<1>3. ReadWhole /\ Own
  BY <1>1, <1>2 DEF ReadWhole, Own
<1>4. Handled
  <2>1. ASSUME NEW m \in Msgs PROVE ~(m < 1)
    BY InputAssumption DEF Msgs
  <2> QED BY <1>1, <1>2, <2>1 DEF Handled
<1>5. Len(replied \o out) = 0
  BY <1>1
<1>6. Rising(replied \o out) /\ Below(replied \o out, First)
  BY <1>5 DEF Rising, Below
<1> QED BY <1>3, <1>4, <1>6 DEF OneByOne

LEMMA OneByOneAlways == Spec => [](Stream /\ OneByOne)
<1>1. Init => Stream /\ OneByOne
  BY StreamInit, OneByOneInit
<1>2. Stream /\ OneByOne /\ [Next]_vars => Stream' /\ OneByOne'
  BY StreamNext, OneByOneNext
<1> QED BY <1>1, <1>2, PTL DEF Spec

(* When every read ends with a message and the client announces the        *)
(* lengths of its bodies, RTSP_handler handles each message exactly once   *)
(* and in order, and RTSP_remove_msg does not wrap in_size.                *)
THEOREM InputOnceInOrder == Spec => []OnceInOrder
<1>1. Stream /\ OneByOne => OnceInOrder
  <2> SUFFICES ASSUME Stream, OneByOne, whole, AllHonest
               PROVE  /\ fault = "none"
                      /\ \A m \in Msgs : answers[m] = IF m < Head1 THEN 1 ELSE 0
    BY DEF OnceInOrder
  <2>1. fault = "none" /\ Handled
    BY DEF OneByOne, ReadWhole
  <2>2. Head1 = First
    <3>1. /\ Unread \in Seq(Cells) /\ Len(Unread) = Size
          /\ \A i \in 1 .. Size : Unread[i] = Cell(i)
      BY <2>1, UnreadIs DEF Stream, Unwrapped
    <3>2. CASE Unread = <<>>
      BY <3>1, <3>2 DEF Head1, First
    <3>3. CASE Unread # <<>>
      <4>1. Size \in Nat \ {0}
        BY <3>1, <3>3
      <4>2. Unread[1] = Cell(1)
        BY <3>1, <4>1
      <4> QED BY <3>3, <4>1, <4>2 DEF Head1, First
    <3> QED BY <3>2, <3>3
  <2> QED BY <2>1, <2>2 DEF Handled
<1> QED BY <1>1, OneByOneAlways, PTL

(* Then a request is given its own CSeq and Session, though strstr         *)
(* searches all of in_buffer.                                              *)
THEOREM InputOwnHeaders == Spec => []OwnHeaders
<1>1. OneByOne => OwnHeaders
  BY DEF OneByOne, Own, OwnHeaders
<1> QED BY <1>1, OneByOneAlways, PTL

(* Then replies leave in the order of the requests, and none is written    *)
(* twice.                                                                  *)
THEOREM InputReplies == Spec => []RepliesInOrder
<1>1. OneByOne => RepliesInOrder
  BY DEF OneByOne, Rising, RepliesInOrder
<1> QED BY <1>1, OneByOneAlways, PTL

=============================================================================
