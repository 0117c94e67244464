-------------------------- MODULE ScreenFifoProofs --------------------------
(***************************************************************************)
(* Theorems about ScreenFifo, for a buffer of any size a byte can count    *)
(* and any number of bytes.                                                *)
(***************************************************************************)
EXTENDS ScreenFifo, TLAPS

(* A length that is about to be decremented is not 0. *)
HeldOK == get = "store" => held # 0

TypeInv == TypeOK /\ HeldOK

LEMMA ByteFacts ==
  ASSUME NEW b \in Nat
  PROVE  Pos(b) \in 0..8 /\ Value(b) \in 0..255
  <1>1. Pos(b) \in 0..8
    BY DEF Pos, FrameLen
  <1> QED
    BY <1>1 DEF Value

LEMMA StepFacts ==
  ASSUME NEW i \in 0..RX3BUF_SIZE - 1
  PROVE  Step(i) \in 0..RX3BUF_SIZE - 1
  BY FifoAssumption DEF Step

(* What the parser does with a byte keeps the types of its variables. *)
LEMMA GotTypes ==
  ASSUME TypeOK, NEW b \in Bytes, Got(b)
  PROVE  /\ at' \in Getting \cup {"away", "while", "execute"}
         /\ length' \in 0..255 /\ checkout' \in {0, Unset}
         /\ Rx3DataBuff' \in Seq(Bytes) /\ wild' \in {0, 1}
  <1> USE FifoAssumption
  <1>0. Value(b) \in 0..255
    BY ByteFacts DEF Bytes
  <1>1. ASSUME NEW p \in Getting \cup {"while"}, Goes(p)
        PROVE  /\ at' \in Getting \cup {"away", "while", "execute"}
               /\ length' \in 0..255 /\ checkout' \in {0, Unset}
               /\ Rx3DataBuff' \in Seq(Bytes) /\ wild' \in {0, 1}
    BY <1>1 DEF Goes, parser, TypeOK
  <1>2. ASSUME NEW n \in 0..255, Payload(n), wild' \in {0, 1}
        PROVE  /\ at' \in Getting \cup {"away", "while", "execute"}
               /\ length' \in 0..255 /\ checkout' \in {0, Unset}
               /\ Rx3DataBuff' \in Seq(Bytes) /\ wild' \in {0, 1}
    BY <1>2 DEF Payload, Getting
  <1>3. ASSUME TestCheckout
        PROVE  /\ at' \in Getting \cup {"away", "while", "execute"}
               /\ length' \in 0..255 /\ checkout' \in {0, Unset}
               /\ Rx3DataBuff' \in Seq(Bytes) /\ wild' \in {0, 1}
    BY <1>1, <1>2, <1>3 DEF TestCheckout
  <1>4. CASE at = "data"
    <2>1. /\ Rx3DataBuff' = Append(Rx3DataBuff, b)
          /\ at' \in {"execute", "data"}
          /\ UNCHANGED <<length, checkout, wild>>
      BY <1>4 DEF Got
    <2>2. Rx3DataBuff' \in Seq(Bytes)
      BY <2>1 DEF TypeOK
    <2> QED
      BY <2>1, <2>2 DEF TypeOK, Getting
  <1>5. CASE at # "data"
    BY <1>0, <1>1, <1>2, <1>3, <1>5 DEF Got, Getting, TypeOK
  <1> QED
    BY <1>4, <1>5

LEMMA TypeInit == Init => TypeInv
  BY FifoAssumption DEF Init, TypeInv, TypeOK, HeldOK, Bytes, Getting, Unset

LEMMA TypeStep == TypeInv /\ [Next]_vars => TypeInv'
  <1> SUFFICES ASSUME TypeInv, [Next]_vars PROVE TypeInv'
    OBVIOUS
  <1> USE FifoAssumption DEF TypeInv, HeldOK
  <1>1. CASE USART3_IRQHandler
    <2>1. sent' \in Bytes /\ Step(RX_IndexW) \in 0..RX3BUF_SIZE - 1
      BY <1>1, StepFacts DEF USART3_IRQHandler, TypeOK, Bytes
    <2>2. UART_InpLen' \in 0..255
      BY <1>1 DEF USART3_IRQHandler, Count, TypeOK
    <2> QED
      BY <1>1, <2>1, <2>2 DEF USART3_IRQHandler, TypeOK, parser
  <1>2. CASE Call \/ While \/ Execute
    <2>1. CASE Call
      BY <2>1 DEF Call, TypeOK, fifo, ghosts, Unset
    <2>2. CASE While
      BY <2>2 DEF While, TypeOK, fifo, ghosts, parser, Getting
    <2>3. CASE Execute
      BY <2>3 DEF Execute, TypeOK, fifo, parser, FrameLen
    <2> QED
      BY <1>2, <2>1, <2>2, <2>3
  <1>3. CASE Empty
    <2>1. 0 \in Bytes
      BY DEF Bytes
    <2>2. Got(0)
      BY <1>3 DEF Empty
    <2>3. /\ at' \in Getting \cup {"away", "while", "execute"}
          /\ length' \in 0..255 /\ checkout' \in {0, Unset}
          /\ Rx3DataBuff' \in Seq(Bytes) /\ wild' \in {0, 1}
      BY <2>1, <2>2, GotTypes
    <2> QED
      BY <1>3, <2>3 DEF Empty, TypeOK, fifo
  <1>4. CASE Load
    BY <1>4 DEF Load, TypeOK, fifo, parser, ghosts
  <1>5. CASE Store
    BY <1>5 DEF Store, TypeOK, parser
  <1>6. CASE Fetch
    <2>1. RX3_BUFF[RX_IndexR] \in Bytes
      BY DEF TypeOK
    <2>2. Step(RX_IndexR) \in 0..RX3BUF_SIZE - 1
      BY StepFacts DEF TypeOK
    <2> QED
      BY <1>6, <2>1, <2>2, GotTypes DEF Fetch, TypeOK
  <1>7. CASE UART3_ClrRxBuf
    BY <1>7 DEF UART3_ClrRxBuf, TypeOK, parser, Bytes
  <1>8. CASE UNCHANGED vars
    BY <1>8 DEF vars, fifo, parser, ghosts, TypeOK
  <1> QED
    BY <1>1, <1>2, <1>3, <1>4, <1>5, <1>6, <1>7, <1>8 DEF Next, DealSeriAceptData

(* Every variable keeps its type, paced or not: no index leaves the buffer and *)
(* no length its byte (uart3.c).                                               *)
THEOREM Typing == Spec => []TypeOK
  <1>1. Spec => []TypeInv
    BY TypeInit, TypeStep, PTL DEF Spec
  <1>2. TypeInv => TypeOK
    BY DEF TypeInv
  <1> QED
    BY <1>1, <1>2, PTL

-----------------------------------------------------------------------------
(***************************************************************************)
(* The commands.  The invariant says where the waiting bytes lie, how the  *)
(* length relates to them, and which place in which frame the parser is    *)
(* at.                                                                     *)
(***************************************************************************)

(* The i-th waiting byte, from 0, and where it lies. *)
Slot(i)    == IF RX_IndexR + i < RX3BUF_SIZE THEN RX_IndexR + i
              ELSE RX_IndexR + i - RX3BUF_SIZE
Content(n) == IF n <= cleared THEN 0 ELSE n

Ring ==
  /\ taken <= sent /\ Waiting <= RX3BUF_SIZE /\ cleared <= sent
  /\ RX_IndexW = Slot(Waiting)
  /\ \A i \in 0..RX3BUF_SIZE - 1 : i < Waiting => RX3_BUFF[Slot(i)] = Content(taken + 1 + i)

(* The bytes the main loop may still take without asking again. *)
Promised == IF get = "store" THEN held ELSE IF get = "fetch" THEN UART_InpLen + 1 ELSE UART_InpLen

Length ==
  /\ lost >= 0
  /\ Promised <= Waiting
  /\ get = "store" => held >= 1 /\ held <= UART_InpLen
  /\ get # "fetch" => UART_InpLen <= Waiting
  /\ get # "test" => at \in Getting

(* The frame the last byte taken belongs to, from 0, and its place there. *)
Frame == (taken - 1) \div FrameLen
Place == (taken - 1) % FrameLen

(* The frame is the next, or a card payment cleared the start of the one before. *)
Follows == Frame >= done /\ (Frame > done => cleared > FrameLen * (Frame - 1))
Genuine == taken > 0 /\ cleared < taken /\ Follows

InFrame ==
  /\ at = "second" => Genuine /\ Place = 0 /\ Promised >= 8
  /\ at = "length" => Genuine /\ Place = 1 /\ Promised >= 7
  /\ at = "data" =>
       /\ Genuine /\ length = 6 /\ Len(Rx3DataBuff) < 6
       /\ Place = 2 + Len(Rx3DataBuff) /\ Promised >= 6 - Len(Rx3DataBuff)
  /\ at = "execute" =>
       Genuine /\ length = 6 /\ Len(Rx3DataBuff) = 6 /\ Place = 8
  /\ at \in {"data", "execute"} =>
       \A i \in 1..Len(Rx3DataBuff) : Rx3DataBuff[i] = FrameLen * Frame + 3 + i

(* Between frames: nothing was passed over since the last one executed, or the *)
(* frame now passed over was cleared.                                          *)
Between ==
  at \in {"away", "while", "head"} =>
    /\ at = "head" => Promised >= FrameLen
    /\ taken >= FrameLen * done
    /\ taken > FrameLen * done => cleared > FrameLen * Frame

Beat == wild = 0 => InFrame /\ Between

FifoInv == TypeOK /\ Ring /\ Length /\ Beat /\ (wild = 1 => cleared > 0)

LEMMA SlotFacts ==
  ASSUME RX_IndexR \in 0..RX3BUF_SIZE - 1
  PROVE  /\ Slot(0) = RX_IndexR
         /\ \A i \in 0..RX3BUF_SIZE : Slot(i) \in 0..RX3BUF_SIZE - 1
         /\ \A i \in 0..RX3BUF_SIZE - 1 : Step(Slot(i)) = Slot(i + 1)
         /\ \A i, j \in 0..RX3BUF_SIZE - 1 : i # j => Slot(i) # Slot(j)
  BY FifoAssumption DEF Slot, Step

LEMMA FifoInit == Init => FifoInv
  <1> SUFFICES ASSUME Init PROVE FifoInv
    OBVIOUS
  <1> USE FifoAssumption
  <1>1. TypeOK
    BY TypeInit DEF TypeInv
  <1>2. Ring
    BY DEF Init, Ring, Waiting, Slot
  <1>3. Length
    BY DEF Init, Length, Promised, Waiting
  <1>4. Beat /\ wild = 0
    BY DEF Init, Beat, InFrame, Between, FrameLen
  <1> QED
    BY <1>1, <1>2, <1>3, <1>4 DEF FifoInv

(* The interrupt adds a byte behind those that wait and disturbs none of them. *)
LEMMA FifoInterrupt == Paced = 1 /\ FifoInv /\ USART3_IRQHandler => Ring' /\ Length' /\ Beat'
  <1> SUFFICES ASSUME Paced = 1, FifoInv, USART3_IRQHandler PROVE Ring' /\ Length' /\ Beat'
    OBVIOUS
  <1> USE FifoAssumption DEF FifoInv
  <1>1. /\ sent \in Nat /\ taken \in Nat /\ cleared \in Nat /\ RX_IndexR \in 0..RX3BUF_SIZE - 1
        /\ UART_InpLen \in 0..255 /\ held \in 0..255 /\ lost \in Int
        /\ RX3_BUFF \in [0..RX3BUF_SIZE - 1 -> Nat]
    BY DEF TypeOK, Bytes
  <1>2. /\ sent' = sent + 1 /\ Waiting < RX3BUF_SIZE /\ UART_InpLen' = (UART_InpLen + 1) % 256
        /\ RX3_BUFF' = [RX3_BUFF EXCEPT ![RX_IndexW] = sent'] /\ RX_IndexW' = Step(RX_IndexW)
        /\ UNCHANGED <<RX_IndexR, at, get, held, taken, lost, cleared, done, wild>>
        /\ UNCHANGED <<length, checkout, Rx3DataBuff>>
    BY DEF USART3_IRQHandler, Count, parser
  <1>3. Waiting \in 0..RX3BUF_SIZE - 1 /\ Waiting' = Waiting + 1
    BY <1>1, <1>2 DEF Ring, Waiting
  <1>4. \A i \in 0..RX3BUF_SIZE : Slot(i)' = Slot(i)
    BY <1>2 DEF Slot
  <1>5. Ring'
    <2>1. taken' <= sent' /\ Waiting' <= RX3BUF_SIZE /\ cleared' <= sent'
      BY <1>1, <1>2, <1>3 DEF Ring
    <2>2. RX_IndexW' = Slot(Waiting)'
      <3>1. RX_IndexW' = Slot(Waiting + 1)
        BY <1>1, <1>2, <1>3, SlotFacts DEF Ring
      <3>2. Slot(Waiting)' = Slot(Waiting + 1)
        BY <1>2, <1>3 DEF Slot
      <3> QED
        BY <3>1, <3>2
    <2>3. ASSUME NEW i \in 0..RX3BUF_SIZE - 1, i < Waiting'
          PROVE  RX3_BUFF'[Slot(i)] = IF taken + 1 + i <= cleared THEN 0 ELSE taken + 1 + i
      <3>1. CASE i = Waiting
        <4>1. taken + 1 + i = sent + 1 /\ ~(sent + 1 <= cleared)
          BY <1>1, <3>1 DEF Waiting, Ring
        <4>2. Slot(i) = RX_IndexW /\ Slot(i) \in 0..RX3BUF_SIZE - 1
          BY <1>1, <1>3, <3>1, SlotFacts DEF Ring
        <4> QED
          BY <1>1, <1>2, <4>1, <4>2
      <3>2. CASE i # Waiting
        <4>1. i < Waiting
          BY <1>3, <2>3, <3>2
        <4>2. Slot(i) # RX_IndexW /\ Slot(i) \in 0..RX3BUF_SIZE - 1
          <5>1. RX_IndexW = Slot(Waiting)
            BY DEF Ring
          <5>2. Slot(i) # Slot(Waiting)
            BY <1>1, <1>3, <3>2, SlotFacts
          <5>3. Slot(i) \in 0..RX3BUF_SIZE - 1
            BY <1>1 DEF Slot
          <5> QED
            BY <5>1, <5>2, <5>3
        <4>3. RX3_BUFF[Slot(i)] = Content(taken + 1 + i)
          BY <4>1 DEF Ring
        <4> QED
          BY <1>1, <1>2, <4>2, <4>3 DEF Content
      <3> QED
        BY <3>1, <3>2
    <2> QED
      BY <1>2, <1>4, <2>1, <2>2, <2>3 DEF Ring, Content
  <1>6. UART_InpLen <= Waiting /\ UART_InpLen' = UART_InpLen + 1
    <2>1. UART_InpLen <= Waiting
      BY <1>1, <1>3 DEF Length, Promised, TypeOK
    <2> QED
      BY <1>1, <1>2, <1>3, <2>1
  <1>7. Length' /\ Promised' >= Promised
    BY <1>1, <1>2, <1>3, <1>6 DEF Length, Promised
  <1>8. Beat'
    <2>1. Promised \in Int /\ Promised' \in Int
      BY <1>1, <1>2, <1>6 DEF Promised
    <2>2. /\ Frame' = Frame /\ Place' = Place /\ (Genuine' <=> Genuine)
      BY <1>2 DEF Frame, Place, Genuine, Follows
    <2>3. Rx3DataBuff \in Seq(Bytes) /\ Len(Rx3DataBuff) \in Nat
      BY DEF TypeOK
    <2> QED
      BY <1>2, <1>7, <2>1, <2>2, <2>3 DEF Beat, InFrame, Between, FrameLen
  <1> QED
    BY <1>5, <1>7, <1>8

(* A step that leaves the bytes where they are leaves them in order. *)
LEMMA SameRing == Ring /\ UNCHANGED <<fifo, sent, taken, cleared>> => Ring'
  BY DEF Ring, fifo, Slot, Content, Waiting

LEMMA FifoLoad == FifoInv /\ Load => Length' /\ Beat'
  <1> SUFFICES ASSUME FifoInv, Load PROVE Length' /\ Beat'
    OBVIOUS
  <1>1. /\ at \in Getting /\ get = "test" /\ UART_InpLen # 0 /\ held' = UART_InpLen /\ get' = "store"
        /\ UNCHANGED <<UART_InpLen, at, length, Rx3DataBuff, sent, taken, lost, cleared, done, wild>>
    BY DEF Load, fifo, parser, ghosts
  <1>2. Promised' = Promised /\ UART_InpLen \in 0..255
    BY <1>1 DEF Promised, FifoInv, TypeOK
  <1>3. Length'
    BY <1>1, <1>2 DEF FifoInv, Length, Promised, Waiting
  <1>4. /\ Frame' = Frame /\ Place' = Place /\ (Genuine' <=> Genuine)
    BY <1>1 DEF Frame, Place, Genuine, Follows
  <1> QED
    BY <1>1, <1>2, <1>3, <1>4 DEF FifoInv, Beat, InFrame, Between

LEMMA FifoStore == FifoInv /\ Store => Length' /\ Beat'
  <1> SUFFICES ASSUME FifoInv, Store PROVE Length' /\ Beat'
    OBVIOUS
  <1>1. /\ get = "store" /\ UART_InpLen' = held - 1 /\ get' = "fetch"
        /\ lost' = lost + (UART_InpLen - held)
        /\ UNCHANGED <<at, length, Rx3DataBuff, sent, taken, cleared, done, wild>>
    BY DEF Store, parser
  <1>2. Promised' = Promised /\ UART_InpLen \in 0..255 /\ held \in 0..255
    BY <1>1 DEF Promised, FifoInv, TypeOK
  <1>3. Length'
    BY <1>1, <1>2 DEF FifoInv, TypeOK, Length, Promised, Waiting
  <1>4. /\ Frame' = Frame /\ Place' = Place /\ (Genuine' <=> Genuine)
    BY <1>1 DEF Frame, Place, Genuine, Follows
  <1> QED
    BY <1>1, <1>2, <1>3, <1>4 DEF FifoInv, Beat, InFrame, Between

LEMMA FifoQuiet == FifoInv /\ (Call \/ While \/ Execute \/ UART3_ClrRxBuf)
                     => Length' /\ Beat' /\ wild' = wild
  <1> SUFFICES ASSUME FifoInv, Call \/ While \/ Execute \/ UART3_ClrRxBuf
               PROVE  Length' /\ Beat' /\ wild' = wild
    OBVIOUS
  <1>1. UNCHANGED <<UART_InpLen, get, held, length, sent, taken, lost, wild>> /\ get = "test"
    BY DEF Call, While, Execute, UART3_ClrRxBuf, FifoInv, Length, Getting, fifo, parser, ghosts
  <1>2. Promised' = Promised /\ Frame' = Frame /\ Place' = Place
    BY <1>1 DEF Promised, Frame, Place
  <1>3. Length'
    BY <1>1, <1>2 DEF FifoInv, Length, Waiting
  <1>4. ASSUME wild = 0 PROVE InFrame' /\ Between'
    <2>1. CASE Call
      BY <1>2, <1>4, <2>1 DEF Call, FifoInv, Beat, InFrame, Between, ghosts
    <2>2. CASE While
      <3>1. UART_InpLen >= FrameLen => Promised >= FrameLen
        BY <1>1 DEF Promised
      <3> QED
        BY <1>2, <1>4, <2>2, <3>1 DEF While, Arrived, FifoInv, Beat, InFrame, Between, ghosts
    <2>3. CASE Execute
      <3>1. /\ at' = "while" /\ done' = taken \div FrameLen /\ taken' = taken
        BY <2>3 DEF Execute
      <3>2. Place = 8 /\ taken \in Nat /\ taken > 0
        BY <1>4, <2>3 DEF Execute, FifoInv, Beat, InFrame, Genuine, TypeOK
      <3>3. taken = FrameLen * (taken \div FrameLen)
        BY <3>2 DEF Place, FrameLen
      <3> QED
        BY <3>1, <3>2, <3>3 DEF InFrame, Between, FrameLen
    <2>4. CASE UART3_ClrRxBuf
      <3>1. /\ at = "away" /\ at' = at /\ cleared' = sent /\ UNCHANGED <<taken, done>>
        BY <2>4 DEF UART3_ClrRxBuf
      <3>2. cleared <= sent /\ cleared \in Nat /\ sent \in Nat /\ Frame \in Int
        BY DEF FifoInv, Ring, TypeOK, Bytes, Frame, FrameLen
      <3> QED
        BY <1>2, <1>4, <3>1, <3>2 DEF FifoInv, Beat, InFrame, Between, FrameLen
    <2> QED
      BY <2>1, <2>2, <2>3, <2>4
  <1> QED
    BY <1>1, <1>3, <1>4 DEF Beat

LEMMA FifoCleared == FifoInv /\ UART3_ClrRxBuf => Ring'
  <1> SUFFICES ASSUME FifoInv, UART3_ClrRxBuf PROVE Ring'
    OBVIOUS
  <1>1. /\ RX3_BUFF' = [i \in 0..RX3BUF_SIZE - 1 |-> 0] /\ cleared' = sent
        /\ UNCHANGED <<RX_IndexR, RX_IndexW, sent, taken>>
    BY DEF UART3_ClrRxBuf
  <1>2. /\ RX_IndexR \in 0..RX3BUF_SIZE - 1 /\ sent \in Nat /\ taken \in Nat
    BY DEF FifoInv, TypeOK, Bytes
  <1>3. \A i \in 0..RX3BUF_SIZE - 1 :
          i < Waiting => Slot(i) \in 0..RX3BUF_SIZE - 1 /\ taken + 1 + i <= sent
    BY <1>2, SlotFacts, FifoAssumption DEF Waiting
  <1> QED
    BY <1>1, <1>2, <1>3 DEF FifoInv, Ring, Slot, Waiting, Content

LEMMA FifoEmpty == FifoInv /\ Empty => Length' /\ Beat' /\ wild' = wild
  <1> SUFFICES ASSUME FifoInv, Empty PROVE Length' /\ Beat' /\ wild' = wild
    OBVIOUS
  <1>1. /\ at = "data" /\ get = "test" /\ UART_InpLen = 0 /\ wild' = wild
        /\ UNCHANGED <<UART_InpLen, get, held, sent, taken, lost>>
    BY DEF Empty, Got, fifo
  <1>2. wild # 0
    <2>1. ASSUME wild = 0 PROVE FALSE
      <3>1. Promised >= 6 - Len(Rx3DataBuff) /\ Len(Rx3DataBuff) < 6
        BY <1>1, <2>1 DEF FifoInv, Beat, InFrame
      <3>2. Promised = 0 /\ Len(Rx3DataBuff) \in Nat
        BY <1>1 DEF Promised, FifoInv, TypeOK
      <3> QED
        BY <3>1, <3>2
    <2> QED
      BY <2>1
  <1> QED
    BY <1>1, <1>2 DEF FifoInv, Length, Promised, Waiting, Beat

(* Taking a byte moves every other one up by one. *)
LEMMA FifoTaken ==
  ASSUME FifoInv, Fetch
  PROVE  /\ Ring' /\ Length' /\ Promised' = Promised - 1 /\ Promised \in Int
         /\ RX3_BUFF[RX_IndexR] = Content(taken + 1)
  <1> USE FifoAssumption DEF FifoInv
  <1>1. /\ RX_IndexR \in 0..RX3BUF_SIZE - 1 /\ sent \in Nat /\ taken \in Nat /\ cleared \in Nat
        /\ UART_InpLen \in 0..255 /\ lost \in Int
    BY DEF TypeOK, Bytes
  <1>2. /\ get = "fetch" /\ get' = "test" /\ taken' = taken + 1 /\ RX_IndexR' = Step(RX_IndexR)
        /\ UNCHANGED <<RX3_BUFF, UART_InpLen, RX_IndexW, held, sent, lost, cleared>>
    BY DEF Fetch
  <1>3. Promised = UART_InpLen + 1 /\ Promised' = UART_InpLen
    BY <1>2 DEF Promised
  <1>4. Waiting \in 1..RX3BUF_SIZE /\ Waiting' = Waiting - 1
    BY <1>1, <1>2, <1>3 DEF Ring, Length, Waiting
  <1>5. \A i \in 0..RX3BUF_SIZE - 1 : Slot(i)' = Slot(i + 1)
    BY <1>1, <1>2 DEF Slot, Step
  <1>6. Ring'
    <2>1. taken' <= sent' /\ Waiting' <= RX3BUF_SIZE /\ cleared' <= sent'
      BY <1>1, <1>2, <1>4 DEF Ring, Waiting
    <2>2. RX_IndexW' = Slot(Waiting)'
      <3>1. RX_IndexW' = Slot(Waiting)
        BY <1>2 DEF Ring
      <3>2. Slot(Waiting)' = Slot((Waiting - 1) + 1)
        BY <1>1, <1>2, <1>4 DEF Slot, Step
      <3> QED
        BY <1>4, <3>1, <3>2
    <2>3. ASSUME NEW i \in 0..RX3BUF_SIZE - 1, i < Waiting'
          PROVE  RX3_BUFF'[Slot(i)'] = Content(taken + 1 + i)'
      <3>1. i + 1 \in 0..RX3BUF_SIZE - 1 /\ i + 1 < Waiting
        BY <1>4, <2>3
      <3>2. RX3_BUFF[Slot(i + 1)] = Content(taken + 1 + (i + 1))
        BY <3>1 DEF Ring
      <3>3. taken' + 1 + i = taken + 1 + (i + 1)
        BY <1>1, <1>2
      <3> QED
        BY <1>2, <1>5, <3>2, <3>3 DEF Content
    <2> QED
      BY <2>1, <2>2, <2>3 DEF Ring
  <1>7. Length'
    BY <1>1, <1>2, <1>3, <1>4 DEF Length
  <1>8. RX3_BUFF[RX_IndexR] = Content(taken + 1)
    <2>1. 0 \in 0..RX3BUF_SIZE - 1 /\ 0 < Waiting /\ taken + 1 + 0 = taken + 1
      BY <1>1, <1>4
    <2>2. RX3_BUFF[Slot(0)] = Content(taken + 1)
      BY <2>1 DEF Ring
    <2> QED
      BY <1>1, <2>2, SlotFacts
  <1> QED
    BY <1>1, <1>3, <1>6, <1>7, <1>8

LEMMA Beats ==
  ASSUME NEW t \in Nat, NEW d \in Nat, NEW f \in Nat, t = FrameLen * f, t >= FrameLen * d
  PROVE  f >= d /\ (f > d => t > FrameLen * d)
  BY DEF FrameLen

(* The parser keeps step with the frames: one case for each place it can be at. *)
LEMMA FifoParsed ==
  ASSUME FifoInv, Fetch
  PROVE  Beat' /\ (wild' = 1 => cleared' > 0)
  <1> DEFINE b == Content(taken + 1)
  <1>1. /\ taken \in Nat /\ cleared \in Nat /\ done \in Nat /\ wild \in {0, 1}
        /\ Rx3DataBuff \in Seq(Bytes) /\ Len(Rx3DataBuff) \in Nat
    BY DEF FifoInv, TypeOK, Bytes
  <1>2. /\ get = "fetch" /\ at \in Getting /\ Got(b) /\ taken' = taken + 1
        /\ cleared' = cleared /\ done' = done
    BY FifoTaken DEF Fetch, FifoInv, Length
  <1>3. Promised' = Promised - 1 /\ Promised \in Int
    BY FifoTaken
  <1>4. b \in Nat /\ (taken < cleared => b = 0) /\ (taken >= cleared => b = taken + 1)
    BY <1>1 DEF Content
  <1>5. /\ Frame' = taken \div FrameLen /\ Place' = taken % FrameLen /\ Pos(taken + 1) = Place'
    BY <1>1, <1>2 DEF Frame, Place, Pos, FrameLen
  <1>6. CASE wild = 1
    <2>1. wild' = 1 /\ cleared > 0
      BY <1>2, <1>6 DEF Got, Goes, TestCheckout, FifoInv, Payload
    <2> QED
      BY <1>2, <2>1 DEF Beat
  <1>7. CASE wild = 0 /\ at = "head"
    <2>1. /\ Promised >= FrameLen /\ taken >= FrameLen * done
          /\ taken > FrameLen * done => cleared > FrameLen * Frame
      BY <1>7 DEF FifoInv, Beat, Between
    <2>2. CASE FH0(b)
      <3>1. at' = "second" /\ wild' = 0
        BY <1>2, <1>7, <2>2 DEF Got, Goes
      <3>2. taken >= cleared /\ Place' = 0
        BY <1>1, <1>4, <1>5, <2>2 DEF FH0
      <3>3. taken = FrameLen * Frame' /\ Frame' \in Nat
        BY <1>1, <1>5, <3>2 DEF FrameLen
      <3>4. taken > FrameLen * done => Frame = Frame' - 1
        BY <1>1, <3>3 DEF Frame, FrameLen
      <3>5. Frame' >= done /\ (Frame' > done => cleared > FrameLen * (Frame' - 1))
        <4>1. Frame' >= done /\ (Frame' > done => taken > FrameLen * done)
          BY <1>1, <2>1, <3>3, Beats
        <4>2. ASSUME Frame' > done PROVE cleared > FrameLen * (Frame' - 1)
          <5>1. cleared > FrameLen * Frame /\ Frame = Frame' - 1
            BY <2>1, <3>4, <4>1, <4>2
          <5> QED
            BY <5>1
        <4> QED
          BY <4>1, <4>2
      <3>6. Genuine'
        BY <1>1, <1>2, <3>2, <3>5 DEF Genuine, Follows
      <3> QED
        BY <1>1, <1>2, <1>3, <2>1, <3>1, <3>2, <3>6 DEF Beat, InFrame, Between, FrameLen
    <2>3. CASE ~FH0(b)
      <3>1. /\ \/ at' = "while" /\ wild' = 0
               \/ wild' = 1
        BY <1>2, <1>7, <2>3 DEF Got, Goes, TestCheckout
      <3>2. cleared > FrameLen * Frame'
        <4>1. CASE taken < cleared
          BY <1>1, <1>5, <4>1 DEF FrameLen
        <4>2. CASE taken >= cleared
          <5>1. Place' # 0
            BY <1>1, <1>4, <1>5, <2>3, <4>2 DEF FH0
          <5>2. taken # FrameLen * done
            BY <1>1, <1>5, <5>1 DEF FrameLen
          <5>3. Frame' = Frame
            BY <1>1, <1>5, <5>1 DEF Frame, FrameLen
          <5> QED
            BY <1>1, <2>1, <5>2, <5>3 DEF FrameLen
        <4> QED
          BY <1>1, <4>1, <4>2
      <3>3. cleared > 0
        BY <1>1, <1>5, <3>2 DEF FrameLen
      <3> QED
        BY <1>1, <1>2, <2>1, <3>1, <3>2, <3>3 DEF Beat, InFrame, Between, FrameLen
    <2> QED
      BY <2>2, <2>3
  <1>8. ASSUME wild = 0, Genuine, Place \in 0..7
        PROVE  /\ b = taken + 1 /\ Place' = Place + 1 /\ Frame' = Frame /\ Genuine'
               /\ Frame \in Nat /\ taken + 1 = FrameLen * Frame + Place + 2
    <2>1. b = taken + 1
      BY <1>1, <1>4, <1>8 DEF Genuine
    <2>2. /\ Place' = Place + 1 /\ Frame' = Frame
          /\ Frame \in Nat /\ taken + 1 = FrameLen * Frame + Place + 2
      BY <1>1, <1>5, <1>8 DEF Genuine, Frame, Place, FrameLen
    <2> QED
      BY <1>1, <1>2, <1>8, <2>1, <2>2 DEF Genuine, Follows
  <1>9. CASE wild = 0 /\ at = "second"
    <2>1. Genuine /\ Place = 0 /\ Promised >= 8
      BY <1>9 DEF FifoInv, Beat, InFrame
    <2>2. FH1(b) /\ ~FH0(b)
      BY <1>1, <1>5, <1>8, <1>9, <2>1 DEF FH1, FH0
    <2>3. at' = "length" /\ wild' = 0
      BY <1>2, <1>9, <2>2 DEF Got, Goes
    <2> QED
      BY <1>3, <1>8, <1>9, <2>1, <2>3 DEF Beat, InFrame, Between
  <1>10. CASE wild = 0 /\ at = "length"
    <2>1. Genuine /\ Place = 1 /\ Promised >= 7
      BY <1>10 DEF FifoInv, Beat, InFrame
    <2>2. b > 0 /\ Pos(b) = 2
      BY <1>1, <1>5, <1>8, <1>10, <2>1
    <2>3. Value(b) = 6
      BY <2>2 DEF Value
    <2>4. at' = "data" /\ wild' = 0 /\ length' = 6 /\ Rx3DataBuff' = <<>>
      BY <1>2, <1>10, <2>3 DEF Got, Payload
    <2> QED
      BY <1>3, <1>8, <1>10, <2>1, <2>4 DEF Beat, InFrame, Between
  <1>11. CASE wild = 0 /\ at = "data"
    <2>1. /\ Genuine /\ length = 6 /\ Len(Rx3DataBuff) < 6
          /\ Place = 2 + Len(Rx3DataBuff) /\ Promised >= 6 - Len(Rx3DataBuff)
          /\ \A i \in 1..Len(Rx3DataBuff) : Rx3DataBuff[i] = FrameLen * Frame + 3 + i
      BY <1>11 DEF FifoInv, Beat, InFrame
    <2>2. /\ Rx3DataBuff' = Append(Rx3DataBuff, b) /\ length' = 6 /\ wild' = 0
          /\ at' = IF Len(Rx3DataBuff') = length THEN "execute" ELSE "data"
      BY <1>2, <1>11, <2>1 DEF Got
    <2>3. /\ b = taken + 1 /\ Place' = Place + 1 /\ Frame' = Frame /\ Genuine'
          /\ Frame \in Nat /\ taken + 1 = FrameLen * Frame + Place + 2
      BY <1>1, <1>8, <1>11, <2>1
    <2>4. Len(Rx3DataBuff') = Len(Rx3DataBuff) + 1
      BY <1>1, <2>2
    <2>5. ASSUME NEW i \in 1..Len(Rx3DataBuff')
          PROVE  Rx3DataBuff'[i] = FrameLen * Frame + 3 + i
      <3>1. CASE i = Len(Rx3DataBuff) + 1
        <4>1. Rx3DataBuff'[i] = b
          BY <1>1, <2>2, <3>1
        <4>2. b = FrameLen * Frame + 3 + i
          BY <1>1, <2>1, <2>3, <3>1 DEF FrameLen
        <4> QED
          BY <4>1, <4>2
      <3>2. CASE i # Len(Rx3DataBuff) + 1
        <4>1. i \in 1..Len(Rx3DataBuff)
          BY <1>1, <2>4, <2>5, <3>2
        <4>2. Rx3DataBuff'[i] = Rx3DataBuff[i]
          BY <1>1, <2>2, <4>1
        <4> QED
          BY <2>1, <4>1, <4>2
      <3> QED
        BY <3>1, <3>2
    <2>6. CASE Len(Rx3DataBuff') = 6
      BY <1>1, <1>3, <2>1, <2>2, <2>3, <2>4, <2>5, <2>6 DEF Beat, InFrame, Between
    <2>7. CASE Len(Rx3DataBuff') # 6
      BY <1>1, <1>3, <2>1, <2>2, <2>3, <2>4, <2>5, <2>7 DEF Beat, InFrame, Between
    <2> QED
      BY <2>6, <2>7
  <1> QED
    BY <1>1, <1>2, <1>6, <1>7, <1>9, <1>10, <1>11 DEF Getting

LEMMA FifoStep == Paced = 1 /\ FifoInv /\ [Next]_vars => FifoInv'
  <1> SUFFICES ASSUME Paced = 1, FifoInv, [Next]_vars PROVE FifoInv'
    OBVIOUS
  <1>1. TypeOK'
    BY TypeStep DEF TypeInv, HeldOK, FifoInv, Length
  <1>2. cleared' >= cleared /\ cleared \in Nat /\ cleared' \in Nat
    <2>1. cleared \in Nat /\ cleared' \in Nat /\ cleared <= sent
      BY <1>1 DEF FifoInv, TypeOK, Bytes, Ring
    <2>2. cleared' = cleared \/ cleared' = sent
      BY DEF Next, DealSeriAceptData, USART3_IRQHandler, Call, While, Empty, Load, Store, Fetch,
             Execute, UART3_ClrRxBuf, ghosts, vars
    <2> QED
      BY <2>1, <2>2
  <1>3. CASE USART3_IRQHandler
    BY <1>1, <1>3, FifoInterrupt DEF USART3_IRQHandler, FifoInv
  <1>4. CASE Load
    BY <1>1, <1>4, FifoLoad, SameRing DEF Load, FifoInv, ghosts
  <1>5. CASE Store
    <2>1. Ring'
      BY <1>5 DEF Store, FifoInv, Ring, Slot, Content, Waiting
    <2> QED
      BY <1>1, <1>5, <2>1, FifoStore DEF Store, FifoInv
  <1>6. CASE Fetch
    BY <1>1, <1>6, FifoTaken, FifoParsed DEF FifoInv
  <1>7. CASE Empty
    BY <1>1, <1>7, FifoEmpty, SameRing DEF Empty, FifoInv
  <1>8. CASE Call \/ While \/ Execute
    <2>1. Ring'
      BY <1>8, SameRing DEF Call, While, Execute, FifoInv, ghosts
    <2>2. Length' /\ Beat' /\ wild' = wild
      BY <1>8, FifoQuiet
    <2> QED
      BY <1>1, <1>2, <2>1, <2>2 DEF FifoInv
  <1>9. CASE UART3_ClrRxBuf
    <2>1. Ring' /\ Length' /\ Beat' /\ wild' = wild
      BY <1>9, FifoCleared, FifoQuiet
    <2> QED
      BY <1>1, <1>2, <2>1 DEF FifoInv
  <1>10. CASE UNCHANGED vars
    BY <1>1, <1>10 DEF vars, fifo, parser, ghosts, FifoInv, Ring, Length, Beat, InFrame, Between,
                       Promised, Genuine, Follows, Frame, Place, Slot, Content, Waiting
  <1> QED
    BY <1>3, <1>4, <1>5, <1>6, <1>7, <1>8, <1>9, <1>10 DEF Next, DealSeriAceptData

LEMMA FifoAlways == Paced = 1 => (Spec => []FifoInv)
  <1> SUFFICES ASSUME Paced = 1 PROVE Spec => []FifoInv
    OBVIOUS
  <1>1. FifoInv /\ [Next]_vars => FifoInv'
    BY FifoStep
  <1> QED
    BY FifoInit, <1>1, PTL DEF Spec

(* As long as the customer has no more keys waiting than the buffer holds, and *)
(* wherever the interrupt falls, no byte is read twice or before it came.      *)
THEOREM NoByteTwice == Paced = 1 => (Spec => []NothingReadTwice)
  <1>1. FifoInv => NothingReadTwice
    <2> SUFFICES ASSUME FifoInv PROVE UART_InpLen <= Waiting
      BY DEF NothingReadTwice
    <2> QED
      BY DEF FifoInv, Length, Promised, TypeOK, Waiting, Bytes
  <1> QED
    BY <1>1, FifoAlways, PTL

(* Each command executed is one whole frame, in the order they were sent, and   *)
(* none is passed over unless a card payment cleared it.                        *)
THEOREM CommandsAreFrames == Paced = 1 => (Spec => []CommandIsFrame)
  <1>1. FifoInv => CommandIsFrame
    <2> SUFFICES ASSUME FifoInv, wild = 0, at = "execute"
                 PROVE  \E f \in 1..taken :
                          /\ f > done /\ taken = FrameLen * f
                          /\ length = FrameLen - 3 /\ Len(Rx3DataBuff) = length
                          /\ \A i \in DOMAIN Rx3DataBuff :
                               Rx3DataBuff[i] = FrameLen * (f - 1) + 3 + i
                          /\ f > done + 1 => cleared > FrameLen * (f - 2)
      BY DEF CommandIsFrame
    <2>1. /\ Genuine /\ length = 6 /\ Len(Rx3DataBuff) = 6 /\ Place = 8
          /\ \A i \in 1..Len(Rx3DataBuff) : Rx3DataBuff[i] = FrameLen * Frame + 3 + i
      BY DEF FifoInv, Beat, InFrame
    <2>2. taken \in Nat /\ done \in Nat /\ cleared \in Nat /\ Rx3DataBuff \in Seq(Bytes)
      BY DEF FifoInv, TypeOK, Bytes
    <2>3. Frame + 1 \in 1..taken /\ taken = FrameLen * (Frame + 1) /\ Frame \in Nat
      BY <2>1, <2>2 DEF Genuine, Place, Frame, FrameLen
    <2>4. DOMAIN Rx3DataBuff = 1..Len(Rx3DataBuff)
      BY <2>2
    <2>5. Frame + 1 > done /\ (Frame + 1 > done + 1 => cleared > FrameLen * ((Frame + 1) - 2))
      BY <2>1, <2>2, <2>3 DEF Genuine, Follows
    <2>6. (Frame + 1) - 1 = Frame
      BY <2>3
    <2> QED
      BY <2>1, <2>3, <2>4, <2>5, <2>6 DEF FrameLen
  <1> QED
    BY <1>1, FifoAlways, PTL

(* Without card payments checkout is never used before it is set.               *)
THEOREM UnsetOnlyAfterClear == Paced = 1 => (Spec => []UnsetNeedsClear)
  <1>1. FifoInv => UnsetNeedsClear
    BY DEF FifoInv, UnsetNeedsClear
  <1> QED
    BY <1>1, FifoAlways, PTL
=============================================================================
