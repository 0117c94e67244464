----------------------------- MODULE ScreenFifo -----------------------------
(***************************************************************************)
(* The link from the touch screen, byte by byte: the interrupt that puts   *)
(* bytes into a ring buffer (USART3_IRQHandler of uart3.c), USART3_GetChar *)
(* with the load and the store of its length apart, the parser             *)
(* DealSeriAceptData (serialscreen.c), and the clearing of the buffer      *)
(* after a card payment (bsp.c).  Sale has what comes out: whole commands. *)
(*                                                                         *)
(* A byte is the number it has among all bytes the screen ever sent; its   *)
(* value follows from its place in its frame, A5 5A 06 83 and five more.   *)
(* 0 is a byte nobody sent: what an empty or a cleared slot holds.         *)
(***************************************************************************)
EXTENDS Integers, Sequences

CONSTANTS
  RX3BUF_SIZE,  \* slots of the ring buffer (200)
  MaxBytes,     \* bound: bytes the screen ever sends
  Garbage,      \* what an unset length may hold, beside an unset checkout that is 1
  Paced,        \* 1: the customer never has more keys waiting than the buffer holds
  Clears        \* 1: there are card payments, which clear the buffer

(* UART_InpLen is an unsigned char, so a full buffer must fit one. *)
ASSUME FifoAssumption ==
  /\ RX3BUF_SIZE \in 9..255 /\ MaxBytes \in Nat /\ Garbage \subseteq 0..255
  /\ Paced \in {0, 1} /\ Clears \in {0, 1}

VARIABLES
  RX3_BUFF, UART_InpLen, RX_IndexR, RX_IndexW,
  at,           \* where the main loop is: "away" from DealSeriAceptData, at
                \* its "while", at the GetChar of a byte, or executing
  get,          \* where in USART3_GetChar: its "test", the "store", the "fetch"
  held,         \* the length it loaded
  length, checkout, Rx3DataBuff,     \* of DealSeriAceptData
  sent,         \* ghost: bytes received by the interrupt
  taken,        \* ghost: bytes taken out
  lost,         \* ghost: increments of UART_InpLen that were overwritten
  cleared,      \* ghost: the last byte received when the buffer was cleared
  done,         \* ghost: the last frame executed
  wild          \* ghost: 1 when an unset checkout was taken for 1

fifo   == <<RX3_BUFF, UART_InpLen, RX_IndexR, RX_IndexW>>
parser == <<length, checkout, Rx3DataBuff>>
ghosts == <<sent, taken, lost, cleared, done, wild>>
vars   == <<fifo, at, get, held, parser, ghosts>>

FrameLen == 9
Unset    == 2                    \* checkout before it was assigned
Waiting  == sent - taken
Pos(b)   == (b - 1) % FrameLen   \* the place of byte b in its frame
FH0(b)   == b > 0 /\ Pos(b) = 0
FH1(b)   == b > 0 /\ Pos(b) = 1

(* The value of byte b, should the parser take it for a length: of the payload *)
(* only the command, 0x83, matters.                                            *)
Value(b) == IF b = 0 THEN 0
            ELSE [p \in 0..8 |-> IF p = 0 THEN 165 ELSE IF p = 1 THEN 90
                                 ELSE IF p = 2 THEN 6 ELSE IF p = 3 THEN 131 ELSE 1][Pos(b)]

(* The next slot; and a mistake one could make, with which a run must fail. *)
StepLate(i) == IF i > RX3BUF_SIZE THEN 0 ELSE i + 1
Step(i) == IF i + 1 >= RX3BUF_SIZE THEN 0 ELSE i + 1

Getting == {"head", "second", "length", "data"}

Init ==
  /\ RX3_BUFF = [i \in 0..RX3BUF_SIZE - 1 |-> 0]
  /\ UART_InpLen = 0 /\ RX_IndexR = 0 /\ RX_IndexW = 0
  /\ at = "away" /\ get = "test" /\ held = 0
  /\ length = 0 /\ checkout = Unset /\ Rx3DataBuff = <<>>
  /\ sent = 0 /\ taken = 0 /\ lost = 0 /\ cleared = 0 /\ done = 0 /\ wild = 0

(* More of them: a parser that waits for eight bytes, for one or for more than *)
(* a frame, and an interrupt that counts twice.                                *)
EightArrived  == UART_InpLen >= FrameLen - 1
OneArrived    == UART_InpLen >= 1
MoreArrived   == UART_InpLen > FrameLen
CountsTwice   == UART_InpLen' = (UART_InpLen + 2) % 256

-----------------------------------------------------------------------------
(* The interrupt.  It runs as a whole between two steps of the main loop. *)

Count == UART_InpLen' = (UART_InpLen + 1) % 256

USART3_IRQHandler ==
  /\ sent < MaxBytes
  /\ Paced = 1 => Waiting < RX3BUF_SIZE
  /\ sent' = sent + 1
  /\ Count
  /\ RX3_BUFF' = [RX3_BUFF EXCEPT ![RX_IndexW] = sent']
  /\ RX_IndexW' = Step(RX_IndexW)
  /\ UNCHANGED <<RX_IndexR, at, get, held, parser, taken, lost, cleared, done, wild>>

-----------------------------------------------------------------------------
(* DealSeriAceptData.  Its locals are new at every call and unset but for   *)
(* the buffer.  Got(b) is what it does with the byte it asked for: Goes to  *)
(* the next byte, or tests checkout.                                        *)

Call ==
  /\ at = "away"
  /\ at' = "while" /\ checkout' = Unset /\ Rx3DataBuff' = <<>>
  /\ UNCHANGED <<fifo, get, held, length, ghosts>>

Arrived == UART_InpLen >= FrameLen

While ==
  /\ at = "while"
  /\ at' = IF Arrived THEN "head" ELSE "away"
  /\ UNCHANGED <<fifo, get, held, parser, ghosts>>

Goes(p) == at' = p /\ UNCHANGED <<parser, wild>>

(* checkout has become 1 and the next n bytes are the payload. *)
Payload(n) == /\ checkout' = 0 /\ length' = n /\ Rx3DataBuff' = <<>>
              /\ at' = IF n = 0 THEN "execute" ELSE "data"

(* No length was found.  An unset checkout holds what the stack held. *)
TestCheckout ==
  \/ Goes("while")
  \/ checkout = Unset /\ wild' = 1 /\ \E n \in Garbage : Payload(n)

Got(b) ==
  \/ at = "head"   /\ FH0(b)  /\ Goes("second")
  \/ at = "head"   /\ ~FH0(b) /\ TestCheckout
  \/ at = "second" /\ FH1(b)  /\ Goes("length")
  \/ at = "second" /\ FH0(b)  /\ Goes("second")
  \/ at = "second" /\ ~FH0(b) /\ ~FH1(b) /\ TestCheckout
  \/ at = "length" /\ Payload(Value(b)) /\ wild' = wild
  \/ /\ at = "data"
     /\ Rx3DataBuff' = Append(Rx3DataBuff, b)
     /\ at' = IF Len(Rx3DataBuff') = length THEN "execute" ELSE "data"
     /\ UNCHANGED <<length, checkout, wild>>

(* A GetChar that finds nothing leaves a 0 where a byte of the payload should *)
(* be.  The other callers always find one: nine bytes had arrived.             *)
Empty ==
  /\ at = "data" /\ get = "test" /\ UART_InpLen = 0
  /\ Got(0)
  /\ UNCHANGED <<fifo, get, held, sent, taken, lost, cleared, done>>

(* UART_InpLen-- is a load and a store.  A byte in between is not counted. *)
Load ==
  /\ at \in Getting /\ get = "test" /\ UART_InpLen # 0
  /\ held' = UART_InpLen /\ get' = "store"
  /\ UNCHANGED <<fifo, at, parser, ghosts>>

Store ==
  /\ get = "store"
  /\ UART_InpLen' = held - 1 /\ get' = "fetch"
  /\ lost' = lost + (UART_InpLen - held)
  /\ UNCHANGED <<RX3_BUFF, RX_IndexR, RX_IndexW, at, held, parser,
                 sent, taken, cleared, done, wild>>

Fetch ==
  /\ get = "fetch"
  /\ Got(RX3_BUFF[RX_IndexR])
  /\ RX_IndexR' = Step(RX_IndexR) /\ get' = "test"
  /\ taken' = taken + 1
  /\ UNCHANGED <<RX3_BUFF, UART_InpLen, RX_IndexW, held, sent, lost, cleared, done>>

(* ChangeVariableValues, as Sale has it. *)
Execute ==
  /\ at = "execute"
  /\ at' = "while" /\ done' = taken \div FrameLen
  /\ UNCHANGED <<fifo, get, held, parser, sent, taken, lost, cleared, wild>>

DealSeriAceptData == Call \/ While \/ Empty \/ Load \/ Store \/ Fetch \/ Execute

(* After a card was asked for WaitPayMoney clears the buffer, but not its length. *)
UART3_ClrRxBuf ==
  /\ Clears = 1 /\ at = "away"
  /\ RX3_BUFF' = [i \in 0..RX3BUF_SIZE - 1 |-> 0]
  /\ cleared' = sent
  /\ UNCHANGED <<UART_InpLen, RX_IndexR, RX_IndexW, at, get, held, parser,
                 sent, taken, lost, done, wild>>

Next == USART3_IRQHandler \/ DealSeriAceptData \/ UART3_ClrRxBuf

Spec == Init /\ [][Next]_vars

(* The main loop calls DealSeriAceptData for ever and is never held up in it. *)
FairSpec == Spec /\ WF_vars(DealSeriAceptData)

-----------------------------------------------------------------------------
Bytes == 0..MaxBytes

(* Both indices stay in the buffer, the length in its byte, and a command in *)
(* what a length can be.                                                     *)
TypeOK ==
  /\ RX3_BUFF \in [0..RX3BUF_SIZE - 1 -> Bytes]
  /\ UART_InpLen \in 0..255 /\ held \in 0..255
  /\ RX_IndexR \in 0..RX3BUF_SIZE - 1 /\ RX_IndexW \in 0..RX3BUF_SIZE - 1
  /\ at \in Getting \cup {"away", "while", "execute"}
  /\ get \in {"test", "store", "fetch"}
  /\ length \in 0..255 /\ checkout \in {0, Unset} /\ Rx3DataBuff \in Seq(Bytes)
  /\ sent \in Bytes /\ taken \in Nat /\ lost \in Int /\ cleared \in Bytes
  /\ done \in Nat /\ wild \in {0, 1}

(* Whatever interrupt comes between the load and the store of UART_InpLen, no *)
(* byte is read before it came, or a second time: the length is never more     *)
(* than what waits (USART3_GetChar).                                           *)
NothingReadTwice == Paced = 1 => UART_InpLen <= Waiting

(* The parser never loses the frames' beat by itself: a command is executed   *)
(* with the payload of one frame, later than the last, and a frame is passed  *)
(* over only if a card payment cleared its first byte (DealSeriAceptData).     *)
CommandIsFrame ==
  Paced = 1 /\ wild = 0 /\ at = "execute" =>
    \E f \in 1..taken :
      /\ f > done /\ taken = FrameLen * f
      /\ length = FrameLen - 3 /\ Len(Rx3DataBuff) = length
      /\ \A i \in DOMAIN Rx3DataBuff : Rx3DataBuff[i] = FrameLen * (f - 1) + 3 + i
      /\ f > done + 1 => cleared > FrameLen * (f - 2)

(* checkout is never used before it is set (serialscreen.c:1572), unless a card *)
(* payment cleared bytes the length still counts.                              *)
UnsetNeedsClear == Paced = 1 /\ wild = 1 => cleared > 0

(* When the screen falls quiet the main loop comes to execute all it received: *)
(* less than a frame is left, and one byte for every increment that was lost.  *)
Drained == <>[](Waiting < FrameLen + lost)

(* "涉及FIFO操作时不允许中断，以免指针错乱" (uart3.c:107): no interrupt during  *)
(* an operation on the FIFO, so that length and indices agree when it is over.  *)
LenIsCount == Paced = 1 /\ get = "test" => UART_InpLen = Waiting
=============================================================================
