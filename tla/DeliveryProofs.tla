--------------------------- MODULE DeliveryProofs ---------------------------
(***************************************************************************)
(* What is proved about Delivery, for every choice of limits and retries,  *)
(* every way to cut a report in two, and any number of meals.              *)
(*                                                                         *)
(* Whatever the arm does: the variables keep their types, every meal asked *)
(* for is counted or paid back, never both, and none is fetched twice.  If *)
(* it only misses meals or falls silent (Plain): ArmInv is inductive, and  *)
(* the errand and the count agree with what the arm did.  If it only       *)
(* misses meals (Alive): WaitMeal implements DeliveryContract.             *)
(***************************************************************************)
EXTENDS DeliveryInv, TLAPS

(* A loop of a delivery has a meal. *)
Busy == Place \in Fetching => meal >= 1

IInv == TypeOK /\ Busy /\ MealsAccounted

(* The limits are whole numbers, also those one below a constant. *)
LEMMA LimitType == \A p \in Places : Limit[p] \in Int /\ Limit[p] >= -1
  BY DeliveryAssumption DEF Limit, Places

(* TypeOK by variables: what the arm changes, and the rest. *)
RobotOK == /\ order \in (Commands \X (0..meal)) \cup {Nothing}
           /\ coming \in ((Flags \cup {"other"}) \X (1..6)) \cup {Silent}
           /\ arm \in {"home", "moving", "goal", "fetching", "door", "left", "returning", "off"}
           /\ job \in 0..meal
UartOK  == /\ machinerec \subseteq Flags
           /\ Usart6Buff \in Reports \cup {"none", "junk", "other"}
           /\ Usart6Index \in 0..6 /\ Usart6DataFlag \in {0, 1}
LoopOK  == Place \in Places /\ LinkTime \in 0..(Limit[Place] + 1) /\ RetryFre \in 0..(Retries - 1)
FateOK  == /\ meal \in 0..MaxMeals
           /\ {handed, reported, counted, failed} \subseteq SUBSET (0..meal)

LEMMA TypeParts == TypeOK <=> RobotOK /\ UartOK /\ LoopOK /\ FateOK
  BY DEF TypeOK, RobotOK, UartOK, LoopOK, FateOK

(* The same of the next state. *)
LEMMA TypePartsNext == TypeOK' <=> RobotOK' /\ UartOK' /\ LoopOK' /\ FateOK'
  BY DEF TypeOK, RobotOK, UartOK, LoopOK, FateOK

(* The index of the receive buffer stays between 0 and 6. *)
LEMMA AdvanceType == ASSUME Usart6Index \in 0..6, NEW n \in 0..6 PROVE Advance(n) \in 0..6
  BY DEF Advance

(* A stage that ends with a report keeps the types of the arm. *)
LEMMA StageTyped ==
  ASSUME RobotOK, NEW from, NEW report \in Reports,
         NEW to \in {"home", "goal", "door", "left", "returning"}, Stage(from, report, to)
  PROVE  RobotOK'
  BY DEF RobotOK, Stage, ArmOnly, Says, Flags, Reports, Answers

(* The arm leaves the program alone and keeps its own types. *)
LEMMA ArmTyped == TypeOK /\ Arm => TypeOK'
  <1> SUFFICES ASSUME TypeOK, Arm PROVE TypeOK'
      OBVIOUS
  <1>1. RobotOK /\ UartOK /\ LoopOK /\ FateOK BY TypeParts
  <1>2. ArmOnly
    BY DEF Arm, Accept, Refuse, Stage, ReachGoal, ReachDoor, MissMeal, LeaveMeal, TakeMeal,
           ReachHome, Chatter, Die
  <1>3. UartOK' /\ LoopOK' BY <1>1, <1>2 DEF ArmOnly, uart, UartOK, LoopOK
  <1> USE <1>1, <1>2 DEF RobotOK, FateOK, ArmOnly, fate, Says, Silent, Answers, Reports, Flags
  <1>4. CASE Accept
    <2>1. order[1] \in Commands /\ order[2] \in 0..meal BY <1>4 DEF Accept
    <2>2. arm' \in {arm, "returning", "moving", "fetching"} BY <1>4, <2>1 DEF Accept, Commands
    <2>3. RobotOK' BY <1>4, <2>1, <2>2 DEF Accept
    <2>4. FateOK' BY <1>4 DEF Accept
    <2> QED BY <2>3, <2>4, <1>3, TypePartsNext
  <1>5. CASE Refuse
    <2>1. RobotOK' /\ FateOK' BY <1>5 DEF Refuse
    <2> QED BY <2>1, <1>3, TypePartsNext
  <1>6. CASE ReachGoal
    <2>1. RobotOK' BY <1>6, StageTyped DEF ReachGoal
    <2>2. FateOK' BY <1>6 DEF ReachGoal, Stage
    <2> QED BY <2>1, <2>2, <1>3, TypePartsNext
  <1>7. CASE ReachDoor
    <2>1. RobotOK' BY <1>7, StageTyped DEF ReachDoor
    <2>2. FateOK' BY <1>7 DEF ReachDoor
    <2> QED BY <2>1, <2>2, <1>3, TypePartsNext
  <1>8. CASE MissMeal
    <2>1. RobotOK' BY <1>8, StageTyped DEF MissMeal
    <2>2. FateOK' BY <1>8 DEF MissMeal, Stage
    <2> QED BY <2>1, <2>2, <1>3, TypePartsNext
  <1>9. CASE LeaveMeal
    <2>1. RobotOK' BY <1>9, StageTyped DEF LeaveMeal
    <2>2. FateOK' BY <1>9 DEF LeaveMeal
    <2> QED BY <2>1, <2>2, <1>3, TypePartsNext
  <1>10. CASE TakeMeal
    <2>1. RobotOK' BY <1>10, StageTyped DEF TakeMeal
    <2>2. FateOK' BY <1>10 DEF TakeMeal
    <2> QED BY <2>1, <2>2, <1>3, TypePartsNext
  <1>11. CASE ReachHome
    <2>1. RobotOK' BY <1>11, StageTyped DEF ReachHome
    <2>2. FateOK' BY <1>11 DEF ReachHome, Stage
    <2> QED BY <2>1, <2>2, <1>3, TypePartsNext
  <1>12. CASE Chatter
    <2>1. RobotOK' /\ FateOK' BY <1>12 DEF Chatter
    <2> QED BY <2>1, <1>3, TypePartsNext
  <1>13. CASE Die
    <2>1. RobotOK' /\ FateOK' BY <1>13 DEF Die
    <2> QED BY <2>1, <1>3, TypePartsNext
  <1> QED
    BY <1>4, <1>5, <1>6, <1>7, <1>8, <1>9, <1>10, <1>11, <1>12, <1>13 DEF Arm

(* The interrupts keep the types of what they change. *)
LEMMA InterruptTyped == TypeOK /\ (USART6_IRQHandler \/ TIM5_IRQHandler) => TypeOK'
  <1> SUFFICES ASSUME TypeOK, USART6_IRQHandler \/ TIM5_IRQHandler PROVE TypeOK'
      OBVIOUS
  <1>1. RobotOK /\ UartOK /\ LoopOK /\ FateOK BY TypeParts
  <1> USE <1>1 DEF RobotOK, UartOK, FateOK, fate, Silent, Answers, Reports, Flags
  <1>2. CASE ReceiveAnswer
    <2>1. LoopOK' /\ FateOK' BY <1>2 DEF ReceiveAnswer, LoopOK
    <2>2. RobotOK' BY <1>2 DEF ReceiveAnswer
    <2>3. Advance(1) \in 0..6 BY AdvanceType DEF UartOK
    <2>4. machinerec' \subseteq Flags BY <1>2 DEF ReceiveAnswer
    <2>5. UartOK' BY <1>2, <2>3, <2>4 DEF ReceiveAnswer
    <2> QED BY <2>1, <2>2, <2>5, TypePartsNext
  <1>3. ASSUME NEW n \in Splits, ReceivePart(n) PROVE TypeOK'
    <2>1. n \in 1..5 BY DeliveryAssumption
    <2>2. LoopOK' /\ FateOK' BY <1>3 DEF ReceivePart, LoopOK
    <2>3. RobotOK' BY <1>3, <2>1 DEF ReceivePart
    <2>4. UartOK' BY <1>3, <2>1, AdvanceType DEF ReceivePart
    <2> QED BY <2>2, <2>3, <2>4, TypePartsNext
  <1>4. CASE ReceiveRest
    <2>1. LoopOK' /\ FateOK' BY <1>4 DEF ReceiveRest, LoopOK
    <2>2. RobotOK' BY <1>4 DEF ReceiveRest
    <2>3. coming[2] \in 1..6 /\ coming[1] \in Reports \cup {"other"} BY <1>4 DEF ReceiveRest
    <2>4. UartOK' BY <1>4, <2>3, AdvanceType DEF ReceiveRest
    <2> QED BY <2>1, <2>2, <2>4, TypePartsNext
  <1>5. CASE TIM5_IRQHandler
    <2>1. RobotOK' /\ UartOK' /\ FateOK' BY <1>5 DEF TIM5_IRQHandler, uart, robot
    <2>2. LoopOK' BY <1>5, LimitType DEF TIM5_IRQHandler, LoopOK
    <2> QED BY <2>1, <2>2, TypePartsNext
  <1> QED BY <1>2, <1>3, <1>4, <1>5 DEF USART6_IRQHandler

(* Reading the buffer and looking at flags keeps their types. *)
LEMMA ReadTyped ==
  ASSUME UartOK, Read, machinerec' \subseteq Raised
  PROVE  UartOK'
  BY DEF UartOK, Read, Raised, Flags

(* A command that is sent is one of the four, for a meal asked for. *)
LEMMA SendTyped ==
  ASSUME RobotOK, NEW p \in Ordering, NEW m \in 0..meal', Send(p, m),
         UNCHANGED <<coming, arm, job>>, meal' \in Nat, meal <= meal', meal \in Nat
  PROVE  RobotOK'
  <1>1. order' \in Commands \X (0..meal') BY DEF Send, CommandAt, Commands, Ordering
  <1> QED BY <1>1 DEF RobotOK

(* A loop is entered with the time and the refusals at 0. *)
LEMMA EnterTyped ==
  ASSUME NEW p \in Places, Place' = p, LinkTime' = 0, RetryFre' = 0
  PROVE  LoopOK'
  <1>1. Limit[p] >= -1 /\ Limit[p] \in Int BY LimitType
  <1> QED BY <1>1, DeliveryAssumption DEF LoopOK

(* So it is left. *)
LEMMA LeaveTyped == LoopOK /\ Leave => LoopOK'
  <1>1. "idle" \in Places BY DEF Places
  <1> QED BY <1>1, LimitType, DeliveryAssumption DEF LoopOK, Leave

(* The program keeps the types of what it changes. *)
LEMMA ProgramTyped == TypeOK /\ Program => TypeOK'
  <1> SUFFICES ASSUME TypeOK, Program PROVE TypeOK'
      OBVIOUS
  <1>1. RobotOK /\ UartOK /\ LoopOK /\ FateOK BY TypeParts
  <1>2. MaxMeals \in Nat /\ meal \in Nat BY <1>1, DeliveryAssumption DEF FateOK
  <1>3. Ordering \subseteq Places /\ Awaiting \subseteq Places /\ "idle" \in Places BY DEF Places
  <1> USE <1>1, <1>2, <1>3
  <1>4. CASE Acked
    <2> USE <1>4 DEF Acked
    <2>1. UartOK' BY DEF AckSeen, UartOK, uart
    <2>2. FateOK' BY DEF FateOK, fate
    <2>3. LoopOK' BY EnterTyped DEF Give, Back, Ordering, Awaiting
    <2>4. RobotOK'
      <3>1. CASE order' = order BY <3>1 DEF RobotOK
      <3>2. CASE Place = "initlink" BY <3>2, SendTyped DEF Give, Ordering
      <3> QED BY <3>1, <3>2 DEF Back
    <2> QED BY <2>1, <2>2, <2>3, <2>4, TypePartsNext
  <1>5. CASE Unanswered
    <2> USE <1>5 DEF Unanswered
    <2>1. UartOK' BY DEF UartOK, uart
    <2>2. FateOK' BY DEF FateOK, fate
    <2>3. LoopOK' BY EnterTyped DEF Give, Back, Ordering
    <2>4. RobotOK'
      <3>1. CASE order' = order BY <3>1 DEF RobotOK
      <3>2. CASE Give("initlink", meal) BY <3>2, SendTyped DEF Give, Ordering
      <3> QED BY <3>1, <3>2 DEF Back
    <2> QED BY <2>1, <2>2, <2>3, <2>4, TypePartsNext
  <1>6. CASE Nacked
    <2> USE <1>6 DEF Nacked
    <2>1. UartOK' BY DEF AckSeen, UartOK, uart
    <2>2. FateOK' BY DEF FateOK, fate
    <2>3. LoopOK'
      <3>1. CASE RetryFre + 1 < Retries BY <3>1, DeliveryAssumption DEF LoopOK
      <3>2. CASE ~(RetryFre + 1 < Retries) BY <3>2, EnterTyped DEF Give, Ordering
      <3> QED BY <3>1, <3>2
    <2>4. RobotOK'
      <3>1. CASE Send(Place, meal) BY <3>1, SendTyped
      <3>2. CASE Give("initlink", meal) BY <3>2, SendTyped DEF Give, Ordering
      <3> QED BY <3>1, <3>2
    <2> QED BY <2>1, <2>2, <2>3, <2>4, TypePartsNext
  <1>7. CASE Idle
    <2> USE <1>7 DEF Idle
    <2>1. UartOK' BY ReadTyped
    <2>2. RobotOK' /\ LoopOK' /\ FateOK' BY DEF RobotOK, LoopOK, FateOK, robot, fate
    <2> QED BY <2>1, <2>2, TypePartsNext
  <1>8. CASE AskLink
    <2> USE <1>8 DEF AskLink
    <2>1. UartOK' BY ReadTyped
    <2>2. FateOK' BY DEF FateOK, fate
    <2>3. LoopOK' BY EnterTyped DEF Give, Ordering
    <2>4. RobotOK' BY SendTyped DEF Give, Ordering
    <2> QED BY <2>1, <2>2, <2>3, <2>4, TypePartsNext
  <1>9. CASE WaitMeal
    <2> USE <1>9 DEF WaitMeal
    <2>1. UartOK' BY ReadTyped
    <2>2. FateOK' BY DEF FateOK, fate
    <2>3. LoopOK' BY EnterTyped DEF Give, Ordering
    <2>4. RobotOK'
      <3>1. order' \in Commands \X (0..meal')
        BY DEF Give, Send, CommandAt, Commands, Ordering, Fetching
      <3> QED BY <3>1 DEF RobotOK
    <2> QED BY <2>1, <2>2, <2>3, <2>4, TypePartsNext
  <1>10. CASE InitDone
    <2> USE <1>10 DEF InitDone, Others
    <2>1. UartOK' BY ReadTyped
    <2>2. FateOK' /\ RobotOK' BY DEF FateOK, RobotOK, fate, Leave
    <2>3. LoopOK' BY LeaveTyped
    <2> QED BY <2>1, <2>2, <2>3, TypePartsNext
  <1>11. CASE AtGoal
    <2> USE <1>11 DEF AtGoal, Others, Poll
    <2>1. UartOK' BY ReadTyped DEF Down
    <2>2. FateOK' BY DEF FateOK, fate
    <2>3. LoopOK' BY EnterTyped DEF Give, Ordering
    <2>4. RobotOK' BY SendTyped DEF Give, Ordering
    <2> QED BY <2>1, <2>2, <2>3, <2>4, TypePartsNext
  <1>12. CASE AtDoor
    <2> USE <1>12 DEF AtDoor, Others, Poll
    <2>1. UartOK' BY ReadTyped DEF Down
    <2>2. FateOK' /\ RobotOK' BY DEF FateOK, RobotOK, fate, Back
    <2>3. LoopOK' BY EnterTyped DEF Back, Awaiting
    <2> QED BY <2>1, <2>2, <2>3, TypePartsNext
  <1>13. CASE NoMeal
    <2> USE <1>13 DEF NoMeal, Others, Poll, GiveUp
    <2>1. UartOK' BY ReadTyped DEF Down
    <2>2. FateOK' /\ RobotOK' BY DEF FateOK, RobotOK, fate, Leave
    <2>3. LoopOK' BY LeaveTyped
    <2> QED BY <2>1, <2>2, <2>3, TypePartsNext
  <1>14. CASE Away
    <2> USE <1>14 DEF Away, Others
    <2>1. UartOK' BY ReadTyped DEF Down
    <2>2. FateOK' /\ RobotOK' BY DEF FateOK, RobotOK, fate, Back
    <2>3. LoopOK' BY EnterTyped DEF Back
    <2> QED BY <2>1, <2>2, <2>3, TypePartsNext
  <1>15. CASE KeepWaiting
    <2> USE <1>15 DEF KeepWaiting
    <2>1. UartOK' BY ReadTyped
    <2>2. RobotOK' /\ LoopOK' /\ FateOK' BY DEF RobotOK, LoopOK, FateOK, robot, fate
    <2> QED BY <2>1, <2>2, TypePartsNext
  <1>16. CASE TimeOut
    <2> USE <1>16 DEF TimeOut, GiveUp
    <2>1. UartOK' BY DEF UartOK, uart
    <2>2. FateOK' /\ RobotOK' BY DEF FateOK, RobotOK, fate, Leave, Back
    <2>3. LoopOK' BY LeaveTyped, EnterTyped DEF Back
    <2> QED BY <2>1, <2>2, <2>3, TypePartsNext
  <1> QED
    BY <1>4, <1>5, <1>6, <1>7, <1>8, <1>9, <1>10, <1>11, <1>12, <1>13, <1>14, <1>15, <1>16
    DEF Program

(* TypeOK holds at first. *)
LEMMA TypedInit == Init => TypeOK
  <1> SUFFICES ASSUME Init PROVE TypeOK
      OBVIOUS
  <1>1. "initlink" \in Places BY DEF Places, Ordering
  <1>2. LoopOK BY <1>1, LimitType, DeliveryAssumption DEF Init, LoopOK
  <1>3. RobotOK /\ UartOK /\ FateOK
    BY DeliveryAssumption DEF Init, RobotOK, UartOK, FateOK, Commands, Silent, Nothing, Flags,
         Reports
  <1> QED BY <1>2, <1>3, TypeParts

(* Every step keeps TypeOK. *)
LEMMA TypedNext == TypeOK /\ [Next]_vars => TypeOK'
  <1>1. ASSUME TypeOK, UNCHANGED vars PROVE TypeOK'
    BY <1>1 DEF TypeOK, vars, uart, robot, fate
  <1> QED BY <1>1, ArmTyped, InterruptTyped, ProgramTyped DEF Next

(* TypeOK: the buffer index never leaves the buffer by more than the one byte    *)
(* the interrupt allows it, LinkTime never counts far beyond a limit, and every  *)
(* loop of the program is left by one of its exits, whatever the arm does.       *)
THEOREM Typing == Spec => []TypeOK
  BY TypedInit, TypedNext, PTL DEF Spec

-----------------------------------------------------------------------------
(* A step that neither begins nor ends a delivery keeps the account of meals. *)
LEMMA SameAccount ==
  ASSUME Busy, MealsAccounted, UNCHANGED <<meal, counted, failed>>,
         Place' \in Fetching <=> Place \in Fetching
  PROVE  Busy' /\ MealsAccounted'
  BY DEF Busy, MealsAccounted

(* A delivery that ends puts its meal on one side of the account. *)
LEMMA EndsAccount ==
  ASSUME TypeOK, Busy, MealsAccounted, Place \in Fetching, Place' = "idle", UNCHANGED meal,
         \/ counted' = counted \cup {meal} /\ UNCHANGED failed
         \/ failed' = failed \cup {meal} /\ UNCHANGED counted
  PROVE  Busy' /\ MealsAccounted'
  <1>1. meal \in Nat /\ meal >= 1 BY DeliveryAssumption DEF TypeOK, Busy
  <1>2. counted \cap failed = {} /\ counted \cup failed = 1..(meal - 1) BY DEF MealsAccounted
  <1>3. meal \notin counted \cup failed BY <1>1, <1>2
  <1>4. (1..(meal - 1)) \cup {meal} = 1..meal BY <1>1
  <1>5. counted' \cap failed' = {} BY <1>2, <1>3
  <1>6. counted' \cup failed' = 1..meal BY <1>2, <1>4
  <1> QED BY <1>5, <1>6 DEF Busy, MealsAccounted, Fetching

(* The program's steps keep the account. *)
LEMMA ProgramAccount == IInv /\ Program => Busy' /\ MealsAccounted'
  <1> SUFFICES ASSUME TypeOK, Busy, MealsAccounted, Program PROVE Busy' /\ MealsAccounted'
      BY DEF IInv
  <1> USE DEF Fetching, Starting, Ordering
  <1>1. CASE Acked BY <1>1, SameAccount DEF Acked, Give, Back
  <1>2. CASE Unanswered
    <2> USE <1>2 DEF Unanswered
    <2>1. CASE Place \in Fetching BY <2>1, EndsAccount DEF Back, Give
    <2>2. CASE Place \notin Fetching BY <2>2, SameAccount DEF Back, Give
    <2> QED BY <2>1, <2>2
  <1>3. CASE Nacked
    <2> USE <1>3 DEF Nacked
    <2>1. CASE RetryFre + 1 < Retries BY <2>1, SameAccount
    <2>2. CASE ~(RetryFre + 1 < Retries) /\ Place \in Fetching BY <2>2, EndsAccount
    <2>3. CASE ~(RetryFre + 1 < Retries) /\ Place \notin Fetching BY <2>3, SameAccount DEF Give
    <2> QED BY <2>1, <2>2, <2>3
  <1>4. CASE Idle BY <1>4, SameAccount DEF Idle
  <1>5. CASE AskLink BY <1>5, SameAccount DEF AskLink, Give
  <1>6. CASE WaitMeal
    <2>1. meal \in Nat BY DeliveryAssumption DEF TypeOK
    <2>2. meal' = meal + 1 /\ Place' = "coord" /\ Place = "idle" /\ UNCHANGED <<counted, failed>>
      BY <1>6 DEF WaitMeal, Give
    <2>3. meal' - 1 = meal BY <2>1, <2>2
    <2> QED BY <2>1, <2>2, <2>3 DEF Busy, MealsAccounted
  <1>7. CASE InitDone BY <1>7, SameAccount DEF InitDone, Leave, Others
  <1>8. CASE AtGoal BY <1>8, SameAccount DEF AtGoal, Poll, Give, Others
  <1>9. CASE AtDoor BY <1>9, SameAccount DEF AtDoor, Poll, Back, Others
  <1>10. CASE NoMeal BY <1>10, EndsAccount DEF NoMeal, Poll, GiveUp, Leave, Others
  <1>11. CASE Away BY <1>11, EndsAccount DEF Away, Back, Others
  <1>12. CASE KeepWaiting BY <1>12, SameAccount DEF KeepWaiting
  <1>13. CASE TimeOut
    <2> USE <1>13 DEF TimeOut
    <2>1. CASE Place = "initwait" BY <2>1, SameAccount DEF Leave
    <2>2. CASE Place # "initwait" BY <2>2, EndsAccount DEF GiveUp, Leave, Back
    <2> QED BY <2>1, <2>2
  <1> QED
    BY <1>1, <1>2, <1>3, <1>4, <1>5, <1>6, <1>7, <1>8, <1>9, <1>10, <1>11, <1>12, <1>13
    DEF Program

(* The rest of the system leaves the account alone. *)
LEMMA IInvNext == IInv /\ [Next]_vars => IInv'
  <1> SUFFICES ASSUME IInv, [Next]_vars PROVE IInv'
      OBVIOUS
  <1>1. TypeOK' BY TypedNext DEF IInv
  <1>2. CASE Program BY <1>1, <1>2, ProgramAccount DEF IInv
  <1>3. CASE ~Program
    <2>1. UNCHANGED <<Place, meal, counted, failed>>
      BY <1>3 DEF Next, vars, Arm, Accept, Refuse, Stage, ReachGoal, ReachDoor, MissMeal,
         LeaveMeal, TakeMeal, ReachHome, Chatter, Die, ArmOnly, USART6_IRQHandler,
         ReceiveAnswer, ReceivePart, ReceiveRest, TIM5_IRQHandler
    <2> QED BY <1>1, <2>1, SameAccount DEF IInv
  <1> QED BY <1>2, <1>3

(* MealsAccounted: whatever the arm does, WaitMeal counts each meal it was asked *)
(* for or returns takemeal_erro for it, and never both: the customer is neither  *)
(* forgotten nor served and paid back by the program's own account.              *)
THEOREM Accounted == Spec => []MealsAccounted
  <1>1. Init => IInv
    <2>1. 1..0 = {} OBVIOUS
    <2> QED BY <2>1, TypedInit DEF Init, IInv, Busy, MealsAccounted, Fetching
  <1>2. IInv /\ [Next]_vars => IInv' BY IInvNext
  <1>3. IInv => MealsAccounted BY DEF IInv
  <1> QED BY <1>1, <1>2, <1>3, PTL DEF Spec

-----------------------------------------------------------------------------
(* ArmInv: the arm, the line and the buffer. *)

(* What the tables of DeliveryInv say, place by place. *)
LEMMA CommandFacts ==
  /\ CommandAt["initlink"] = "link" /\ CommandAt["initcmd"] = "init" /\ CommandAt["link"] = "link"
  /\ CommandAt["coord"] = "coord" /\ CommandAt["getmeal"] = "getmeal"
  BY DEF CommandAt

LEMMA ReadyFacts ==
  /\ Ready["initlink"] = {"home"} /\ Ready["initcmd"] = {"home"}
  /\ Ready["link"] = {"home", "returning"} /\ Ready["coord"] = {"home", "returning"}
  /\ Ready["getmeal"] = {"goal"}
  BY DEF Ready

LEMMA ObeysFacts ==
  /\ Obeys["initlink"] = {"home"} /\ Obeys["initcmd"] = {"returning"}
  /\ Obeys["link"] = {"home", "returning"} /\ Obeys["coord"] = {"moving"}
  /\ Obeys["getmeal"] = {"fetching"}
  BY DEF Obeys

LEMMA SendsFacts ==
  /\ Sends["initwait"] = {<<"returning", "none">>, <<"home", "relative">>}
  /\ Sends["idle"] = {<<"returning", "none">>, <<"home", "none">>, <<"home", "relative">>}
  /\ Sends["goal"] = {<<"moving", "none">>, <<"goal", "goal">>}
  /\ Sends["door"] = {<<"fetching", "none">>, <<"door", "todoor">>, <<"returning", "enablegetmeal">>}
  /\ Sends["away"] = {<<"door", "none">>, <<"returning", "mealaway">>}
  BY DEF Sends

(* The limits of all loops but the main loop and the start are not negative. *)
LEMMA LimitFacts ==
  ASSUME NEW p \in Places \ {"idle", "initwait"}
  PROVE  Limit[p] \in Nat
  BY DeliveryAssumption DEF Limit, Places, Ordering, Awaiting

(* Where the arm is and what it has said, loop by loop. *)
LEMMA ArmWhere ==
  ASSUME ArmOK
  PROVE  /\ Place = "initwait" => \/ Unread = "none" /\ arm \in {"returning", "off"}
                                  \/ Unread = "relative" /\ arm \in {"home", "off"}
         /\ Place = "idle" => \/ Unread = "none" /\ arm \in {"returning", "home", "off"}
                              \/ Unread = "relative" /\ arm \in {"home", "off"}
         /\ Place = "goal" => \/ Unread = "none" /\ arm \in {"moving", "off"}
                              \/ Unread = "goal" /\ arm \in {"goal", "off"}
         /\ Place = "door" => \/ Unread = "none" /\ arm \in {"fetching", "off"}
                              \/ Unread = "todoor" /\ arm \in {"door", "off"}
                              \/ Unread = "enablegetmeal" /\ arm \in {"returning", "off"}
         /\ Place = "away" => \/ Unread = "none" /\ arm \in {"door", "off"}
                              \/ Unread = "mealaway" /\ arm \in {"returning", "off"}
  BY SendsFacts DEF ArmOK, Ordering

(* The message not yet looked at, by what BufferOK allows. *)
LEMMA UnreadFacts ==
  ASSUME BufferOK
  PROVE  /\ Unread = "none" => /\ coming = Silent /\ Usart6DataFlag = 0
                               /\ Usart6Index = 0 /\ Usart6Buff = "none"
         /\ Unread = "ack" => coming = <<"ack", 1>> /\ Usart6Index = 0 /\ Usart6Buff = "none"
                                /\ Usart6DataFlag = 0
         /\ Usart6DataFlag = 1 => coming = Silent /\ Unread = Usart6Buff /\ Unread \in Reports
         /\ Usart6DataFlag \in {0, 1}
         /\ coming = Silent /\ Usart6DataFlag = 0 =>
               Unread = "none" /\ Usart6Index = 0 /\ Usart6Buff = "none"
         /\ Unread \in {"none", "ack"} \cup Reports
  BY DEF BufferOK, Unread, Silent, Reports

(* A living arm has a command only in the loop that gave it, and is able to obey it. *)
LEMMA CanObey ==
  ASSUME OrderOK, order # Nothing, arm # "off"
  PROVE  /\ Place \in Ordering /\ Able(order[1])
         /\ order = <<CommandAt[Place], IF Place \in Fetching THEN meal ELSE 0>>
         /\ Unread = "none" /\ "ack" \notin machinerec /\ arm \in Ready[Place]
  <1>1. /\ Place \in Ordering
        /\ order = <<CommandAt[Place], IF Place \in Fetching THEN meal ELSE 0>>
        /\ Unread = "none" /\ "ack" \notin machinerec /\ arm \in Ready[Place]
    BY DEF OrderOK
  <1>2. order[1] = CommandAt[Place] BY <1>1
  <1>3. Able(order[1]) BY <1>1, <1>2, CommandFacts, ReadyFacts DEF Able, Ordering
  <1> QED BY <1>1, <1>3

(* It obeys: the answer is on the line. *)
LEMMA AcceptStep == Plain /\ ArmInv /\ Accept => ArmInv'
  <1> SUFFICES ASSUME Plain, ArmInv, Accept PROVE ArmInv'
      OBVIOUS
  <1> USE DEF ArmInv, Accept, ArmOnly, uart, fate, Says
  <1>1. /\ Place \in Ordering
        /\ order = <<CommandAt[Place], IF Place \in Fetching THEN meal ELSE 0>>
        /\ Unread = "none" /\ "ack" \notin machinerec /\ arm \in Ready[Place]
    BY CanObey
  <1>2. Usart6DataFlag = 0 /\ Usart6Index = 0 /\ Usart6Buff = "none" BY <1>1, UnreadFacts
  <1>3. coming' = <<"ack", 1>> BY DEF Answers
  <1>4. Unread' = "ack" BY <1>3 DEF Unread, Silent
  <1>5. arm' \in Obeys[Place]
    BY <1>1, CommandFacts, ReadyFacts, ObeysFacts DEF Ordering
  <1>6. BufferOK' BY <1>2, <1>3 DEF BufferOK
  <1>7. FlagsOK' /\ ArmOK' BY <1>1 DEF FlagsOK, ArmOK
  <1>8. OrderOK' BY <1>1, <1>4, <1>5 DEF OrderOK
  <1>9. Place \in Fetching => job' = meal
    <2>1. CASE Place = "coord" BY <1>1, <2>1, CommandFacts DEF Fetching
    <2>2. CASE Place # "coord" BY <1>1, <2>2, CommandFacts DEF Fetching, Ordering, JobOK
    <2> QED BY <2>1, <2>2
  <1>10. JobOK' BY <1>9 DEF JobOK
  <1>11. LimitOK' BY <1>1 DEF LimitOK, Ordering
  <1>12. HandedOK' BY <1>1 DEF HandedOK, Ordering
  <1>13. CountedWasReported' BY DEF CountedWasReported
  <1> QED BY <1>6, <1>7, <1>8, <1>10, <1>11, <1>12, <1>13

(* A stage of the errand ends: only where the program waits for that, or in the main loop. *)
LEMMA StageFacts ==
  ASSUME Plain, TypeOK, ArmInv, NEW from \in {"moving", "fetching", "door", "left", "returning"},
         NEW report \in Reports, NEW to, Stage(from, report, to)
  PROVE  /\ Place \notin Ordering /\ arm = from /\ arm' = to /\ Unread = "none"
         /\ Unread' = report
         /\ UNCHANGED <<Place, LinkTime, machinerec, order, job, meal, counted, failed>>
         /\ BufferOK' /\ FlagsOK' /\ OrderOK' /\ JobOK' /\ LimitOK'
  <1> USE DEF ArmInv, Stage, ArmOnly, uart, Says
  <1>1. Place \notin Ordering BY DEF Plain
  <1>2. coming = Silent /\ coming' = <<report, 6>> BY DEF Reports, Answers
  <1>3. Usart6DataFlag = 0
    <2>1. CASE Place \in Awaiting BY <2>1 DEF Prompt
    <2>2. CASE Place = "idle" BY <2>2, ArmWhere, UnreadFacts
    <2> QED BY <1>1, <2>1, <2>2 DEF TypeOK, Places
  <1>4. Unread = "none" /\ Usart6Index = 0 BY <1>2, <1>3, UnreadFacts
  <1>5. Unread' = report BY <1>2 DEF Unread, Silent, Reports
  <1>6. BufferOK' BY <1>2, <1>3, <1>4 DEF BufferOK
  <1>7. FlagsOK' BY DEF FlagsOK
  <1>8. OrderOK' BY <1>1 DEF OrderOK
  <1>9. JobOK' BY <1>1 DEF JobOK
  <1>10. LimitOK' BY DEF LimitOK
  <1> QED BY <1>1, <1>4, <1>5, <1>6, <1>7, <1>8, <1>9, <1>10

(* The arm's own steps. *)
LEMMA ArmKeeps == Plain /\ TypeOK /\ ArmInv /\ Arm => ArmInv'
  <1> SUFFICES ASSUME Plain, TypeOK, ArmInv, Arm PROVE ArmInv'
      OBVIOUS
  <1> USE DEF ArmInv, Ordering
  <1>0. \A s : arm # "off" /\ arm = s => s # "off" OBVIOUS
  <1>1. CASE Accept BY <1>1, AcceptStep
  <1>2. CASE Refuse
    <2>1. Able(order[1]) BY <1>2, CanObey DEF Refuse
    <2> QED BY <1>2, <2>1 DEF Refuse, Plain
  <1>3. CASE ReachGoal
    <2>1. /\ Place \notin Ordering /\ arm = "moving" /\ arm' = "goal" /\ Unread = "none"
          /\ Unread' = "goal"
          /\ UNCHANGED <<Place, LinkTime, machinerec, order, job, meal, counted, failed>>
          /\ BufferOK' /\ FlagsOK' /\ OrderOK' /\ JobOK' /\ LimitOK'
      BY <1>3, StageFacts DEF ReachGoal, Reports
    <2>2. UNCHANGED <<handed, reported>> BY <1>3 DEF ReachGoal, fate
    <2>3. Place = "goal" BY <2>1, ArmWhere DEF TypeOK, Places, Awaiting
    <2>4. ArmOK' BY <2>1, <2>3, SendsFacts DEF ArmOK
    <2>5. HandedOK' /\ CountedWasReported'
      BY <2>1, <2>2, <2>3 DEF HandedOK, CountedWasReported
    <2> QED BY <2>1, <2>4, <2>5
  <1>4. CASE ReachDoor
    <2>1. /\ Place \notin Ordering /\ arm = "fetching" /\ arm' = "door" /\ Unread = "none"
          /\ Unread' = "todoor"
          /\ UNCHANGED <<Place, LinkTime, machinerec, order, job, meal, counted, failed>>
          /\ BufferOK' /\ FlagsOK' /\ OrderOK' /\ JobOK' /\ LimitOK'
      BY <1>4, StageFacts DEF ReachDoor, Reports
    <2>2. handed' = handed \cup {job} /\ UNCHANGED reported BY <1>4 DEF ReachDoor
    <2>3. Place = "door" BY <2>1, ArmWhere DEF TypeOK, Places, Awaiting
    <2>4. ArmOK' BY <2>1, <2>3, SendsFacts DEF ArmOK
    <2>5. job = meal BY <2>3 DEF JobOK, Fetching
    <2>6. HandedOK' /\ CountedWasReported'
      BY <2>1, <2>2, <2>3, <2>5 DEF HandedOK, CountedWasReported
    <2> QED BY <2>1, <2>4, <2>6
  <1>5. CASE MissMeal
    <2>1. /\ Place \notin Ordering /\ arm = "fetching" /\ arm' = "returning" /\ Unread = "none"
          /\ Unread' = "enablegetmeal"
          /\ UNCHANGED <<Place, LinkTime, machinerec, order, job, meal, counted, failed>>
          /\ BufferOK' /\ FlagsOK' /\ OrderOK' /\ JobOK' /\ LimitOK'
      BY <1>5, StageFacts DEF MissMeal, Reports
    <2>2. UNCHANGED <<handed, reported>> BY <1>5 DEF MissMeal, fate
    <2>3. Place = "door" BY <2>1, ArmWhere DEF TypeOK, Places, Awaiting
    <2>4. ArmOK' BY <2>1, <2>3, SendsFacts DEF ArmOK
    <2>5. HandedOK' /\ CountedWasReported'
      BY <2>1, <2>2, <2>3 DEF HandedOK, CountedWasReported
    <2> QED BY <2>1, <2>4, <2>5
  <1>6. CASE TakeMeal
    <2>0. PICK at \in {"door", "left"} : Stage(at, "mealaway", "returning")
      BY <1>6 DEF TakeMeal
    <2>1. /\ Place \notin Ordering /\ arm = at /\ arm' = "returning" /\ Unread = "none"
          /\ Unread' = "mealaway"
          /\ UNCHANGED <<Place, LinkTime, machinerec, order, job, meal, counted, failed>>
          /\ BufferOK' /\ FlagsOK' /\ OrderOK' /\ JobOK' /\ LimitOK'
      BY <2>0, StageFacts DEF Reports
    <2>2. reported' = reported \cup {job} /\ UNCHANGED handed BY <1>6 DEF TakeMeal
    <2>3. Place = "away" BY <2>0, <2>1, ArmWhere DEF TypeOK, Places, Awaiting
    <2>4. ArmOK' BY <2>1, <2>3, SendsFacts DEF ArmOK
    <2>5. job = meal BY <2>3 DEF JobOK, Fetching
    <2>6. HandedOK' /\ CountedWasReported'
      BY <2>1, <2>2, <2>3, <2>5 DEF HandedOK, CountedWasReported
    <2> QED BY <2>1, <2>4, <2>6
  <1>7. CASE ReachHome
    <2>1. /\ Place \notin Ordering /\ arm = "returning" /\ arm' = "home" /\ Unread = "none"
          /\ Unread' = "relative"
          /\ UNCHANGED <<Place, LinkTime, machinerec, order, job, meal, counted, failed>>
          /\ BufferOK' /\ FlagsOK' /\ OrderOK' /\ JobOK' /\ LimitOK'
      BY <1>7, StageFacts DEF ReachHome, Reports
    <2>2. UNCHANGED <<handed, reported>> BY <1>7 DEF ReachHome, fate
    <2>3. Place \in {"idle", "initwait"} BY <2>1, ArmWhere DEF TypeOK, Places, Awaiting
    <2>4. <<"home", "relative">> \in Sends[Place] BY <2>3, SendsFacts
    <2>5. ArmOK' BY <2>1, <2>4 DEF ArmOK
    <2>6. HandedOK' /\ CountedWasReported'
      BY <2>1, <2>2, <2>3 DEF HandedOK, CountedWasReported
    <2> QED BY <2>1, <2>5, <2>6
  <1>8. ~LeaveMeal /\ ~Chatter BY DEF LeaveMeal, Chatter, Plain
  <1>9. CASE Die
    <2>1. /\ arm' = "off"
          /\ UNCHANGED <<Place, LinkTime, machinerec, order, job, meal, counted, failed, coming,
                         Usart6Buff, Usart6DataFlag, Usart6Index, handed, reported>>
      BY <1>9 DEF Die, ArmOnly, uart, fate
    <2>2. Unread' = Unread BY <2>1 DEF Unread
    <2>3. BufferOK' /\ FlagsOK' /\ JobOK' /\ LimitOK'
      BY <2>1, <2>2 DEF BufferOK, FlagsOK, JobOK, LimitOK
    <2>4. OrderOK' BY <2>1, <2>2 DEF OrderOK
    <2>5. ArmOK' BY <2>1, <2>2 DEF ArmOK
    <2>6. HandedOK' /\ CountedWasReported' BY <2>1, <2>2 DEF HandedOK, CountedWasReported
    <2> QED BY <2>3, <2>4, <2>5, <2>6
  <1> QED BY <1>1, <1>2, <1>3, <1>4, <1>5, <1>6, <1>7, <1>8, <1>9 DEF Arm

(* A step that passes the message on without the program looking at it. *)
LEMMA SameTalk ==
  ASSUME ArmInv, BufferOK', Unread' = Unread,
         UNCHANGED <<Place, LinkTime, machinerec, order, arm, job, meal, handed, reported, counted>>
  PROVE  ArmInv'
  <1>1. FlagsOK' /\ OrderOK' /\ ArmOK' /\ JobOK' /\ LimitOK' /\ HandedOK' /\ CountedWasReported'
    BY DEF ArmInv, FlagsOK, OrderOK, ArmOK, JobOK, LimitOK, HandedOK, CountedWasReported
  <1> QED BY <1>1 DEF ArmInv

(* The interrupts: a report arrives whole, however its reading is cut in two, an        *)
(* answer is found in an empty buffer, and a limit passes only for an arm that is off.  *)
LEMMA InterruptKeeps ==
  Plain /\ TypeOK /\ ArmInv /\ (USART6_IRQHandler \/ TIM5_IRQHandler) => ArmInv'
  <1> SUFFICES ASSUME Plain, TypeOK, ArmInv, USART6_IRQHandler \/ TIM5_IRQHandler PROVE ArmInv'
      OBVIOUS
  <1>0. BufferOK BY DEF ArmInv
  <1>1. CASE ReceiveAnswer
    <2>1. coming = <<"ack", 1>> /\ Usart6Index = 0 /\ Usart6DataFlag = 0 /\ Usart6Buff = "none"
      BY <1>0, <1>1 DEF ReceiveAnswer, BufferOK, Answers, Reports, Silent
    <2>2. /\ coming' = Silent /\ machinerec' = (machinerec \ Answers) \cup {"ack"}
          /\ UNCHANGED <<Usart6Buff, Usart6Index, Usart6DataFlag>>
          /\ UNCHANGED <<Place, LinkTime, RetryFre, order, arm, job, meal, fate, counted, failed>>
      BY <1>1, <2>1 DEF ReceiveAnswer
    <2>3. Unread = "ack" /\ Unread' = "none" BY <2>1, <2>2 DEF Unread, Silent
    <2>4. Place \in Ordering
      BY <2>3, ArmWhere DEF ArmInv, TypeOK, Places, Awaiting
    <2>5. BufferOK' BY <2>1, <2>2 DEF BufferOK
    <2>6. FlagsOK' /\ ArmOK' BY <2>2, <2>4 DEF ArmInv, FlagsOK, ArmOK, Answers
    <2>7. order = Nothing /\ arm \in Obeys[Place] \cup {"off"}
      BY <2>3, <2>4 DEF ArmInv, OrderOK
    <2>8. OrderOK' BY <2>2, <2>3, <2>4, <2>7 DEF OrderOK
    <2>9. JobOK' BY <2>2 DEF ArmInv, JobOK
    <2>10. LimitOK' BY <2>2, <2>3, <2>4 DEF ArmInv, LimitOK, Ordering
    <2>11. HandedOK' BY <2>2, <2>4 DEF ArmInv, HandedOK, fate, Ordering
    <2>12. CountedWasReported' BY <2>2 DEF ArmInv, CountedWasReported, fate
    <2> QED BY <2>5, <2>6, <2>8, <2>9, <2>10, <2>11, <2>12 DEF ArmInv
  <1>2. ASSUME NEW n \in Splits, ReceivePart(n) PROVE ArmInv'
    <2>1. n \in 1..5 BY DeliveryAssumption
    <2>2. coming # Silent /\ coming[2] = 6 BY <1>2 DEF ReceivePart, Silent
    <2>3. coming[1] \in Reports /\ Usart6Index = 0 /\ Usart6DataFlag = 0
      BY <1>0, <2>2 DEF BufferOK
    <2>4. Usart6Index' = n /\ coming' = <<coming[1], 6 - n>> /\ Usart6DataFlag' = 0
      BY <1>2, <2>1, <2>3 DEF ReceivePart, Advance
    <2>5. BufferOK' BY <2>1, <2>3, <2>4 DEF BufferOK
    <2>6. Unread' = Unread BY <2>2, <2>3, <2>4 DEF Unread, Silent, Reports
    <2> QED BY <1>2, <2>5, <2>6, SameTalk DEF ReceivePart, fate
  <1>3. CASE ReceiveRest
    <2>1. /\ coming # Silent /\ coming[1] \in Reports /\ coming[2] = 6 - Usart6Index
          /\ Usart6Index \in 0..5 /\ Usart6DataFlag = 0
      BY <1>0, <1>3 DEF ReceiveRest, BufferOK, Answers
    <2>2. Advance(coming[2] - 1) = 5 /\ Advance(coming[2]) = 6 BY <2>1 DEF Advance
    <2>3. Usart6Index = 6 - coming[2] BY <2>1
    <2>4. /\ coming' = Silent /\ Usart6Buff' = coming[1] /\ Usart6Index' = 6
          /\ Usart6DataFlag' = 1
      BY <1>3, <2>2, <2>3 DEF ReceiveRest
    <2>5. BufferOK' BY <2>1, <2>4 DEF BufferOK
    <2>6. Unread' = Unread BY <2>1, <2>4 DEF Unread
    <2> QED BY <1>3, <2>5, <2>6, SameTalk DEF ReceiveRest, fate
  <1>4. CASE TIM5_IRQHandler
    <2>1. /\ LinkTime' = LinkTime + 1
          /\ LinkTime < Limit[Place] \/ Place = "idle" \/ ~OnItsWay
          /\ UNCHANGED <<Place, RetryFre, machinerec, uart, robot, meal, fate, counted, failed>>
      BY <1>4 DEF TIM5_IRQHandler, Plain
    <2>2. Unread' = Unread BY <2>1 DEF Unread, uart, robot
    <2>3. BufferOK' /\ FlagsOK' /\ OrderOK' /\ ArmOK' /\ JobOK' /\ HandedOK' /\ CountedWasReported'
      BY <2>1, <2>2 DEF ArmInv, BufferOK, FlagsOK, OrderOK, ArmOK, JobOK, HandedOK,
         CountedWasReported, uart, robot, fate
    <2>4. ASSUME LinkTime' > Limit[Place], Place \notin {"idle", "initwait"}
          PROVE  arm = "off" /\ Unread = "none" /\ "ack" \notin machinerec
      <3>1. Limit[Place] \in Nat /\ LinkTime \in Int BY <2>4, LimitFacts DEF TypeOK
      <3>2. ~OnItsWay BY <2>1, <2>4, <3>1
      <3>3. coming = Silent /\ (Place \in Awaiting => Usart6DataFlag = 0) BY <3>2 DEF OnItsWay, TypeOK
      <3>4. CASE Place \in Ordering
        <4>1. (order = Nothing \/ arm = "off") /\ "ack" \notin machinerec
          BY <3>2, <3>4 DEF OnItsWay, Answers
        <4>2. Unread # "ack" BY <3>3, <1>0, UnreadFacts DEF Silent
        <4>3. Unread = "none" /\ order[1] = CommandAt[Place]
          BY <3>4, <4>1, <4>2 DEF ArmInv, OrderOK
        <4>4. order # Nothing BY <3>4, <4>3, CommandFacts DEF Nothing, Ordering
        <4> QED BY <4>1, <4>3, <4>4
      <3>5. CASE Place \in {"goal", "door", "away"}
        <4>1. Unread = "none" BY <1>0, <3>3, <3>5, UnreadFacts DEF Awaiting
        <4>2. arm = "off" BY <3>2, <3>5, <4>1, ArmWhere DEF ArmInv, OnItsWay
        <4> QED BY <3>5, <4>1, <4>2 DEF ArmInv, FlagsOK, Ordering
      <3> QED BY <2>4, <3>4, <3>5 DEF TypeOK, Places, Awaiting
    <2>5. LimitOK' BY <2>1, <2>2, <2>4 DEF LimitOK, robot
    <2> QED BY <2>3, <2>5 DEF ArmInv
  <1> QED BY <1>1, <1>2, <1>3, <1>4 DEF USART6_IRQHandler

(* What reading the buffer leaves: nothing, if a report was there. *)
LEMMA ReadFacts ==
  ASSUME BufferOK, Read, UNCHANGED coming
  PROVE  /\ BufferOK'
         /\ \/ Unread' = "none" /\ Unread \in Reports /\ Raised = machinerec \cup {Unread}
            \/ Unread' = Unread /\ Raised = machinerec /\ Usart6DataFlag = 0
         /\ coming = Silent => Unread' = "none"
         /\ Usart6DataFlag = 1 => Unread \in Reports /\ Unread' = "none"
  <1>1. CASE Usart6DataFlag = 1
    <2>1. coming = Silent /\ Unread = Usart6Buff /\ Unread \in Reports BY <1>1, UnreadFacts
    <2>2. Usart6DataFlag' = 0 /\ Usart6Buff' = "none" /\ Usart6Index' = 0 BY <1>1 DEF Read
    <2>3. BufferOK' BY <2>1, <2>2 DEF BufferOK
    <2>4. Unread' = "none" BY <2>1, <2>2 DEF Unread
    <2>5. Raised = machinerec \cup {Unread} BY <1>1, <2>1 DEF Raised
    <2> QED BY <2>1, <2>3, <2>4, <2>5
  <1>2. CASE Usart6DataFlag # 1
    <2>1. Usart6DataFlag = 0 BY <1>2, UnreadFacts
    <2>2. UNCHANGED <<Usart6DataFlag, Usart6Buff, Usart6Index, coming>> BY <2>1 DEF Read
    <2>3. BufferOK' BY <2>2 DEF BufferOK
    <2>4. Unread' = Unread BY <2>2 DEF Unread
    <2>5. Raised = machinerec BY <2>1 DEF Raised
    <2>6. coming = Silent => Unread = "none" BY <2>1, UnreadFacts
    <2> QED BY <2>1, <2>3, <2>4, <2>5, <2>6
  <1> QED BY <1>1, <1>2

(* The program enters the loop of a command it sends, ... *)
LEMMA GivesCommand ==
  ASSUME NEW p \in Ordering, Give(p, meal'), BufferOK', Unread' = "none",
         machinerec' \subseteq {"relative"}, arm' \in Ready[p] \cup {"off"},
         p \in {"coord", "getmeal"} => meal' \notin handed',
         p = "getmeal" => job' = meal', CountedWasReported'
  PROVE  ArmInv'
  <1>1. /\ Place' = p /\ LinkTime' = 0
        /\ order' = <<CommandAt[p], IF p \in Fetching THEN meal' ELSE 0>>
    BY DEF Give, Send
  <1>2. order' # Nothing
    <2>1. order'[1] = CommandAt[p] BY <1>1
    <2> QED BY <2>1, CommandFacts DEF Nothing, Ordering
  <1>3. FlagsOK' /\ ArmOK' BY <1>1 DEF FlagsOK, ArmOK
  <1>4. OrderOK' BY <1>1 DEF OrderOK
  <1>5. JobOK' BY <1>1, <1>2 DEF JobOK, Fetching, Ordering
  <1>6. LimitOK'
    <2>1. Limit[p] \in Nat BY LimitFacts DEF Ordering, Places
    <2> QED BY <1>1, <2>1 DEF LimitOK
  <1>7. HandedOK' BY <1>1 DEF HandedOK, Ordering
  <1> QED BY <1>3, <1>4, <1>5, <1>6, <1>7 DEF ArmInv

(* ... the loop of a report it waits for, ... *)
LEMMA WaitsNow ==
  ASSUME NEW p \in {"goal", "door", "away"}, Place' = p, LinkTime' = 0,
         BufferOK', FlagsOK', Unread' = "none", order' = Nothing \/ arm' = "off",
         p = "goal" => arm' \in {"moving", "off"}, p = "door" => arm' \in {"fetching", "off"},
         p = "away" => arm' \in {"door", "off"},
         p = "away" <=> meal' \in handed', job' = meal', CountedWasReported'
  PROVE  ArmInv'
  <1>1. OrderOK' BY DEF OrderOK, Ordering
  <1>2. ArmOK'
    <2>1. \E s \in Sends[p] : "none" = s[2] /\ (arm' = s[1] \/ arm' = "off")
      <3>1. CASE p = "goal" /\ <<"moving", "none">> \in Sends[p] BY <3>1
      <3>2. CASE p = "door" /\ <<"fetching", "none">> \in Sends[p] BY <3>2
      <3>3. CASE p = "away" /\ <<"door", "none">> \in Sends[p] BY <3>3
      <3> QED BY <3>1, <3>2, <3>3, SendsFacts
    <2> QED BY <2>1 DEF ArmOK
  <1>3. JobOK' BY DEF JobOK
  <1>4. LimitOK'
    <2>1. Limit[p] \in Nat BY LimitFacts DEF Awaiting, Places
    <2> QED BY <2>1 DEF LimitOK
  <1>5. HandedOK' BY DEF HandedOK
  <1> QED BY <1>1, <1>2, <1>3, <1>4, <1>5 DEF ArmInv

(* ... or the main loop. *)
LEMMA ComesBack ==
  ASSUME Place' = "idle", BufferOK', FlagsOK', order' = Nothing \/ arm' = "off",
         \/ Unread' = "none" /\ arm' \in {"returning", "home", "off"}
         \/ Unread' = "relative" /\ arm' \in {"home", "off"},
         CountedWasReported'
  PROVE  ArmInv'
  <1>1. OrderOK' /\ JobOK' /\ LimitOK' /\ HandedOK'
    BY DEF OrderOK, JobOK, LimitOK, HandedOK, Ordering, Fetching
  <1>2. ArmOK'
    <2>1. \E s \in Sends["idle"] : Unread' = s[2] /\ (arm' = s[1] \/ arm' = "off")
      <3>1. /\ <<"returning", "none">> \in Sends["idle"] /\ <<"home", "none">> \in Sends["idle"]
            /\ <<"home", "relative">> \in Sends["idle"]
        BY SendsFacts
      <3> QED BY <3>1
    <2> QED BY <2>1 DEF ArmOK
  <1> QED BY <1>1, <1>2 DEF ArmInv

(* The loops of the commands. *)
LEMMA OrderKeeps == Plain /\ TypeOK /\ ArmInv /\ (Acked \/ Unanswered \/ Nacked) => ArmInv'
  <1> SUFFICES ASSUME Plain, TypeOK, ArmInv, Acked \/ Unanswered \/ Nacked PROVE ArmInv'
      OBVIOUS
  <1>0. /\ BufferOK /\ FlagsOK /\ OrderOK /\ JobOK /\ LimitOK /\ HandedOK /\ CountedWasReported
        /\ ~Nacked
    BY DEF ArmInv, Nacked, FlagsOK
  <1>1. CASE Acked
    <2>1. Place \in Ordering /\ UNCHANGED <<uart, coming, arm, job, meal, fate, counted, failed>>
      BY <1>1 DEF Acked
    <2>2. order = Nothing /\ Unread = "none" /\ arm \in Obeys[Place] \cup {"off"}
      BY <1>0, <1>1 DEF OrderOK, Acked
    <2>3. BufferOK' /\ Unread' = "none" /\ CountedWasReported'
      BY <1>0, <2>1, <2>2 DEF BufferOK, Unread, CountedWasReported, uart, fate
    <2>4. machinerec' \subseteq {"relative"} BY <1>0, <1>1 DEF Acked, AckSeen, FlagsOK, Answers
    <2>5. FlagsOK' BY <2>4 DEF FlagsOK
    <2>6. CASE Place = "initlink"
      BY <1>1, <2>1, <2>2, <2>3, <2>4, <2>6, ObeysFacts, ReadyFacts, GivesCommand
      DEF Acked, Ordering
    <2>7. CASE Place = "initcmd"
      <3>1. Place' = "initwait" /\ order' = Nothing /\ arm' \in {"returning", "off"}
        BY <1>1, <2>1, <2>2, <2>7, ObeysFacts DEF Acked, Back
      <3>2. OrderOK' /\ JobOK' /\ LimitOK' /\ HandedOK'
        BY <3>1 DEF OrderOK, JobOK, LimitOK, HandedOK, Ordering, Fetching
      <3>3. ArmOK' BY <2>3, <3>1, SendsFacts DEF ArmOK
      <3> QED BY <2>3, <2>5, <3>2, <3>3 DEF ArmInv
    <2>8. CASE Place = "link"
      BY <1>1, <2>1, <2>2, <2>3, <2>5, <2>8, ObeysFacts, ComesBack DEF Acked, Back
    <2>9. CASE Place = "coord"
      BY <1>0, <1>1, <2>1, <2>2, <2>3, <2>5, <2>9, ObeysFacts, WaitsNow
      DEF Acked, Back, HandedOK, JobOK, Fetching, fate
    <2>10. CASE Place = "getmeal"
      BY <1>0, <1>1, <2>1, <2>2, <2>3, <2>5, <2>10, ObeysFacts, WaitsNow
      DEF Acked, Back, HandedOK, JobOK, Fetching, fate
    <2> QED BY <2>1, <2>6, <2>7, <2>8, <2>9, <2>10 DEF Ordering
  <1>2. CASE Unanswered
    <2>1. /\ Place \in Ordering /\ "ack" \notin machinerec /\ LinkTime > Limit[Place]
          /\ UNCHANGED <<machinerec, uart, coming, arm, job, meal, fate, counted>>
      BY <1>2 DEF Unanswered, Over
    <2>2. arm = "off" /\ Unread = "none" BY <1>0, <2>1 DEF LimitOK, Ordering
    <2>3. BufferOK' /\ Unread' = "none" /\ CountedWasReported'
      BY <1>0, <2>1, <2>2 DEF BufferOK, Unread, CountedWasReported, uart, fate
    <2>4. machinerec' \subseteq {"relative"} /\ FlagsOK' BY <1>0, <2>1 DEF FlagsOK
    <2>5. CASE Place' = "idle"
      BY <2>1, <2>2, <2>3, <2>4, <2>5, ComesBack
    <2>6. CASE Give("initlink", meal)
      BY <2>1, <2>2, <2>3, <2>4, <2>6, GivesCommand DEF Ordering
    <2> QED BY <1>2, <2>5, <2>6 DEF Unanswered, Back
  <1> QED BY <1>0, <1>1, <1>2

(* The main loop, and the loops that wait for a report. *)
LEMMA LoopKeeps ==
  ASSUME Plain, TypeOK, ArmInv,
         \/ Idle \/ AskLink \/ WaitMeal
         \/ InitDone \/ AtGoal \/ AtDoor \/ NoMeal \/ Away \/ KeepWaiting \/ TimeOut
  PROVE  ArmInv'
  <1>0. /\ BufferOK /\ FlagsOK /\ OrderOK /\ ArmOK /\ JobOK /\ LimitOK /\ HandedOK
        /\ CountedWasReported
    BY DEF ArmInv
  <1>1. Place \notin Ordering => machinerec \subseteq {"relative"} BY <1>0 DEF FlagsOK
  <1>2. UNCHANGED <<fate, counted>> => CountedWasReported' BY <1>0 DEF CountedWasReported, fate
  <1>3. Place \notin Ordering => order = Nothing \/ arm = "off" BY <1>0 DEF OrderOK
  <1> USE DEF Ordering
  <1>4. CASE Idle
    <2>1. /\ Place = "idle" /\ Usart6DataFlag = 1 /\ machinerec' = Raised /\ Read
          /\ UNCHANGED <<Place, order, coming, arm, fate, counted>>
      BY <1>4 DEF Idle, robot
    <2>2. BufferOK' /\ Unread' = "none" /\ Unread \in Reports /\ Raised \subseteq machinerec \cup {Unread}
      BY <1>0, <2>1, ReadFacts
    <2>3. Unread = "relative" /\ arm \in {"home", "off"}
      BY <1>0, <2>1, <2>2, ArmWhere DEF Reports
    <2>4. FlagsOK' BY <1>1, <2>1, <2>2, <2>3 DEF FlagsOK
    <2> QED BY <1>2, <1>3, <2>1, <2>2, <2>3, <2>4, ComesBack
  <1>5. CASE AskLink
    <2>1. /\ Place = "idle" /\ coming = Silent /\ machinerec' = Raised /\ Read
          /\ Give("link", meal) /\ UNCHANGED <<coming, arm, job, meal, fate, counted, failed>>
      BY <1>5 DEF AskLink, Uncrossed, Plain
    <2>2. BufferOK' /\ Unread' = "none" /\ Raised \subseteq machinerec \cup ({Unread} \cap Reports)
      BY <1>0, <2>1, ReadFacts
    <2>3. arm' \in {"home", "returning", "off"} /\ Unread \in {"none", "relative"}
      BY <1>0, <2>1, ArmWhere
    <2>4. machinerec' \subseteq {"relative"} BY <1>1, <2>1, <2>2, <2>3 DEF Reports
    <2> QED BY <1>2, <2>1, <2>2, <2>3, <2>4, ReadyFacts, GivesCommand
  <1>6. CASE WaitMeal
    <2>1. /\ Place = "idle" /\ coming = Silent /\ machinerec' = Raised /\ Read
          /\ meal' = meal + 1
          /\ Give("coord", meal') /\ UNCHANGED <<coming, arm, job, fate, counted, failed>>
      BY <1>6 DEF WaitMeal, Uncrossed, Plain
    <2>2. BufferOK' /\ Unread' = "none" /\ Raised \subseteq machinerec \cup ({Unread} \cap Reports)
      BY <1>0, <2>1, ReadFacts
    <2>3. arm' \in {"home", "returning", "off"} /\ Unread \in {"none", "relative"}
      BY <1>0, <2>1, ArmWhere
    <2>4. machinerec' \subseteq {"relative"} BY <1>1, <2>1, <2>2, <2>3 DEF Reports
    <2>5. meal' \notin handed'
      <3>1. meal \in Nat /\ handed \subseteq 0..meal BY DeliveryAssumption DEF TypeOK
      <3> QED BY <2>1, <3>1 DEF fate
    <2> QED BY <1>2, <2>1, <2>2, <2>3, <2>4, <2>5, ReadyFacts, GivesCommand
  <1>7. CASE InitDone
    <2>1. /\ Place = "initwait" /\ machinerec' = Raised /\ Read /\ Place' = "idle"
          /\ UNCHANGED <<coming, arm, order, fate, counted>>
      BY <1>7 DEF InitDone, Leave, Others
    <2>2. /\ BufferOK' /\ Unread' \in {"none", Unread}
          /\ Raised \subseteq machinerec \cup ({Unread} \cap Reports)
      BY <1>0, <2>1, ReadFacts
    <2>3. \/ Unread = "none" /\ arm \in {"returning", "off"}
          \/ Unread = "relative" /\ arm \in {"home", "off"}
      BY <1>0, <2>1, ArmWhere
    <2>4. FlagsOK' BY <1>1, <2>1, <2>2, <2>3 DEF FlagsOK, Reports
    <2> QED BY <1>2, <1>3, <2>1, <2>2, <2>3, <2>4, ComesBack
  <1>8. CASE AtGoal
    <2>1. /\ Place = "goal" /\ "goal" \in Raised /\ machinerec' = Raised \ {"goal"} /\ Read
          /\ Give("getmeal", meal) /\ UNCHANGED <<coming, arm, job, meal, fate, counted>>
      BY <1>8 DEF AtGoal, Poll, Down, Others
    <2>2. /\ BufferOK' /\ Unread' = "none" /\ Unread = "goal"
          /\ Raised \subseteq machinerec \cup {Unread}
      BY <1>0, <1>1, <2>1, ReadFacts
    <2>3. arm' \in {"goal", "off"} BY <1>0, <2>1, <2>2, ArmWhere
    <2>4. machinerec' \subseteq {"relative"} BY <1>1, <2>1, <2>2
    <2>5. job' = meal' /\ meal' \notin handed' BY <1>0, <2>1 DEF JobOK, HandedOK, Fetching, fate
    <2> QED BY <1>2, <2>1, <2>2, <2>3, <2>4, <2>5, ReadyFacts, GivesCommand
  <1>9. CASE AtDoor
    <2>1. /\ Place = "door" /\ "todoor" \in Raised /\ machinerec' = Raised \ {"todoor"} /\ Read
          /\ Place' = "away" /\ LinkTime' = 0
          /\ UNCHANGED <<coming, arm, job, meal, order, fate, counted>>
      BY <1>9 DEF AtDoor, Poll, Down, Others, Back
    <2>2. /\ BufferOK' /\ Unread' = "none" /\ Unread = "todoor"
          /\ Raised \subseteq machinerec \cup {Unread}
      BY <1>0, <1>1, <2>1, ReadFacts
    <2>3. arm' \in {"door", "off"} BY <1>0, <2>1, <2>2, ArmWhere
    <2>4. FlagsOK' BY <1>1, <2>1, <2>2 DEF FlagsOK
    <2>5. job' = meal' /\ meal' \in handed' BY <1>0, <2>1, <2>2 DEF JobOK, HandedOK, Fetching, fate
    <2> QED BY <1>2, <1>3, <2>1, <2>2, <2>3, <2>4, <2>5, WaitsNow
  <1>10. CASE NoMeal
    <2>1. /\ Place = "door" /\ "enablegetmeal" \in Raised
          /\ machinerec' = Raised \ {"enablegetmeal"} /\ Read /\ Place' = "idle"
          /\ UNCHANGED <<coming, arm, order, fate, counted>>
      BY <1>10 DEF NoMeal, Poll, Down, Others, GiveUp, Leave
    <2>2. /\ BufferOK' /\ Unread' = "none" /\ Unread = "enablegetmeal"
          /\ Raised \subseteq machinerec \cup {Unread}
      BY <1>0, <1>1, <2>1, ReadFacts
    <2>3. arm' \in {"returning", "off"} BY <1>0, <2>1, <2>2, ArmWhere
    <2>4. FlagsOK' BY <1>1, <2>1, <2>2 DEF FlagsOK
    <2> QED BY <1>2, <1>3, <2>1, <2>2, <2>3, <2>4, ComesBack
  <1>11. CASE Away
    <2>1. /\ Place = "away" /\ {"mealaway", "mealnoaway"} \cap Raised # {}
          /\ machinerec' = Raised \ {"mealaway", "mealnoaway"} /\ Read /\ Place' = "idle"
          /\ counted' = counted \cup {meal} /\ UNCHANGED <<coming, arm, order, fate>>
      BY <1>11 DEF Away, Down, Others, Back
    <2>2. /\ BufferOK' /\ Unread' = "none" /\ Unread \in {"mealaway", "mealnoaway"}
          /\ Raised \subseteq machinerec \cup {Unread}
      BY <1>0, <1>1, <2>1, ReadFacts
    <2>3. Unread = "mealaway" /\ arm' \in {"returning", "off"} BY <1>0, <2>1, <2>2, ArmWhere
    <2>4. FlagsOK' BY <1>1, <2>1, <2>2 DEF FlagsOK
    <2>5. CountedWasReported' BY <1>0, <2>1, <2>3 DEF CountedWasReported, HandedOK, fate
    <2> QED BY <1>3, <2>1, <2>2, <2>3, <2>4, <2>5, ComesBack
  <1>12. ~KeepWaiting
    <2> SUFFICES ASSUME KeepWaiting PROVE FALSE
        OBVIOUS
    <2>1. Place \in Awaiting /\ Usart6DataFlag = 1 /\ Raised \cap Awaited[Place] = {}
      BY DEF KeepWaiting
    <2>2. Unread = Usart6Buff /\ Unread \in Reports BY <1>0, <2>1, UnreadFacts
    <2>3. Unread \in Raised BY <2>1, <2>2 DEF Raised
    <2>4. Unread \in Awaited[Place]
      BY <1>0, <2>1, <2>2, ArmWhere DEF Awaiting, Awaited, Reports
    <2> QED BY <2>1, <2>3, <2>4
  <1>13. CASE TimeOut
    <2>1. /\ Place \in Awaiting /\ LinkTime > Limit[Place] /\ Place' = "idle"
          /\ UNCHANGED <<machinerec, uart, coming, arm, order, fate, counted>>
      BY <1>13 DEF TimeOut, Over, Leave, Back, GiveUp
    <2>2. BufferOK' /\ Unread' = Unread /\ FlagsOK'
      BY <1>0, <1>1, <2>1 DEF BufferOK, Unread, uart, FlagsOK, Awaiting
    <2>3. \/ Unread' = "none" /\ arm' \in {"returning", "home", "off"}
          \/ Unread' = "relative" /\ arm' \in {"home", "off"}
      <3>1. CASE Place = "initwait" BY <1>0, <2>1, <2>2, <3>1, ArmWhere
      <3>2. CASE Place # "initwait" BY <1>0, <2>1, <2>2, <3>2 DEF LimitOK, Awaiting
      <3> QED BY <3>1, <3>2
    <2> QED BY <1>2, <1>3, <2>1, <2>2, <2>3, ComesBack DEF Awaiting
  <1> QED BY <1>4, <1>5, <1>6, <1>7, <1>8, <1>9, <1>10, <1>11, <1>12, <1>13

-----------------------------------------------------------------------------
(* The safety of a delivery. *)

(* Every step of every kind keeps ArmInv. *)
LEMMA ArmInvNext == Plain /\ TypeOK /\ ArmInv /\ [Next]_vars => ArmInv'
  <1> SUFFICES ASSUME Plain, TypeOK, ArmInv, [Next]_vars PROVE ArmInv'
      OBVIOUS
  <1>1. CASE Program BY <1>1, OrderKeeps, LoopKeeps DEF Program
  <1>2. CASE UNCHANGED vars
    <2>1. Unread' = Unread /\ BufferOK'
      BY <1>2 DEF ArmInv, vars, uart, robot, Unread, BufferOK
    <2> QED BY <1>2, <2>1, SameTalk DEF vars, robot, fate
  <1> QED BY <1>1, <1>2, ArmKeeps, InterruptKeeps DEF Next

LEMMA ArmInvInit == Init => ArmInv
  <1> SUFFICES ASSUME Init PROVE ArmInv
      OBVIOUS
  <1> USE DEF Init
  <1>1. Unread = "none" BY DEF Unread
  <1>2. BufferOK /\ FlagsOK BY DEF BufferOK, FlagsOK
  <1>3. OrderOK BY <1>1, CommandFacts, ReadyFacts DEF OrderOK, Ordering, Fetching
  <1>4. Limit["initlink"] \in Nat BY LimitFacts DEF Places, Ordering
  <1>5. ArmOK /\ JobOK /\ LimitOK /\ HandedOK /\ CountedWasReported
    BY <1>4 DEF ArmOK, JobOK, LimitOK, HandedOK, CountedWasReported, Ordering, Fetching
  <1> QED BY <1>2, <1>3, <1>5 DEF ArmInv

(* All that is known of a delivery: with ArmInv the account of the meals. *)
DInv == IInv /\ ArmInv

LEMMA DInvInit == Init => DInv
  <1>1. 1..0 = {} OBVIOUS
  <1> QED BY <1>1, TypedInit, ArmInvInit DEF Init, DInv, IInv, Busy, MealsAccounted, Fetching

LEMMA DInvNext == Plain /\ DInv /\ [Next]_vars => DInv'
  BY IInvNext, ArmInvNext DEF DInv, IInv

(* ArmInv, and with it all that follows: at every moment the program's loop, the      *)
(* arm, the line and the receive buffer of uart6.c agree on what was said.            *)
THEOREM TalkAgrees == Plain => (Spec => []ArmInv)
  <1> SUFFICES ASSUME Plain PROVE Spec => []ArmInv
      OBVIOUS
  <1>1. Init => DInv BY DInvInit
  <1>2. DInv /\ [Next]_vars => DInv' BY DInvNext
  <1>3. DInv => ArmInv BY DEF DInv
  <1> QED BY <1>1, <1>2, <1>3, PTL DEF Spec

(* A meal asked for is neither counted nor given up while it is under way. *)
LEMMA UnderWay ==
  ASSUME DInv, Place \in Fetching
  PROVE  meal \notin counted /\ meal \notin failed
  <1>1. meal \in Nat BY DeliveryAssumption DEF DInv, IInv, TypeOK
  <1>2. counted \cup failed = 1..(meal - 1) BY DEF DInv, IInv, MealsAccounted
  <1>3. meal \notin 1..(meal - 1) BY <1>1
  <1> QED BY <1>2, <1>3

(* ErrandIsThisMeal: once the place of a meal is acknowledged the arm's errand is      *)
(* that meal, so an answer is never taken for another command's, although the answer   *)
(* names no command and its flag is one bit that the interrupt of uart6.c sets.        *)
THEOREM RightErrand == Plain => (Spec => []ErrandIsThisMeal)
  <1> SUFFICES ASSUME Plain PROVE Spec => []ErrandIsThisMeal
      OBVIOUS
  <1>1. ArmInv => ErrandIsThisMeal BY DEF ArmInv, JobOK, ErrandIsThisMeal
  <1> QED BY <1>1, TalkAgrees, PTL

(* CountedWasReported: WaitMeal counts a meal only for the arm's report on that meal,  *)
(* never for a flag an earlier meal left up.                                           *)
THEOREM CountedOnReport == Plain => (Spec => []CountedWasReported)
  <1> SUFFICES ASSUME Plain PROVE Spec => []CountedWasReported
      OBVIOUS
  <1>1. ArmInv => CountedWasReported BY DEF ArmInv
  <1> QED BY <1>1, TalkAgrees, PTL

(* A meal that has not come out and is not about to. *)
Fresh(m) == m \notin handed /\ (arm = "fetching" => job # m)

(* Nobody sends the arm to a meal that came out: not the loop that may repeat its  *)
(* command, not the command it left unread, not the errand the arm is on.          *)
OnceInv == /\ Place = "coord" => order \in {Nothing, <<"coord", meal>>} /\ Fresh(meal)
           /\ order[1] = "coord" => Fresh(order[2])
           /\ arm \in {"moving", "goal", "fetching"} => job \notin handed

(* Steps that leave the arm and the command unread alone, and begin no delivery. *)
LEMMA SameErrand ==
  ASSUME OnceInv, UNCHANGED <<arm, job, handed, meal>>,
         order' = order \/ order'[1] # "coord",
         Place' = "coord" => Place = "coord" /\ order' = order
  PROVE  OnceInv'
  BY DEF OnceInv, Fresh

LEMMA OnceArm == ASSUME TypeOK, OnceInv, Arm PROVE OnceInv'
  <1> USE DEF OnceInv, Fresh, Nothing
  <1>0. ArmOnly
    BY DEF Arm, Accept, Refuse, Stage, ReachGoal, ReachDoor, MissMeal, LeaveMeal, TakeMeal,
           ReachHome, Chatter, Die
  <1>1. CASE Accept
    <2>1. order[1] \in Commands /\ order' = <<"none", 0>> /\ UNCHANGED <<Place, meal, handed>>
      BY <1>0, <1>1 DEF Accept, ArmOnly, TypeOK, fate
    <2>2. CASE order[1] = "coord"
      BY <1>1, <2>1, <2>2 DEF Accept
    <2>3. CASE order[1] = "getmeal"
      <3>1. arm = "goal" /\ Place # "coord" /\ job' = job BY <1>1, <2>3 DEF Accept, Able
      <3> QED BY <2>1, <3>1
    <2>4. CASE order[1] \in {"link", "init"}
      <3>1. job' = job /\ (arm' = arm \/ arm' = "returning") BY <1>1, <2>4 DEF Accept
      <3> QED BY <2>1, <3>1
    <2> QED BY <2>1, <2>2, <2>3, <2>4 DEF Commands
  <1>2. CASE Refuse BY <1>0, <1>2 DEF Refuse, ArmOnly, fate
  <1>3. CASE ReachDoor BY <1>0, <1>3 DEF ReachDoor, Stage, ArmOnly
  <1>4. CASE ReachGoal \/ MissMeal \/ LeaveMeal \/ TakeMeal \/ ReachHome
    BY <1>0, <1>4 DEF ReachGoal, MissMeal, LeaveMeal, TakeMeal, ReachHome, Stage, ArmOnly, fate
  <1>5. CASE Chatter \/ Die BY <1>0, <1>5 DEF Chatter, Die, ArmOnly, fate
  <1> QED BY <1>1, <1>2, <1>3, <1>4, <1>5 DEF Arm

LEMMA OnceProgram == ASSUME TypeOK, OnceInv, Program PROVE OnceInv'
  <1> USE DEF Others, fate, robot
  <1>1. CASE Acked
    <2>1. UNCHANGED <<arm, job, handed, meal>> BY <1>1 DEF Acked
    <2>2. Place' # "coord" /\ (order' = order \/ order'[1] = "init")
      BY <1>1 DEF Acked, Give, Back, Send, CommandAt, Ordering
    <2> QED BY <2>1, <2>2, SameErrand
  <1>2. CASE Unanswered
    <2>1. UNCHANGED <<arm, job, handed, meal>> BY <1>2 DEF Unanswered
    <2>2. Place' # "coord" /\ (order' = order \/ order'[1] = "link")
      BY <1>2 DEF Unanswered, Give, Back, Send, CommandAt, Ordering
    <2> QED BY <2>1, <2>2, SameErrand
  <1>3. CASE Nacked
    <2>1. UNCHANGED <<arm, job, handed, meal>> BY <1>3 DEF Nacked
    <2>2. CASE Place = "coord"
      <3>1. order' = <<"coord", meal>>
        BY <1>3, <2>2 DEF Nacked, Send, CommandAt, Ordering, Fetching, Starting
      <3> QED BY <2>1, <2>2, <3>1 DEF OnceInv, Fresh
    <2>3. CASE Place # "coord"
      <3>1. Place' # "coord" /\ order'[1] # "coord"
        BY <1>3, <2>3 DEF Nacked, Give, Send, CommandAt, Ordering, Starting
      <3> QED BY <2>1, <3>1, SameErrand
    <2> QED BY <2>2, <2>3
  <1>4. CASE Idle \/ KeepWaiting
    BY <1>4, SameErrand DEF Idle, KeepWaiting
  <1>5. CASE AskLink
    <2>1. UNCHANGED <<arm, job, handed, meal>> /\ Place' # "coord" /\ order'[1] # "coord"
      BY <1>5 DEF AskLink, Give, Send, CommandAt, Ordering
    <2> QED BY <2>1, SameErrand
  <1>6. CASE WaitMeal
    <2>1. /\ meal' = meal + 1 /\ order' = <<"coord", meal'>>
          /\ UNCHANGED <<arm, job, handed>>
      BY <1>6 DEF WaitMeal, Give, Send, CommandAt, Ordering, Fetching
    <2>2. meal \in Nat /\ job \in 0..meal /\ handed \subseteq 0..meal
      BY DeliveryAssumption DEF TypeOK
    <2>3. meal + 1 \notin handed /\ job # meal + 1 BY <2>2
    <2> QED BY <2>1, <2>3 DEF OnceInv, Fresh
  <1>7. CASE InitDone \/ AtDoor \/ NoMeal \/ Away \/ TimeOut
    <2>1. UNCHANGED <<arm, job, handed, meal, order>> /\ Place' # "coord"
      BY <1>7 DEF InitDone, AtDoor, NoMeal, Away, TimeOut, GiveUp, Leave, Back
    <2> QED BY <2>1, SameErrand
  <1>8. CASE AtGoal
    <2>1. UNCHANGED <<arm, job, handed, meal>> /\ Place' # "coord" /\ order'[1] # "coord"
      BY <1>8 DEF AtGoal, Give, Send, CommandAt, Ordering
    <2> QED BY <2>1, SameErrand
  <1> QED BY <1>1, <1>2, <1>3, <1>4, <1>5, <1>6, <1>7, <1>8 DEF Program

(* OneMealEach, whatever the arm does: however late, refused, crossed or unread, the  *)
(* commands of one call of WaitMeal bring at most one meal (bsp.c, protocol.c).       *)
THEOREM OneMealOnly == Spec => []OneMealEach
  <1>1. Init => TypeOK /\ OnceInv
    BY TypedInit DEF Init, OnceInv, Nothing
  <1>2. TypeOK /\ OnceInv /\ [Next]_vars => TypeOK' /\ OnceInv'
    <2> SUFFICES ASSUME TypeOK, OnceInv, [Next]_vars PROVE OnceInv'
        BY TypedNext
    <2>1. CASE Arm BY <2>1, OnceArm
    <2>2. CASE Program BY <2>2, OnceProgram
    <2>3. CASE USART6_IRQHandler \/ TIM5_IRQHandler \/ UNCHANGED vars
      <3>1. UNCHANGED <<Place, arm, job, handed, meal, order>>
        BY <2>3 DEF USART6_IRQHandler, ReceiveAnswer, ReceivePart, ReceiveRest, TIM5_IRQHandler,
           vars, robot, fate
      <3> QED BY <3>1, SameErrand
    <2> QED BY <2>1, <2>2, <2>3 DEF Next
  <1>3. OnceInv => OneMealEach
    BY DEF OnceInv, OneMealEach
  <1> QED BY <1>1, <1>2, <1>3, PTL DEF Spec

(* For an arm that never falls silent the meals themselves are told: it stays alive, *)
(* and no meal that came out is paid back.                                           *)
AInv == DInv /\ arm # "off" /\ RefundedNotHanded

LEMMA AliveNext == Alive /\ DInv /\ arm # "off" /\ [Next]_vars => arm' # "off"
  <1> SUFFICES ASSUME Alive, DInv, arm # "off", [Next]_vars PROVE arm' # "off"
      OBVIOUS
  <1>1. CASE Accept
    <2>1. order[1] \in Commands BY <1>1 DEF Accept, DInv, IInv, TypeOK
    <2> QED BY <1>1, <2>1 DEF Accept, Commands
  <1>2. ~Die BY DEF Die, Alive
  <1>3. CASE Arm /\ ~Accept
    BY <1>2, <1>3 DEF Arm, Refuse, Stage, ReachGoal, ReachDoor, MissMeal, LeaveMeal, TakeMeal,
       ReachHome, Chatter
  <1>4. CASE USART6_IRQHandler \/ TIM5_IRQHandler
    BY <1>4 DEF USART6_IRQHandler, ReceiveAnswer, ReceivePart, ReceiveRest, TIM5_IRQHandler, robot
  <1>5. CASE Program
    BY <1>5 DEF Program, Acked, Unanswered, Nacked, Idle, AskLink, WaitMeal, InitDone, AtGoal,
       AtDoor, NoMeal, Away, KeepWaiting, TimeOut, Others, robot
  <1>6. CASE UNCHANGED vars BY <1>6 DEF vars, robot
  <1> QED BY <1>1, <1>3, <1>4, <1>5, <1>6 DEF Next

(* Then no limit passes, but those of the main loop and of the start. *)
LEMMA NoLimit ==
  ASSUME ArmInv, arm # "off"
  PROVE  ~Unanswered /\ (TimeOut => Place = "initwait")
  BY DEF ArmInv, LimitOK, Unanswered, TimeOut, Over, Ordering, Awaiting

(* What each step does to the meals, as DeliveryContract has it. *)
LEMMA MeetsStep ==
  ASSUME Alive, DInv, arm # "off", [Next]_vars
  PROVE  [Contract!Next]_<<Place \in Fetching, meal, handed, counted, failed>>
  <1>0. Plain /\ TypeOK /\ ArmInv BY DEF Alive, Plain, DInv, IInv
  <1>1. CASE ReachDoor
    <2>1. /\ Place \notin Ordering /\ arm = "fetching" /\ Unread = "none"
          /\ UNCHANGED <<Place, meal, counted, failed>>
      BY <1>0, <1>1, StageFacts DEF ReachDoor, Reports
    <2>2. Place = "door" BY <1>0, <2>1, ArmWhere DEF ArmInv, TypeOK, Places, Awaiting
    <2>3. job = meal /\ meal \notin handed
      BY <1>0, <2>1, <2>2 DEF ArmInv, JobOK, HandedOK, Fetching
    <2>4. handed' = handed \cup {meal} BY <1>1, <2>3 DEF ReachDoor
    <2> QED BY <2>1, <2>2, <2>3, <2>4 DEF Contract!Next, Contract!HandOver, Fetching
  <1>2. CASE WaitMeal
    BY <1>2 DEF WaitMeal, Give, fate, Contract!Next, Contract!Ask, Fetching
  <1>3. CASE Away
    <2>1. meal \in handed BY <1>0, <1>3 DEF ArmInv, HandedOK, Away
    <2> QED BY <1>3, <2>1 DEF Away, Back, Others, fate, Contract!Next, Contract!Count, Fetching
  <1>4. CASE NoMeal
    <2>1. Place = "door" /\ "todoor" \notin Raised /\ "enablegetmeal" \in Raised
      BY <1>4 DEF NoMeal, Poll
    <2>2. Unread # "todoor"
      <3>1. BufferOK /\ "enablegetmeal" \notin machinerec BY <1>0 DEF ArmInv, FlagsOK
      <3>2. Usart6DataFlag = 1 /\ Usart6Buff = "enablegetmeal" BY <2>1, <3>1 DEF Raised
      <3> QED BY <3>1, <3>2, UnreadFacts
    <2>3. meal \notin handed BY <1>0, <2>1, <2>2 DEF ArmInv, HandedOK
    <2> QED BY <1>4, <2>1, <2>3
        DEF NoMeal, GiveUp, Leave, Others, fate, Contract!Next, Contract!GiveUp, Fetching
  <1>5. CASE ~(ReachDoor \/ WaitMeal \/ Away \/ NoMeal)
    <2>1. UNCHANGED <<Place \in Fetching, meal, handed, counted, failed>>
      <3>1. CASE Arm
        BY <1>5, <3>1 DEF Arm, ArmOnly, Accept, Refuse, Stage, ReachGoal, MissMeal, LeaveMeal,
           TakeMeal, ReachHome, Chatter, Die, fate
      <3>2. CASE USART6_IRQHandler \/ TIM5_IRQHandler \/ UNCHANGED vars
        BY <3>2 DEF USART6_IRQHandler, ReceiveAnswer, ReceivePart, ReceiveRest, TIM5_IRQHandler,
           vars, fate
      <3>3. CASE Program
        <4> USE DEF Fetching, Give, Back, Leave, fate
        <4>1. CASE Acked BY <4>1 DEF Acked
        <4>2. ~Unanswered /\ ~Nacked BY <1>0, NoLimit DEF Nacked, ArmInv, FlagsOK
        <4>3. CASE Idle \/ KeepWaiting BY <4>3 DEF Idle, KeepWaiting
        <4>4. CASE AskLink BY <4>4 DEF AskLink
        <4>5. CASE InitDone \/ AtGoal \/ AtDoor BY <4>5 DEF InitDone, AtGoal, AtDoor, Poll, Others
        <4>6. CASE TimeOut BY <1>0, <4>6, NoLimit DEF TimeOut
        <4> QED BY <1>5, <3>3, <4>1, <4>2, <4>3, <4>4, <4>5, <4>6 DEF Program
      <3> QED BY <3>1, <3>2, <3>3 DEF Next
    <2> QED BY <2>1
  <1> QED BY <1>1, <1>2, <1>3, <1>4, <1>5

(* RefundedNotHanded follows from that step by step: DeliveryContract gives up only a *)
(* meal that has not come out, and hands over only the meal under way.                 *)
LEMMA AInvNext == Alive /\ AInv /\ [Next]_vars => AInv'
  <1> SUFFICES ASSUME Alive, AInv, [Next]_vars PROVE AInv'
      OBVIOUS
  <1>1. DInv /\ arm # "off" /\ failed \cap handed = {} BY DEF AInv, RefundedNotHanded
  <1>2. DInv' /\ arm' # "off" BY <1>1, DInvNext, AliveNext DEF Alive, Plain
  <1>3. [Contract!Next]_<<Place \in Fetching, meal, handed, counted, failed>> BY <1>1, MeetsStep
  <1>4. Place \in Fetching => meal \notin failed BY <1>1, UnderWay
  <1>5. failed' \cap handed' = {}
    BY <1>1, <1>3, <1>4
    DEF Contract!Next, Contract!Ask, Contract!HandOver, Contract!Count, Contract!GiveUp
  <1> QED BY <1>2, <1>5 DEF AInv, RefundedNotHanded

LEMMA AInvInit == Init => AInv
  BY DInvInit DEF AInv, RefundedNotHanded, Init

(* RefundedNotHanded: a meal WaitMeal returns takemeal_erro for, whose price test_lcd.c *)
(* pays back, has not come out and never does, if the arm keeps its protocol.           *)
THEOREM RefundIsRight == Alive => (Spec => []RefundedNotHanded)
  <1> SUFFICES ASSUME Alive PROVE Spec => []RefundedNotHanded
      OBVIOUS
  <1>1. Init => AInv BY AInvInit
  <1>2. AInv /\ [Next]_vars => AInv' BY AInvNext
  <1>3. AInv => RefundedNotHanded BY DEF AInv
  <1> QED BY <1>1, <1>2, <1>3, PTL DEF Spec

(* MeetsContract: with such an arm WaitMeal implements DeliveryContract, the promise    *)
(* Sale builds on: each of its steps is one of the contract's or leaves the meals alone. *)
THEOREM DeliveryKeepsContract == Alive => (Spec => MeetsContract)
  <1> SUFFICES ASSUME Alive PROVE Spec => MeetsContract
      OBVIOUS
  <1>1. Init => AInv BY AInvInit
  <1>2. AInv /\ [Next]_vars => AInv' BY AInvNext
  <1>3. Init => Contract!Init BY DEF Init, Contract!Init, Fetching
  <1>4. AInv /\ [Next]_vars => [Contract!Next]_<<Place \in Fetching, meal, handed, counted, failed>>
    BY MeetsStep DEF AInv
  <1> QED BY <1>1, <1>2, <1>3, <1>4, PTL DEF Spec, MeetsContract, Contract!Spec
=============================================================================
