--------------------------- MODULE ContractProofs ---------------------------
(***************************************************************************)
(* What follows from the invariant of Sale that LedgerProofs proves: the   *)
(* cart never asks for more than is in stock, and the sale implements      *)
(* SaleContract.                                                           *)
(***************************************************************************)
EXTENDS LedgerProofs

-----------------------------------------------------------------------------
(* The cart and the stock. *)

(* A step that touches neither the cart nor the stock, outside the arm's work, *)
(* keeps the cart within the stock if it does not begin to sell or to serve.   *)
LEMMA AskedSame ==
  ASSUME AskedOK, at # "arm", at' # "arm",
         MealCnt' = MealCnt, MealCnt_t' = MealCnt_t, stock' = stock,
         Shopping' => Shopping, Serving' => Shopping \/ Serving
  PROVE  AskedOK'
  BY DEF AskedOK

(* So does an interrupt while the arm works. *)
LEMMA AskedArm ==
  ASSUME AskedOK, at = "arm", UNCHANGED <<loop, MealID, MealCnt, MealCnt_t, stock, Cancle>>
  PROVE  AskedOK'
  BY DEF AskedOK, loop, Shopping, Serving

(* An empty cart asks for nothing. *)
LEMMA AskedNothing ==
  ASSUME TypeOK, MealCnt' = Nothing, MealCnt_t' = Nothing, stock' = stock, at' # "arm"
  PROVE  AskedOK'
  <1>1. \A k \in Kinds : Nothing[k] = 0 /\ stock[k] \in Nat
    BY DEF Nothing, TypeOK, CartType
  <1> QED BY <1>1 DEF AskedOK

(* Coins, notes and the timers 4 and 7 leave the cart alone; timer 3 may empty it. *)
LEMMA AskedInterrupt == MoneyInv /\ AskedOK /\ Interrupt => AskedOK'
  <1> SUFFICES ASSUME MoneyInv, AskedOK, Interrupt PROVE AskedOK'
      OBVIOUS
  <1>1. TypeOK /\ PlaceOK /\ PageOK BY DEF MoneyInv
  <1> USE DEF loop, times, cart, pay, back, cash, Shopping, Serving
  <1>2. CASE UNCHANGED <<loop, MealID, MealCnt, MealCnt_t, stock, Cancle>>
    BY <1>2, AskedSame, AskedArm
  <1>3. CASE Tick3 /\ ClearUserBuffer
    BY <1>1, <1>3, AskedNothing DEF Tick3, ClearUserBuffer, PageOK, PlaceOK
  <1> QED BY <1>2, <1>3 DEF Interrupt, CoinIn, BillIn, Tick3, Tick4, Tick7

(* Waiting for money and settling leave the cart alone; the timeout empties it. *)
LEMMA AskedWait == MoneyInv /\ AskedOK /\ WaitPayMoney => AskedOK'
  <1> SUFFICES ASSUME MoneyInv, AskedOK, WaitPayMoney PROVE AskedOK'
      OBVIOUS
  <1>1. TypeOK /\ PlaceOK BY DEF MoneyInv
  <1> USE DEF loop, times, cart, pay, back, cash, Shopping, Serving, In, Point
  <1>2. at # "arm" /\ at' # "arm"
    BY <1>1 DEF WaitPayMoney, AwaitPayment, ReadBills, BillsRead, AddBill, AskForCard, CardPaid,
                CardFails, Settle, CloseAfterCash, WaitMore, PayTimeout
  <1>3. CASE AwaitPayment \/ ReadBills \/ BillsRead \/ AddBill \/ AskForCard \/ CardPaid \/ CardFails
    <2>1. Current' = Current /\ MealCnt' = MealCnt /\ MealCnt_t' = MealCnt_t /\ stock' = stock
          /\ Cancle' = Cancle
      BY <1>3 DEF AwaitPayment, ReadBills, BillsRead, AddBill, AskForCard, CardPaid, CardFails
    <2> QED BY <1>2, <2>1, AskedSame
  <1>4. CASE Settle \/ CloseAfterCash \/ WaitMore
    <2>1. MealCnt' = MealCnt /\ MealCnt_t' = MealCnt_t /\ stock' = stock
          /\ (Shopping' => Shopping) /\ (Serving' => Shopping \/ Serving)
      BY <1>4 DEF Settle, CloseAfterCash, WaitMore
    <2> QED BY <1>2, <2>1, AskedSame
  <1>5. CASE PayTimeout BY <1>1, <1>2, <1>5, AskedNothing DEF PayTimeout, ClearUserBuffer
  <1> QED BY <1>3, <1>4, <1>5 DEF WaitPayMoney

(* Paying out and serving.  SendArm takes the meal out of the stock before Delivered *)
(* takes it out of the cart; the machine sells again only with an empty cart.        *)
LEMMA AskedServe == MoneyInv /\ AskedOK /\ Serve => AskedOK'
  <1> SUFFICES ASSUME MoneyInv, AskedOK, Serve PROVE AskedOK'
      OBVIOUS
  <1>1. TypeOK /\ PlaceOK /\ ClearedOK /\ PaidOK BY DEF MoneyInv
  <1>2. \A k \in Kinds : MealCnt[k] \in Nat /\ stock[k] \in Nat BY <1>1 DEF TypeOK, CartType
  <1>3. stock \in [Kinds -> Nat] BY <1>1 DEF TypeOK, CartType
  <1> USE DEF loop, times, cart, pay, back, cash, Shopping, Serving, In
  <1>4. CASE PayOut \/ DataUpload \/ PollAbnormalHandle
    <2>1. /\ at # "arm" /\ at' # "arm" /\ MealCnt' = MealCnt /\ MealCnt_t' = MealCnt_t
          /\ stock' = stock /\ (Shopping' => Shopping) /\ (Serving' => Shopping \/ Serving)
      BY <1>4 DEF PayOut, DataUpload, PollAbnormalHandle
    <2> QED BY <2>1, AskedSame
  <1>5. CASE AfterPayOut
    <2>1. at # "arm" /\ at' # "arm" /\ MealCnt' = MealCnt /\ MealCnt_t' = MealCnt_t /\ stock' = stock
      BY <1>5 DEF AfterPayOut
    <2>2. CASE Current' = "current_temperature"
      <3>1. MealCnt = Nothing BY <1>1, <1>5, <2>2 DEF AfterPayOut, ClearedOK, Cleared
      <3>2. MealCnt_t = Nothing BY <1>1, <1>5, <2>2 DEF AfterPayOut, ClearedOK, Cleared
      <3> QED BY <1>1, <2>1, <3>1, <3>2, AskedNothing
    <2>3. CASE Current' # "current_temperature"
      BY <1>5, <2>1, <2>3, AskedSame DEF AfterPayOut
    <2> QED BY <2>2, <2>3
  <1>6. ASSUME NEW k \in Kinds, SendArm(k) PROVE AskedOK'
    <2>1. stock' = [stock EXCEPT ![k] = @ - 1] /\ MealCnt' = MealCnt /\ MealID' = k
      BY <1>6 DEF SendArm
    <2>2. \A j \in Kinds : stock'[j] = IF j = k THEN stock[j] - 1 ELSE stock[j] BY <1>3, <2>1
    <2>3. \A j \in Kinds : MealCnt[j] <= stock[j]
      BY <1>1, <1>6 DEF SendArm, AskedOK, PlaceOK, TypeOK, LoopType
    <2>4. \A j \in Kinds : MealCnt'[j] <= stock'[j] + (IF j = MealID' THEN 1 ELSE 0)
      BY <1>2, <2>1, <2>2, <2>3
    <2>5. at' = "arm" /\ Current' = "meal_out" BY <1>6 DEF SendArm
    <2> QED BY <2>4, <2>5 DEF AskedOK
  <1>7. CASE Delivered
    <2>1. \A j \in Kinds : MealCnt[j] <= stock[j] + (IF j = MealID THEN 1 ELSE 0)
      BY <1>7 DEF Delivered, AskedOK
    <2>2. \A j \in Kinds : MealCnt'[j] = IF j = MealID THEN MealCnt[j] - 1 ELSE MealCnt[j]
      BY <1>7 DEF Delivered
    <2>3. stock' = stock BY <1>7 DEF Delivered
    <2>4. \A j \in Kinds : MealCnt'[j] <= stock'[j] BY <1>2, <2>1, <2>2, <2>3
    <2> QED BY <1>7, <2>4 DEF AskedOK, Delivered
  <1>8. CASE ArmError BY <1>8 DEF ArmError, AskedOK
  <1>9. CASE MealsTaken BY <1>1, <1>9, AskedNothing DEF MealsTaken, ClearUserBuffer
  <1> QED BY <1>4, <1>5, <1>6, <1>7, <1>8, <1>9 DEF Serve

(* PutIntoShopCart moves a count that is within the stock into the cart. *)
LEMMA AskedCart ==
  ASSUME TypeOK, AskedOK, Shopping, PutIntoShopCart
  PROVE  \A k \in Kinds : MealCnt'[k] <= stock[k]
  <1>1. \A k \in Kinds : MealCnt[k] <= stock[k] /\ MealCnt_t[k] <= stock[k] BY DEF AskedOK
  <1>2. MealCnt \in [Kinds -> Nat] BY DEF TypeOK, CartType
  <1> QED BY <1>1, <1>2 DEF PutIntoShopCart, CartWith

(* Each key that changes a count looks at the stock, or cuts the count to it. *)
LEMMA AskedScreen == MoneyInv /\ AskedOK /\ ScreenCommand => AskedOK'
  <1> SUFFICES ASSUME MoneyInv, AskedOK, ScreenCommand PROVE AskedOK'
      OBVIOUS
  <1>1. TypeOK /\ TapsOK /\ PlaceOK /\ PageOK BY DEF MoneyInv
  <1>2. \A k \in Kinds : MealCnt[k] \in Nat /\ MealCnt_t[k] \in Nat /\ stock[k] \in Nat
    BY <1>1 DEF TypeOK, CartType
  <1>3. MealCnt \in [Kinds -> Nat] /\ MealCnt_t \in [Kinds -> Nat] BY <1>1 DEF TypeOK, CartType
  <1>4. Shopping => \A k \in Kinds : MealCnt[k] <= stock[k] /\ MealCnt_t[k] <= stock[k]
    BY DEF AskedOK
  <1>5. \A adr : Command(adr) => at = "deal" /\ at' = "deal" /\ stock' = stock
    BY <1>1, OneFrame DEF Command
  <1>6. ASSUME Shopping, at' = "deal", stock' = stock, Shopping',
               \A k \in Kinds : MealCnt'[k] <= stock[k] /\ MealCnt_t'[k] <= stock[k]
        PROVE  AskedOK'
    BY <1>6 DEF AskedOK, Shopping, Serving
  <1> USE DEF times, cart, pay, back, cash
  <1>7. CASE meal_choose
    <2> DEFINE k == Head(taps).id
    <2>1. Shopping /\ at' = "deal" /\ stock' = stock BY <1>1, <1>5, <1>7, AtMenu DEF meal_choose
    <2>2. Shopping' BY <1>7, <2>1 DEF meal_choose, Shopping
    <2>3. k \in Kinds BY <1>1, <1>7, FrameMeal DEF meal_choose
    <2>4. MealCnt' = MealCnt BY <1>7 DEF meal_choose
    <2>5. MealCnt_t' = MealCnt_t \/ (stock[k] > 0 /\ MealCnt_t' = [MealCnt_t EXCEPT ![k] = 1])
      BY <1>7 DEF meal_choose
    <2> HIDE DEF k
    <2>6. \A j \in Kinds : MealCnt_t'[j] <= stock[j] BY <1>2, <1>3, <1>4, <2>1, <2>3, <2>5
    <2> QED BY <1>4, <1>6, <2>1, <2>2, <2>4, <2>6
  <1>8. CASE meal_cnt
    <2> DEFINE k == Head(taps).id
               n == Head(taps).n
    <2>1. Shopping /\ at' = "deal" /\ stock' = stock BY <1>1, <1>5, <1>8, AtMeal DEF meal_cnt
    <2>2. Shopping' BY <1>8, <2>1 DEF meal_cnt, Shopping
    <2>3. k \in Kinds BY <1>1, <1>8, FrameMeal DEF meal_cnt
    <2>4. MealCnt' = MealCnt BY <1>8 DEF meal_cnt
    <2>5. \/ n <= stock[k] /\ MealCnt_t' = [MealCnt_t EXCEPT ![k] = n]
          \/ MealCnt_t' = [MealCnt_t EXCEPT ![k] = stock[k]]
      BY <1>8 DEF meal_cnt
    <2> HIDE DEF k, n
    <2>6. \A j \in Kinds : MealCnt_t'[j] <= stock[j] BY <1>2, <1>3, <1>4, <2>1, <2>3, <2>5
    <2> QED BY <1>4, <1>6, <2>1, <2>2, <2>4, <2>6
  <1>9. CASE ContinueShopping \/ GoToCart
    <2>1. Shopping /\ at' = "deal" /\ stock' = stock
      BY <1>1, <1>5, <1>9, AtCartKey DEF ContinueShopping, GoToCart
    <2>2. Shopping' /\ MealCnt_t' = MealCnt_t
      BY <1>9, <2>1 DEF ContinueShopping, GoToCart, Shopping
    <2>3. \A k \in Kinds : MealCnt'[k] <= stock[k]
      BY <1>1, <1>9, <2>1, AskedCart DEF ContinueShopping, GoToCart
    <2> QED BY <1>4, <1>6, <2>1, <2>2, <2>3
  <1>10. CASE CancelMeal \/ CancelPayment
    <2>1. at' = "deal" /\ stock' = stock BY <1>5, <1>10 DEF CancelMeal, CancelPayment
    <2>2. MealCnt' = Nothing /\ MealCnt_t' = Nothing
      BY <1>10 DEF CancelMeal, CancelPayment, ClearUserBuffer
    <2> QED BY <1>1, <2>1, <2>2, AskedNothing
  <1>11. CASE column_count
    <2> DEFINE k == Head(taps).id
               n == Head(taps).n
    <2>1. Shopping /\ at' = "deal" /\ stock' = stock
      BY <1>1, <1>5, <1>11, OneFrame DEF column_count
    <2>2. Shopping' BY <1>11, <2>1 DEF column_count, Shopping
    <2>3. k \in Kinds BY <1>1, <1>11, FrameMeal DEF column_count
    <2>4. MealCnt_t' = MealCnt_t BY <1>11 DEF column_count
    <2>5. (n <= stock[k] /\ MealCnt' = [MealCnt EXCEPT ![k] = n]) \/ MealCnt' = MealCnt
      BY <1>11 DEF column_count
    <2> HIDE DEF k, n
    <2>6. \A j \in Kinds : MealCnt'[j] <= stock[j] BY <1>2, <1>3, <1>4, <2>1, <2>3, <2>5
    <2> QED BY <1>4, <1>6, <2>1, <2>2, <2>4, <2>6
  <1>12. CASE ChoosePayment
    <2>1. Shopping /\ at' = "deal" /\ stock' = stock
      BY <1>1, <1>5, <1>12, AtPayment DEF ChoosePayment
    <2>2. Shopping' /\ MealCnt' = MealCnt /\ MealCnt_t' = MealCnt
      BY <1>12, <2>1 DEF ChoosePayment, Shopping
    <2> QED BY <1>4, <1>6, <2>1, <2>2
  <1>13. CASE bill_print
    <2>1. at = "deal" /\ at' = "deal" /\ stock' = stock BY <1>5, <1>13 DEF bill_print
    <2> QED BY <1>13, <2>1, AskedSame DEF bill_print, Shopping, Serving
  <1> QED BY <1>7, <1>8, <1>9, <1>10, <1>11, <1>12, <1>13 DEF ScreenCommand

(* The passes of the main loop that do nothing, and the people around the machine. *)
LEMMA AskedOthers == MoneyInv /\ AskedOK /\ (DealDone \/ Idle \/ People) => AskedOK'
  <1> SUFFICES ASSUME MoneyInv, AskedOK, DealDone \/ Idle \/ People PROVE AskedOK'
      OBVIOUS
  <1>1. TypeOK /\ PlaceOK /\ ClearedOK BY DEF MoneyInv
  <1> USE DEF loop, times, cart, pay, back, cash, Shopping, Serving, In
  <1>2. CASE DealDone \/ Idle
    <2>1. /\ at # "arm" /\ at' # "arm" /\ Current' = Current /\ Cancle' = Cancle
          /\ MealCnt' = MealCnt /\ MealCnt_t' = MealCnt_t /\ stock' = stock
      BY <1>2 DEF DealDone, Idle
    <2> QED BY <2>1, AskedSame
  <1>3. CASE UNCHANGED <<loop, MealID, MealCnt, MealCnt_t, stock, Cancle>>
    BY <1>3, AskedSame, AskedArm
  <1>4. CASE AdminClears
    <2>1. at # "arm" /\ at' # "arm" /\ stock' = stock BY <1>4 DEF AdminClears
    <2>2. CASE "SendUR6Erro" \in erro_record
      BY <1>1, <1>4, <2>1, <2>2, AskedNothing DEF AdminClears, ClearUserBuffer
    <2>3. CASE "SendUR6Erro" \notin erro_record
      <3>1. MealCnt = Nothing /\ MealCnt_t = Nothing
        BY <1>1, <1>4, <2>3 DEF AdminClears, PlaceOK, ClearedOK, Cleared
      <3>2. MealCnt' = MealCnt /\ MealCnt_t' = MealCnt_t BY <1>4, <2>3 DEF AdminClears
      <3> QED BY <1>1, <2>1, <3>1, <3>2, AskedNothing
    <2> QED BY <2>2, <2>3
  <1> QED BY <1>2, <1>3, <1>4 DEF People, Touch, Refill, AdminLeaves

(* The strengthened invariant of the cart holds in every run. *)
LEMMA AskedAlways == Orderly => (Spec => []AskedOK)
  <1> SUFFICES ASSUME Orderly PROVE Spec => []AskedOK
      OBVIOUS
  <1>1. Init => AskedOK
    <2>1. \A k \in Kinds : Nothing[k] = 0 /\ Stock0[k] \in Nat BY Tables DEF Nothing
    <2> QED BY <2>1 DEF Init, AskedOK
  <1>2. AskedOK /\ UNCHANGED vars => AskedOK'
    BY AskedSame, AskedArm DEF vars, loop, cart, back, Shopping, Serving
  <1>3. MoneyInv /\ AskedOK /\ [Next]_vars => AskedOK'
    BY <1>2, AskedInterrupt, AskedWait, AskedServe, AskedScreen, AskedOthers DEF Next, MainLoop
  <1>4. Spec => []MoneyInv BY Inductive
  <1> QED BY <1>1, <1>3, <1>4, PTL DEF Spec

(* The whole invariant: at every place of the main loop its page, timers, acceptors,     *)
(* cart, bill and money fit, though interrupts change them between any two of its steps. *)
THEOREM MachineIsConsistent == Orderly => (Spec => []IInv)
  BY Inductive, AskedAlways, PTL DEF IInv

(* WaitMeal never searches for a meal that is not there: through every key that changes *)
(* a count, every settlement, cancellation and timeout, and from one meal on the arm to *)
(* the next, the cart asks for no more than is in stock.                                *)
THEOREM CartIsInStock == Orderly => (Spec => []CartInStock)
  <1>1. AskedOK => CartInStock BY DEF AskedOK, CartInStock
  <1> QED BY <1>1, AskedAlways, PTL

-----------------------------------------------------------------------------
(* The refinement of SaleContract. *)

(* What the sale holds for the customer is never negative. *)
LEMMA ReceivedNat == TypeOK /\ PaidOK => Received \in Nat
  <1>1. TypeOK /\ PaidOK => Uncounted \in Nat
    BY DEF TypeOK, MoneyType, AccType, PaidOK, Uncounted
  <1> QED BY <1>1 DEF TypeOK, MoneyType, PaidOK, Received

LEMMA MappedTypes ==
  MoneyInv => /\ Received \in Nat /\ Owed \in Nat /\ MealsOwed \in Nat
          /\ refunded \in Nat /\ delivered \in Nat /\ Given \in Nat
  <1> SUFFICES ASSUME MoneyInv
               PROVE  /\ Received \in Nat /\ Owed \in Nat /\ MealsOwed \in Nat
                      /\ refunded \in Nat /\ delivered \in Nat /\ Given \in Nat
      OBVIOUS
  <1>1. Value(MealCnt) \in Nat BY ValueNat DEF MoneyInv, TypeOK, CartType
  <1>2. Received \in Nat BY ReceivedNat DEF MoneyInv
  <1>3. Owed \in Nat BY DEF MoneyInv, TypeOK, MoneyType, PaidOK, Owed
  <1>4. MealsOwed \in Nat BY <1>1 DEF MealsOwed
  <1>5. refunded \in Nat /\ delivered \in Nat BY DEF MoneyInv, TypeOK, MoneyType
  <1> QED BY <1>2, <1>3, <1>4, <1>5 DEF Given

(* Nor is it in the next state. *)
LEMMA ReceivedNext == MoneyInv' => (Received \in Nat)'
  <1>1. MoneyInv => Received \in Nat BY MappedTypes
  <1> QED BY <1>1, PTL

(* Between two states in which nothing is owed any change of the credit is a Take. *)
LEMMA TakeStep ==
  ASSUME MoneyInv', Owed = 0, MealsOwed = 0, Owed' = 0, MealsOwed' = 0, Given' = Given
  PROVE  Promise!Next
  BY ReceivedNext DEF Promise!Next, Promise!Take

(* While the machine sells nothing is owed. *)
LEMMA NoneOwed == Shopping => Owed = 0 /\ MealsOwed = 0
  BY DEF Shopping, Owed, MealsOwed, Serving

LEMMA NoneOwedNext == Shopping' => Owed' = 0 /\ MealsOwed' = 0
  BY DEF Shopping, Owed, MealsOwed, Serving

(* A step from selling to selling takes money, or loses it, or does nothing. *)
LEMMA ShopStep == ASSUME MoneyInv', Shopping, Shopping', Given' = Given PROVE Promise!Next
  BY TakeStep, NoneOwed, NoneOwedNext

(* A step that leaves the state of the main loop, the refund and the cart alone *)
(* leaves what is owed alone.                                                   *)
LEMMA StillOwed ==
  ASSUME Current' = Current, Cancle' = Cancle, MoneyBack' = MoneyBack, MealCnt' = MealCnt
  PROVE  Owed' = Owed /\ MealsOwed' = MealsOwed /\ (Shopping' <=> Shopping)
  BY DEF Owed, MealsOwed, Serving, Shopping, Value

(* Outside a sale that changes nothing. *)
LEMMA QuietStep ==
  ASSUME MoneyInv', Current' = Current, Cancle' = Cancle, MoneyBack' = MoneyBack, MealCnt' = MealCnt,
         Given' = Given
  PROVE  [Promise!Next]_Promise!vars
  <1>1. CASE Shopping BY <1>1, StillOwed, ShopStep
  <1>2. CASE ~Shopping
    <2>1. Received' = Received BY <1>2, StillOwed DEF Received
    <2> QED BY <2>1, StillOwed DEF Promise!vars
  <1> QED BY <1>1, <1>2

(* Interrupts: money comes in while the machine sells; what comes in the three seconds *)
(* after a settlement belongs to no sale.                                              *)
LEMMA PromiseInterrupt == MoneyInv /\ MoneyInv' /\ Interrupt => [Promise!Next]_Promise!vars
  <1> SUFFICES ASSUME MoneyInv, MoneyInv', Interrupt PROVE [Promise!Next]_Promise!vars
      OBVIOUS
  <1> USE DEF loop, times, cart, pay, back, cash
  <1>1. CASE CoinIn \/ (\E v \in Bills : BillIn(v)) \/ Tick4 \/ Tick7
    <2>1. /\ Current' = Current /\ Cancle' = Cancle /\ MoneyBack' = MoneyBack
          /\ MealCnt' = MealCnt /\ Given' = Given
      BY <1>1 DEF CoinIn, BillIn, Tick4, Tick7, Given
    <2> QED BY <2>1, QuietStep
  <1>2. CASE Tick3
    <2>1. Shopping /\ Current' = Current /\ Given' = Given
      BY <1>2 DEF MoneyInv, PageOK, Tick3, Given
    <2>2. Shopping' BY <2>1 DEF Shopping
    <2> QED BY <2>1, <2>2, ShopStep
  <1> QED BY <1>1, <1>2 DEF Interrupt

(* The credit is turned into change and meals. *)
LEMMA SellStep ==
  ASSUME MoneyInv, Shopping, ~Shopping', NEW p \in Nat, NEW left \in Nat,
         p + left <= PayAlready, Owed' = left, MealsOwed' = p, Given' = Given
  PROVE  Promise!Next
  <1>1. Uncounted \in Nat /\ PayAlready \in Nat
    BY DEF MoneyInv, TypeOK, MoneyType, AccType, PaidOK, Uncounted
  <1>2. Received = PayAlready + Uncounted /\ Received' = 0 BY DEF Received
  <1>3. p \in 0..Received /\ left \in 0..(Received - p) BY <1>1, <1>2
  <1>4. Promise!Sell(p) BY <1>2, <1>3, NoneOwed DEF Promise!Sell
  <1> QED BY <1>3, <1>4 DEF Promise!Next

(* Waiting for money takes it; Settle sells the cart; the timeout sells nothing. *)
LEMMA PromiseWait == MoneyInv /\ MoneyInv' /\ WaitPayMoney => [Promise!Next]_Promise!vars
  <1> SUFFICES ASSUME MoneyInv, MoneyInv', WaitPayMoney PROVE [Promise!Next]_Promise!vars
      OBVIOUS
  <1>1. TypeOK /\ PlaceOK /\ CartOK /\ PointOK /\ PaidOK BY DEF MoneyInv
  <1> USE DEF loop, times, cart, pay, back, cash, In, Point
  <1>2. CASE AwaitPayment \/ ReadBills \/ BillsRead \/ AddBill \/ AskForCard \/ CardPaid
             \/ CardFails \/ CloseAfterCash \/ WaitMore
    <2>1. /\ Current' = Current /\ Cancle' = Cancle /\ MoneyBack' = MoneyBack
          /\ MealCnt' = MealCnt /\ Given' = Given
      BY <1>2 DEF AwaitPayment, ReadBills, BillsRead, AddBill, AskForCard, CardPaid, CardFails,
                  CloseAfterCash, WaitMore, Given
    <2> QED BY <2>1, QuietStep
  <1>3. CASE Settle
    <2>1. Shopping /\ ~Shopping' /\ Given' = Given BY <1>3 DEF Settle, Shopping, Given
    <2>2. PayAlready >= PayShould /\ PayAlready \in Int /\ PayShould \in Nat
      BY <1>1, <1>3 DEF PointOK, Settle, TypeOK, MoneyType
    <2>3. Owed' = PayAlready - PayShould BY <1>3 DEF Settle, Owed
    <2>4. page \in PayPages BY <1>1, <1>3 DEF PointOK, Settle
    <2>5. PayShould = Value(MealCnt) BY <1>1, <2>4 DEF CartOK
    <2>6. MealsOwed' = PayShould BY <1>3, <2>5 DEF Settle, MealsOwed, Serving, Value
    <2> DEFINE left == PayAlready - PayShould
    <2>7. left \in Nat /\ PayShould + left <= PayAlready BY <2>2
    <2> HIDE DEF left
    <2>8. Owed' = left BY <2>3 DEF left
    <2> QED BY <2>1, <2>2, <2>6, <2>7, <2>8, SellStep
  <1>4. CASE PayTimeout
    <2>1. Shopping /\ Given' = Given BY <1>1, <1>4 DEF PayTimeout, PlaceOK, Shopping, Given
    <2>2. CASE Shopping' BY <2>1, <2>2, ShopStep
    <2>3. CASE ~Shopping'
      <3>1. Current' = "hpper_out" BY <1>4, <2>1, <2>3 DEF PayTimeout, Shopping
      <3>2. Owed' = PayAlready BY <1>4, <3>1 DEF PayTimeout, Owed
      <3>3. MealCnt' = Nothing BY <1>4 DEF PayTimeout, ClearUserBuffer
      <3>4. MealsOwed' = 0 BY <3>3, ValuePrime, ValueNothing DEF MealsOwed
      <3>5. PayAlready \in Nat /\ 0 + PayAlready <= PayAlready
        BY <1>1 DEF TypeOK, MoneyType, PaidOK
      <3> QED BY <2>1, <2>3, <3>2, <3>4, <3>5, SellStep
    <2> QED BY <2>2, <2>3
  <1> QED BY <1>2, <1>3, <1>4 DEF WaitPayMoney

(* Paying out coins, handing out meals, and a failure of the arm. *)
LEMMA PromiseServe == MoneyInv /\ MoneyInv' /\ Serve => [Promise!Next]_Promise!vars
  <1> SUFFICES ASSUME MoneyInv, MoneyInv', Serve PROVE [Promise!Next]_Promise!vars
      OBVIOUS
  <1>1. TypeOK /\ PlaceOK /\ PaidOK BY DEF MoneyInv
  <1>2. MealCnt \in [Kinds -> Nat] BY <1>1 DEF TypeOK, CartType
  <1>3. Received \in Nat /\ Owed \in Nat /\ MealsOwed \in Nat /\ Given \in Nat
        /\ refunded \in Nat /\ delivered \in Nat
    BY MappedTypes
  <1> USE DEF loop, times, cart, pay, back, cash, In
  <1>4. CASE PayOut
    <2> DEFINE n == SendOutN_Coin(MoneyBack)
    <2>1. MoneyBack \in Nat /\ hopper \in Nat BY <1>1, <1>4 DEF PayOut, TypeOK, MoneyType
    <2>2. n \in 0..MoneyBack BY <2>1 DEF SendOutN_Coin
    <2>3. /\ Current = "hpper_out" /\ Current' = "hpper_out" /\ Cancle' = Cancle
          /\ MealCnt' = MealCnt /\ MoneyBack' = (MoneyBack - n) % ByteMod
          /\ refunded' = refunded + n /\ delivered' = delivered
      BY <1>4 DEF PayOut
    <2> HIDE DEF n
    <2>4. Owed = MoneyBack /\ Owed' = (Owed - n) % ByteMod BY <2>3 DEF Owed
    <2>5. MealsOwed' = MealsOwed BY <2>3 DEF MealsOwed, Serving, Value
    <2>6. Received' = Received BY <2>3 DEF Received, Shopping
    <2>7. Given' = Given + n BY <1>3, <2>2, <2>3 DEF Given
    <2>8. n \in 0..Owed /\ n <= Owed BY <2>1, <2>2, <2>4
    <2>9. Promise!PayCoins(n) BY <2>4, <2>5, <2>6, <2>7, <2>8 DEF Promise!PayCoins
    <2> QED BY <2>8, <2>9 DEF Promise!Next
  <1>5. CASE AfterPayOut
    <2>1. MoneyBack = 0 /\ Current = "hpper_out" BY <1>1, <1>5 DEF AfterPayOut, TypeOK, MoneyType, PaidOK
    <2>2. Owed = 0 /\ Received = 0 BY <2>1 DEF Owed, Received, Shopping
    <2>3. Current' # "hpper_out" /\ MealCnt' = MealCnt /\ Given' = Given
      BY <1>5 DEF AfterPayOut, Given
    <2>4. Owed' = 0 BY <2>3 DEF Owed
    <2>5. CASE Cancle = 0
      <3>1. Current' = "meal_out" /\ Cancle' = 0 BY <1>5, <2>5 DEF AfterPayOut
      <3>2. MealsOwed' = MealsOwed BY <2>1, <2>3, <2>5, <3>1 DEF MealsOwed, Serving, Value
      <3>3. Received' = 0 BY <3>1 DEF Received, Shopping
      <3> QED BY <2>2, <2>3, <2>4, <3>2, <3>3 DEF Promise!vars
    <2>6. CASE Cancle # 0
      <3>1. MealsOwed = 0 BY <2>6 DEF MealsOwed, Serving
      <3>2. Current' \in {"erro_hanle", "current_temperature"} BY <1>5, <2>6 DEF AfterPayOut
      <3>3. MealsOwed' = 0 BY <3>2 DEF MealsOwed, Serving
      <3> QED BY <2>2, <2>3, <2>4, <3>1, <3>3, TakeStep
    <2> QED BY <2>5, <2>6
  <1>6. CASE (\E k \in Kinds : SendArm(k)) \/ PollAbnormalHandle
    <2>1. /\ Current' = Current /\ Cancle' = Cancle /\ MoneyBack' = MoneyBack
          /\ MealCnt' = MealCnt /\ Given' = Given
      BY <1>6 DEF SendArm, PollAbnormalHandle, Given
    <2> QED BY <2>1, QuietStep
  <1>7. CASE Delivered
    <2>1. MealID \in Kinds /\ MealCnt[MealID] > 0 /\ acc[2] = Price[MealID]
          /\ Current = "meal_out" /\ Cancle = 0
      BY <1>1, <1>7 DEF Delivered, PaidOK, PlaceOK
    <2>2. Current' = "data_upload" /\ Cancle' = 0 /\ Given' = refunded + (delivered + Price[MealID])
      BY <1>7, <2>1 DEF Delivered, Given
    <2>3. MealCnt' = [j \in Kinds |-> IF j = MealID THEN MealCnt[j] - 1 ELSE MealCnt[j]]
      BY <1>7 DEF Delivered
    <2>4. Value(MealCnt') = Value(MealCnt) - Price[MealID] BY <1>2, <2>1, <2>3, ValueLess
    <2>5. MealsOwed = Value(MealCnt) /\ Owed = 0 /\ Received = 0
      BY <2>1 DEF MealsOwed, Serving, Owed, Received, Shopping
    <2>6. MealsOwed' = Value(MealCnt)' /\ Owed' = 0 /\ Received' = 0
      BY <2>2 DEF MealsOwed, Serving, Owed, Received, Shopping
    <2>7. MealsOwed' = MealsOwed - Price[MealID] BY <2>4, <2>5, <2>6, ValuePrime
    <2>8. Price[MealID] \in Nat BY <2>1, Tables
    <2>9. MealsOwed' \in Nat
      <3>1. MealCnt' \in [Kinds -> Nat] BY DEF MoneyInv, TypeOK, CartType
      <3>2. Value(MealCnt') \in Nat BY <3>1, ValueNat
      <3> QED BY <2>6, <3>2, ValuePrime
    <2>10. Price[MealID] <= MealsOwed BY <1>3, <2>7, <2>8, <2>9
    <2>11. Given' = Given + Price[MealID] BY <1>3, <2>2, <2>8 DEF Given
    <2>12. Promise!HandOut(Price[MealID])
      BY <2>5, <2>6, <2>7, <2>10, <2>11 DEF Promise!HandOut
    <2>13. Price[MealID] \in {Price[k] : k \in Kinds} BY <2>1
    <2> QED BY <2>12, <2>13 DEF Promise!Next
  <1>8. CASE ArmError
    <2>1. Current = "meal_out" /\ Cancle = 0 BY <1>1, <1>8 DEF ArmError, PlaceOK
    <2>2. /\ Current' = "hpper_out" /\ Cancle' = 1 /\ MoneyBack' = Value(MealCnt)
          /\ Given' = Given
      BY <1>8 DEF ArmError, Given
    <2>3. MealsOwed = Value(MealCnt) /\ Owed = 0 /\ Received = 0
      BY <2>1 DEF MealsOwed, Serving, Owed, Received, Shopping
    <2>4. MealsOwed' = 0 /\ Owed' = Value(MealCnt) /\ Received' = 0
      BY <2>2 DEF MealsOwed, Serving, Owed, Received, Shopping
    <2>5. Promise!Fail BY <2>2, <2>3, <2>4 DEF Promise!Fail
    <2> QED BY <2>5 DEF Promise!Next
  <1>9. CASE MealsTaken
    <2>1. Current = "meal_out" /\ Meals(MealCnt) = 0 /\ Current' = "current_temperature"
          /\ Given' = Given
      BY <1>9 DEF MealsTaken, Given
    <2>2. Value(MealCnt) = 0 BY <1>2, <2>1, NoMeals
    <2>3. Owed = 0 /\ MealsOwed = 0 BY <2>1, <2>2 DEF Owed, MealsOwed
    <2>4. Shopping' BY <2>1 DEF Shopping
    <2> QED BY <2>1, <2>3, <2>4, NoneOwedNext, TakeStep
  <1>10. CASE DataUpload
    <2>1. /\ Current = "data_upload" /\ Current' = "meal_out" /\ Cancle' = Cancle
          /\ MealCnt' = MealCnt /\ Given' = Given
      BY <1>10 DEF DataUpload, Given
    <2>2. Received' = Received /\ Owed' = Owed BY <2>1 DEF Received, Owed, Shopping
    <2>3. MealsOwed' = MealsOwed BY <2>1 DEF MealsOwed, Serving, Value
    <2> QED BY <2>1, <2>2, <2>3 DEF Promise!vars
  <1> QED BY <1>4, <1>5, <1>6, <1>7, <1>8, <1>9, <1>10 DEF Serve

(* The keys: a cancelled payment turns all the credit into change. *)
LEMMA PromiseScreen == MoneyInv /\ MoneyInv' /\ ScreenCommand => [Promise!Next]_Promise!vars
  <1> SUFFICES ASSUME MoneyInv, MoneyInv', ScreenCommand PROVE [Promise!Next]_Promise!vars
      OBVIOUS
  <1>1. TypeOK /\ TapsOK /\ PlaceOK /\ PageOK /\ PaidOK BY DEF MoneyInv
  <1> USE DEF times, cart, pay, back, cash
  <1>2. CASE meal_choose \/ meal_cnt \/ ContinueShopping \/ GoToCart \/ CancelMeal
             \/ column_count \/ ChoosePayment
    <2>1. Shopping
      BY <1>1, <1>2, OneFrame DEF meal_choose, meal_cnt, ContinueShopping, GoToCart, CancelMeal,
                                  column_count, ChoosePayment
    <2>2. Shopping' /\ Given' = Given
      BY <1>2, <2>1 DEF meal_choose, meal_cnt, ContinueShopping, GoToCart, CancelMeal,
                        column_count, ChoosePayment, Command, Shopping, Given
    <2> QED BY <2>1, <2>2, ShopStep
  <1>3. CASE CancelPayment
    <2>1. Shopping BY <1>1, <1>3, AtPayment DEF CancelPayment
    <2>2. /\ Current' = "hpper_out" /\ MoneyBack' = PayAlready /\ Cancle' = 1 /\ Given' = Given
      BY <1>3 DEF CancelPayment, Command, Given
    <2>3. ~Shopping' /\ Owed' = PayAlready /\ MealsOwed' = 0
      BY <2>2 DEF Shopping, Owed, MealsOwed, Serving
    <2>4. PayAlready \in Nat /\ 0 + PayAlready <= PayAlready
      BY <1>1 DEF TypeOK, MoneyType, PaidOK
    <2> QED BY <2>1, <2>2, <2>3, <2>4, SellStep
  <1>4. CASE bill_print
    <2>1. /\ Current' = Current /\ Cancle' = Cancle /\ MoneyBack' = MoneyBack
          /\ MealCnt' = MealCnt /\ Given' = Given
      BY <1>4 DEF bill_print, Command, Given
    <2> QED BY <2>1, QuietStep
  <1> QED BY <1>2, <1>3, <1>4 DEF ScreenCommand

(* The idle passes, the customer's touch and the technicians change nothing owed. *)
LEMMA PromiseOthers ==
  MoneyInv /\ MoneyInv' /\ (DealDone \/ Idle \/ People) => [Promise!Next]_Promise!vars
  <1> SUFFICES ASSUME MoneyInv, MoneyInv', DealDone \/ Idle \/ People PROVE [Promise!Next]_Promise!vars
      OBVIOUS
  <1> USE DEF loop, times, cart, pay, back, cash
  <1>1. CASE AdminClears
    <2>1. Current = "erro_hanle" BY <1>1 DEF AdminClears, MoneyInv, PlaceOK
    <2>2. Current' \in {"erro_hanle", "current_temperature"} /\ Given' = Given
      BY <1>1, <2>1 DEF AdminClears, Given
    <2>3. Owed = 0 /\ MealsOwed = 0 /\ Owed' = 0 /\ MealsOwed' = 0
      BY <2>1, <2>2 DEF Owed, MealsOwed, Serving
    <2> QED BY <2>2, <2>3, TakeStep
  <1>2. CASE /\ Current' = Current /\ Cancle' = Cancle /\ MoneyBack' = MoneyBack
             /\ MealCnt' = MealCnt /\ Given' = Given
    BY <1>2, QuietStep
  <1> QED BY <1>1, <1>2 DEF DealDone, Idle, People, Touch, Refill, AdminLeaves, Given

(* Each step of the sale is one step of the contract, or none. *)
LEMMA PromiseStep == MoneyInv /\ MoneyInv' /\ [Next]_vars => [Promise!Next]_Promise!vars
  <1> SUFFICES ASSUME MoneyInv, MoneyInv', [Next]_vars PROVE [Promise!Next]_Promise!vars
      OBVIOUS
  <1>1. CASE UNCHANGED vars
    <2>1. /\ Current' = Current /\ Cancle' = Cancle /\ MoneyBack' = MoneyBack
          /\ MealCnt' = MealCnt /\ Given' = Given
      BY <1>1 DEF vars, loop, cart, back, Given
    <2> QED BY <2>1, QuietStep
  <1>2. CASE Next
    BY <1>2, PromiseScreen, PromiseOthers, PromiseWait, PromiseServe, PromiseInterrupt
       DEF Next, MainLoop
  <1> QED BY <1>1, <1>2

(* The sale is an implementation of its contract: with its screen, timers, interrupts *)
(* and the hopper that runs empty, a customer's money is only ever turned into change *)
(* and meals at the settlement, the change is paid before a meal is sent for, a       *)
(* failed meal turns into change with all that follow it, and nothing is sold before  *)
(* that is paid.                                                                      *)
THEOREM SaleKeepsContract == Orderly => (Spec => Contract)
  <1> SUFFICES ASSUME Orderly PROVE Spec => Contract
      OBVIOUS
  <1>1. Init => Promise!Init
    <2> SUFFICES ASSUME Init PROVE Promise!Init
        OBVIOUS
    <2>1. Received = 0 /\ Owed = 0 /\ MealsOwed = 0 /\ Given = 0
      BY DEF Init, Received, Shopping, Uncounted, Owed, MealsOwed, Serving, Given
    <2> QED BY <2>1 DEF Promise!Init
  <1>2. MoneyInv /\ MoneyInv' /\ [Next]_vars => [Promise!Next]_Promise!vars BY PromiseStep
  <1>3. Spec => []MoneyInv BY Inductive
  <1> QED BY <1>1, <1>2, <1>3, PTL DEF Spec, Contract, Promise!Spec
=============================================================================
