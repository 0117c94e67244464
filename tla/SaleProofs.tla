----------------------------- MODULE SaleProofs -----------------------------
(***************************************************************************)
(* The types of Sale, for every value of its constants and every customer. *)
(* TypeOK is not inductive alone: the arm's step subtracts a meal from the *)
(* cart, so ArmOK has to say that it is still in it.                       *)
(***************************************************************************)
EXTENDS SaleInv, SequenceTheorems, TLAPS

(* The cart holds the meal the arm fetches. *)
ArmOK == at = "arm" => acc[2] >= 0 /\ (MealID \in Kinds => MealCnt[MealID] > 0)
Typed == TypeOK /\ ArmOK

(* The constants that count something are naturals. *)
LEMMA Numbers ==
  /\ Hopper0 \in Nat /\ WaitMax \in Nat /\ MealoutWait \in Nat
  /\ CharMod \in Nat \ {0} /\ ByteMod \in Nat \ {0} /\ WaitMax > 0
  /\ \A v \in Bills : v \in Nat
  BY SaleAssumption DEF SaleAssumption

(* Every kind has a positive price and a first stock. *)
LEMMA Tables == Price \in [Kinds -> Nat \ {0}] /\ Stock0 \in [Kinds -> Nat]
  BY SaleAssumption DEF SaleAssumption

(* An empty cart is a cart. *)
LEMMA NothingType == Nothing \in [Kinds -> Nat]
  BY DEF Nothing

(* What ClearUserBuffer leaves behind. *)
LEMMA ClearFacts ==
  ClearUserBuffer =>
    /\ MealID' = 0 /\ MealCnt' = Nothing /\ MealCnt_t' = Nothing /\ MealCost' = Nothing
    /\ PayShould' = 0 /\ PayAlready' = 0 /\ PayForCards' = 0 /\ PayType' = "none"
  BY DEF ClearUserBuffer

(* A countdown counts only above 0, so WaitTime never falls below it. *)
LEMMA CountFacts == CountDown => WaitTime > 0 /\ WaitTime' = WaitTime - 1
  BY DEF CountDown

(* Opening or closing the cash system overwrites the note in the buffer, which is kept. *)
LEMMA CashFacts ==
  ASSUME NEW acceptors, SetCashSystem(acceptors)
  PROVE  open' = acceptors /\ bill' = 0 /\ kept' = kept + bill
  BY DEF SetCashSystem

(* The first waiting frame names what its address calls for. *)
LEMMA TapsFacts ==
  ASSUME taps \in Seq(Frames), taps # <<>>
  PROVE  /\ Head(taps) \in Frames /\ Tail(taps) \in Seq(Frames)
         /\ Head(taps).id \in 0..4 /\ Head(taps).n \in Nat
         /\ Head(taps).adr \in {"meal_choose", "meal_cnt", "column_count"} => Head(taps).id \in Kinds
  <1>1. Head(taps) \in Frames /\ Tail(taps) \in Seq(Frames)
    BY HeadTailProperties
  <1> QED BY <1>1 DEF Frames, Kinds

(* GetMealPrice returns a natural, also for an id that is no kind. *)
LEMMA PriceNat ==
  ASSUME NEW id \in 0..4, NEW n \in Nat
  PROVE  GetMealPrice(id, n) \in Nat
  <1>1. CASE id \in Kinds
    <2>1. Price[id] \in Nat BY <1>1, Tables
    <2>2. Price[id] * n \in Nat BY <2>1
    <2> QED BY <1>1, <2>2, Numbers DEF GetMealPrice
  <1>2. CASE id \notin Kinds BY <1>2 DEF GetMealPrice
  <1> QED BY <1>1, <1>2

(* The sum of the costs of a cart is a natural. *)
LEMMA SumNat ==
  ASSUME NEW c \in [Kinds -> Nat]
  PROVE  SumCost(c) \in Nat
  BY DEF SumCost, Kinds

(* PutIntoShopCart keeps the types of the cart. *)
LEMMA CartNat ==
  ASSUME CartType, PutIntoShopCart
  PROVE  MealCnt' \in [Kinds -> Nat] /\ MealCost' \in [Kinds -> Nat]
  <1> USE DEF CartType, PutIntoShopCart, CartWith
  <1>1. CASE MealID \in Kinds
    <2>1. MealCnt_t[MealID] \in Nat BY <1>1
    <2>2. GetMealPrice(MealID, MealCnt_t[MealID]) \in Nat BY <2>1, PriceNat
    <2> QED BY <1>1, <2>1, <2>2
  <1>2. CASE MealID \notin Kinds BY <1>2
  <1> QED BY <1>1, <1>2

(* Changing one count of a cart leaves a cart. *)
LEMMA ExceptNat ==
  ASSUME NEW f \in [Kinds -> Nat], NEW k \in Kinds, NEW n \in Nat
  PROVE  [f EXCEPT ![k] = n] \in [Kinds -> Nat]
  OBVIOUS

(* Each kind's page is one of the meals' pages. *)
LEMMA MealPageFacts == \A k \in Kinds : MealPage[k] \in MealPages
  BY DEF MealPage, MealPages, Kinds

(* Choosing a meal keeps the type of the cart. *)
LEMMA CartChoose == CartType /\ taps \in Seq(Frames) /\ meal_choose => CartType'
  <1> SUFFICES ASSUME CartType, taps \in Seq(Frames), meal_choose PROVE CartType'
      OBVIOUS
  <1> DEFINE k == Head(taps).id
  <1>1. k \in Kinds /\ k \in 0..4 BY TapsFacts DEF meal_choose, Command
  <1>2. [MealCnt_t EXCEPT ![k] = 1] \in [Kinds -> Nat] BY <1>1, ExceptNat DEF CartType
  <1>3. MealID' \in 0..4 BY <1>1 DEF meal_choose, CartType
  <1>4. MealCnt_t' \in [Kinds -> Nat] BY <1>2 DEF meal_choose, CartType
  <1> QED BY <1>3, <1>4 DEF meal_choose, Command, CartType

(* Choosing a number of a meal keeps the type of the cart. *)
LEMMA CartCount == CartType /\ taps \in Seq(Frames) /\ meal_cnt => CartType'
  <1> SUFFICES ASSUME CartType, taps \in Seq(Frames), meal_cnt PROVE CartType'
      OBVIOUS
  <1> DEFINE k == Head(taps).id
             n == Head(taps).n
  <1>1. k \in Kinds /\ n \in Nat BY TapsFacts DEF meal_cnt, Command
  <1>2. stock[k] \in Nat /\ GetMealPrice(MealID, n) \in Nat BY <1>1, PriceNat DEF CartType
  <1>3. /\ [MealCnt_t EXCEPT ![k] = n] \in [Kinds -> Nat]
        /\ [MealCnt_t EXCEPT ![k] = stock[k]] \in [Kinds -> Nat]
        /\ [MealCost EXCEPT ![k] = GetMealPrice(MealID, n)] \in [Kinds -> Nat]
    BY <1>1, <1>2, ExceptNat DEF CartType
  <1>4. MealCnt_t' \in [Kinds -> Nat] /\ MealCost' \in [Kinds -> Nat]
    BY <1>3 DEF meal_cnt, CartType
  <1> QED BY <1>4 DEF meal_cnt, Command, cart, CartType

(* Changing a number on the account page keeps the types of the cart and the sum. *)
LEMMA CartColumn ==
  CartType /\ taps \in Seq(Frames) /\ column_count => CartType' /\ PayShould' \in Nat
  <1> SUFFICES ASSUME CartType, taps \in Seq(Frames), column_count
               PROVE  CartType' /\ PayShould' \in Nat
      OBVIOUS
  <1> DEFINE k == Head(taps).id
             n == Head(taps).n
  <1>1. k \in Kinds /\ n \in Nat BY TapsFacts DEF column_count, Command
  <1>2. n * Price[k] \in Nat BY <1>1, Tables
  <1>3. /\ [MealCnt EXCEPT ![k] = n] \in [Kinds -> Nat]
        /\ [MealCost EXCEPT ![k] = n * Price[k]] \in [Kinds -> Nat]
    BY <1>1, <1>2, ExceptNat DEF CartType
  <1>4. MealCnt' \in [Kinds -> Nat] /\ MealCost' \in [Kinds -> Nat]
    BY <1>3 DEF column_count, CartType
  <1>5. PayShould' \in Nat BY <1>4, SumNat DEF column_count
  <1> QED BY <1>4, <1>5 DEF column_count, Command, CartType

(* The first state has its types. *)
LEMMA TypedInit == Init => Typed
  <1> SUFFICES ASSUME Init PROVE Typed
      OBVIOUS
  <1> USE DEF Init
  <1>1. LoopType BY DEF LoopType, States, Points, Places, Pages, Erros
  <1>2. SetType BY DEF SetType
  <1>3. CartType BY Tables, NothingType DEF CartType, Kinds
  <1>4. MoneyType BY Numbers DEF MoneyType
  <1>5. AccType BY DEF AccType
  <1> QED BY <1>1, <1>2, <1>3, <1>4, <1>5 DEF Typed, TypeOK, ArmOK

(* Coins, notes and timers keep the types. *)
LEMMA TypedInterrupt == Typed /\ Interrupt => Typed'
  <1> SUFFICES ASSUME Typed, Interrupt PROVE Typed'
      OBVIOUS
  <1> USE DEF Typed, TypeOK, loop, times, cart, pay, back, cash
  <1>1. CASE CoinIn
    <2> USE <1>1 DEF CoinIn
    <2>1. LoopType' BY DEF LoopType
    <2>2. SetType' BY DEF SetType
    <2>3. CartType' BY DEF CartType
    <2>4. MoneyType' BY DEF MoneyType
    <2>5. AccType' BY DEF AccType
    <2>6. ArmOK' BY DEF ArmOK
    <2> QED BY <2>1, <2>2, <2>3, <2>4, <2>5, <2>6
  <1>2. ASSUME NEW v \in Bills, BillIn(v) PROVE Typed'
    <2> USE <1>2 DEF BillIn
    <2>1. LoopType' BY DEF LoopType
    <2>2. SetType' BY DEF SetType
    <2>3. CartType' BY DEF CartType
    <2>4. MoneyType' BY Numbers DEF MoneyType
    <2>5. AccType' BY DEF AccType
    <2>6. ArmOK' BY DEF ArmOK
    <2> QED BY <2>1, <2>2, <2>3, <2>4, <2>5, <2>6
  <1>3. CASE Tick3
    <2> USE <1>3 DEF Tick3
    <2>1. LoopType' BY ClearFacts DEF LoopType
    <2>2. SetType' BY DEF SetType
    <2>3. CartType' BY ClearFacts, NothingType DEF CartType
    <2>4. MoneyType' BY CountFacts, ClearFacts DEF MoneyType
    <2>5. AccType' BY DEF AccType
    <2>6. ArmOK' BY ClearFacts DEF ArmOK, Kinds
    <2> QED BY <2>1, <2>2, <2>3, <2>4, <2>5, <2>6
  <1>4. CASE Tick4
    <2> USE <1>4 DEF Tick4
    <2>1. LoopType' BY DEF LoopType, Pages
    <2>2. SetType' BY DEF SetType
    <2>3. CartType' BY DEF CartType
    <2>4. MoneyType' BY CountFacts DEF MoneyType
    <2>5. AccType' BY DEF AccType
    <2>6. ArmOK' BY DEF ArmOK
    <2> QED BY <2>1, <2>2, <2>3, <2>4, <2>5, <2>6
  <1>5. CASE Tick7
    <2> USE <1>5 DEF Tick7
    <2>1. LoopType' BY DEF LoopType
    <2>2. SetType' BY DEF SetType
    <2>3. CartType' BY DEF CartType
    <2>4. MoneyType' BY CountFacts DEF MoneyType
    <2>5. AccType' BY DEF AccType
    <2>6. ArmOK' BY DEF ArmOK
    <2> QED BY <2>1, <2>2, <2>3, <2>4, <2>5, <2>6
  <1> QED BY <1>1, <1>2, <1>3, <1>4, <1>5 DEF Interrupt

(* Every step of WaitPayMoney keeps the types. *)
LEMMA TypedWait == Typed /\ WaitPayMoney => Typed'
  <1> SUFFICES ASSUME Typed, WaitPayMoney PROVE Typed'
      OBVIOUS
  <1> USE DEF Typed, TypeOK, loop, times, cart, pay, back, cash
  <1>1. CASE AwaitPayment
    <2> USE <1>1 DEF AwaitPayment
    <2>1. LoopType' BY DEF LoopType, Points, Places
    <2>2. SetType' BY DEF SetType
    <2>3. CartType' BY DEF CartType
    <2>4. MoneyType' BY DEF MoneyType
    <2>5. AccType' BY DEF AccType
    <2>6. ArmOK' BY DEF ArmOK
    <2> QED BY <2>1, <2>2, <2>3, <2>4, <2>5, <2>6
  <1>2. CASE ReadBills
    <2> USE <1>2 DEF ReadBills
    <2>1. LoopType' BY DEF LoopType, Places
    <2>2. SetType' BY DEF SetType
    <2>3. CartType' BY DEF CartType
    <2>4. MoneyType' BY DEF MoneyType
    <2>5. AccType' BY DEF AccType, MoneyType
    <2>6. ArmOK' BY DEF ArmOK
    <2> QED BY <2>1, <2>2, <2>3, <2>4, <2>5, <2>6
  <1>3. CASE BillsRead
    <2> USE <1>3 DEF BillsRead
    <2>1. LoopType' BY DEF LoopType, Points, Places
    <2>2. SetType' BY DEF SetType
    <2>3. CartType' BY DEF CartType
    <2>4. MoneyType' BY DEF MoneyType
    <2>5. AccType' BY DEF AccType, MoneyType
    <2>6. ArmOK' BY DEF ArmOK
    <2> QED BY <2>1, <2>2, <2>3, <2>4, <2>5, <2>6
  <1>4. CASE AddBill
    <2> USE <1>4 DEF AddBill
    <2>1. LoopType' BY DEF LoopType, Points, Places
    <2>2. SetType' BY DEF SetType
    <2>3. CartType' BY DEF CartType
    <2>4. MoneyType' BY DEF MoneyType
    <2>5. AccType' BY DEF AccType
    <2>6. ArmOK' BY DEF ArmOK
    <2> QED BY <2>1, <2>2, <2>3, <2>4, <2>5, <2>6
  <1>5. CASE AskForCard
    <2> USE <1>5 DEF AskForCard
    <2>1. LoopType' BY DEF LoopType, Places, Pages
    <2>2. SetType' BY DEF SetType
    <2>3. CartType' BY DEF CartType
    <2>4. MoneyType' BY Numbers DEF MoneyType
    <2>5. AccType' BY DEF AccType, MoneyType
    <2>6. ArmOK' BY DEF ArmOK
    <2> QED BY <2>1, <2>2, <2>3, <2>4, <2>5, <2>6
  <1>6. CASE CardPaid
    <2> USE <1>6 DEF CardPaid
    <2>1. LoopType' BY DEF LoopType, Points, Places
    <2>2. SetType' BY DEF SetType
    <2>3. CartType' BY DEF CartType
    <2>4. MoneyType' BY DEF MoneyType, AccType
    <2>5. AccType' BY DEF AccType
    <2>6. ArmOK' BY DEF ArmOK
    <2> QED BY <2>1, <2>2, <2>3, <2>4, <2>5, <2>6
  <1>7. CASE CardFails
    <2> USE <1>7 DEF CardFails
    <2>1. LoopType' BY DEF LoopType, Points, Places, Pages
    <2>2. SetType' BY DEF SetType
    <2>3. CartType' BY DEF CartType
    <2>4. MoneyType' BY Numbers DEF MoneyType
    <2>5. AccType' BY DEF AccType
    <2>6. ArmOK' BY DEF ArmOK
    <2> QED BY <2>1, <2>2, <2>3, <2>4, <2>5, <2>6
  <1>8. CASE Settle
    <2> USE <1>8 DEF Settle
    <2>1. LoopType' BY DEF LoopType, States, Points, Places, Pages
    <2>2. SetType' BY DEF SetType
    <2>3. CartType' BY DEF CartType
    <2>4. MoneyType' BY DEF MoneyType
    <2>5. AccType' BY DEF AccType
    <2>6. ArmOK' BY DEF ArmOK
    <2> QED BY <2>1, <2>2, <2>3, <2>4, <2>5, <2>6
  <1>9. CASE CloseAfterCash
    <2> USE <1>9 DEF CloseAfterCash
    <2>1. LoopType' BY DEF LoopType, Places
    <2>2. SetType' BY CashFacts DEF CloseCashSystem, SetType
    <2>3. CartType' BY DEF CartType
    <2>4. MoneyType' BY CashFacts DEF CloseCashSystem, MoneyType
    <2>5. AccType' BY DEF AccType
    <2>6. ArmOK' BY DEF ArmOK
    <2> QED BY <2>1, <2>2, <2>3, <2>4, <2>5, <2>6
  <1>10. CASE WaitMore
    <2> USE <1>10 DEF WaitMore
    <2>1. LoopType' BY DEF LoopType, Places
    <2>2. SetType' BY DEF SetType
    <2>3. CartType' BY DEF CartType
    <2>4. MoneyType' BY DEF MoneyType
    <2>5. AccType' BY DEF AccType
    <2>6. ArmOK' BY DEF ArmOK
    <2> QED BY <2>1, <2>2, <2>3, <2>4, <2>5, <2>6
  <1>11. CASE PayTimeout
    <2> USE <1>11 DEF PayTimeout
    <2>1. LoopType' BY ClearFacts DEF LoopType, States, Points, Places, Pages
    <2>2. SetType' BY CashFacts DEF CloseCashSystem, SetType
    <2>3. CartType' BY ClearFacts, NothingType DEF CartType
    <2>4. MoneyType' BY Numbers, ClearFacts, CashFacts DEF CloseCashSystem, MoneyType
    <2>5. AccType' BY DEF AccType
    <2>6. ArmOK' BY DEF ArmOK
    <2> QED BY <2>1, <2>2, <2>3, <2>4, <2>5, <2>6
  <1> QED BY <1>1, <1>2, <1>3, <1>4, <1>5, <1>6, <1>7, <1>8, <1>9, <1>10, <1>11 DEF WaitPayMoney

(* The steps of the hopper, the arm, the upload and the errors keep the types. *)
LEMMA TypedServe == Typed /\ Serve => Typed'
  <1> SUFFICES ASSUME Typed, Serve PROVE Typed'
      OBVIOUS
  <1> USE DEF Typed, TypeOK, loop, times, cart, pay, back, cash
  <1>1. CASE PayOut
    <2> USE <1>1 DEF PayOut
    <2>1. LoopType' BY DEF LoopType, Places
    <2>2. SetType' BY DEF SetType, Erros
    <2>3. CartType' BY DEF CartType
    <2>4. MoneyType' BY DEF SendOutN_Coin, MoneyType
    <2>5. AccType' BY DEF AccType
    <2>6. ArmOK' BY DEF ArmOK
    <2> QED BY <2>1, <2>2, <2>3, <2>4, <2>5, <2>6
  <1>2. CASE AfterPayOut
    <2> USE <1>2 DEF AfterPayOut
    <2>1. LoopType' BY DEF LoopType, States, Places
    <2>2. SetType' BY Numbers DEF In, SetType, Timers, Acceptors, Erros
    <2>3. CartType' BY DEF CartType
    <2>4. MoneyType' BY Numbers DEF MoneyType
    <2>5. AccType' BY DEF AccType
    <2>6. ArmOK' BY DEF ArmOK
    <2> QED BY <2>1, <2>2, <2>3, <2>4, <2>5, <2>6
  <1>3. ASSUME NEW k \in Kinds, SendArm(k) PROVE Typed'
    <2> USE <1>3 DEF SendArm
    <2>1. LoopType' BY DEF LoopType, Places
    <2>2. SetType' BY DEF SetType
    <2>3. CartType' BY DEF Kinds, CartType
    <2>4. MoneyType' BY DEF MoneyType
    <2>5. AccType' BY Tables DEF AccType
    <2>6. ArmOK' BY Tables DEF First, ArmOK
    <2> QED BY <2>1, <2>2, <2>3, <2>4, <2>5, <2>6
  <1>4. CASE Delivered
    <2> USE <1>4 DEF Delivered
    <2>1. LoopType' BY DEF LoopType, States, Places, Pages
    <2>2. SetType' BY DEF SetType
    <2>3. CartType' BY DEF CartType, ArmOK
    <2>4. MoneyType' BY DEF MoneyType, AccType, ArmOK
    <2>5. AccType' BY DEF AccType
    <2>6. ArmOK' BY DEF ArmOK
    <2> QED BY <2>1, <2>2, <2>3, <2>4, <2>5, <2>6
  <1>5. CASE ArmError
    <2> USE <1>5 DEF ArmError
    <2>1. LoopType' BY DEF LoopType, States, Places, Pages
    <2>2. SetType' BY DEF SetType, Erros
    <2>3. CartType' BY DEF CartType
    <2>4. MoneyType' BY DEF Value, MoneyType
    <2>5. AccType' BY DEF AccType
    <2>6. ArmOK' BY DEF ArmOK
    <2> QED BY <2>1, <2>2, <2>3, <2>4, <2>5, <2>6
  <1>6. CASE MealsTaken
    <2> USE <1>6 DEF MealsTaken
    <2>1. LoopType' BY ClearFacts DEF LoopType, States, Places, Pages
    <2>2. SetType' BY DEF SetType
    <2>3. CartType' BY ClearFacts, NothingType DEF CartType
    <2>4. MoneyType' BY ClearFacts DEF MoneyType
    <2>5. AccType' BY DEF AccType
    <2>6. ArmOK' BY DEF ArmOK
    <2> QED BY <2>1, <2>2, <2>3, <2>4, <2>5, <2>6
  <1>7. CASE DataUpload
    <2> USE <1>7 DEF DataUpload
    <2>1. LoopType' BY DEF LoopType, States, Places
    <2>2. SetType' BY DEF SetType
    <2>3. CartType' BY DEF CartType
    <2>4. MoneyType' BY DEF MoneyType
    <2>5. AccType' BY DEF AccType
    <2>6. ArmOK' BY DEF ArmOK
    <2> QED BY <2>1, <2>2, <2>3, <2>4, <2>5, <2>6
  <1>8. CASE PollAbnormalHandle
    <2> USE <1>8 DEF PollAbnormalHandle
    <2>1. LoopType' BY DEF LoopType, Places, Pages
    <2>2. SetType' BY DEF SetType
    <2>3. CartType' BY DEF CartType
    <2>4. MoneyType' BY DEF MoneyType
    <2>5. AccType' BY DEF AccType
    <2>6. ArmOK' BY DEF ArmOK
    <2> QED BY <2>1, <2>2, <2>3, <2>4, <2>5, <2>6
  <1> QED BY <1>1, <1>2, <1>3, <1>4, <1>5, <1>6, <1>7, <1>8 DEF Serve

(* Every screen command keeps the types. *)
LEMMA TypedScreen == Typed /\ ScreenCommand => Typed'
  <1> SUFFICES ASSUME Typed, ScreenCommand PROVE Typed'
      OBVIOUS
  <1> USE DEF Typed, TypeOK, loop, times, cart, pay, back, cash
  <1>1. CASE meal_choose
    <2> USE <1>1 DEF meal_choose
    <2>1. LoopType' BY TapsFacts, MealPageFacts DEF Command, LoopType, Pages
    <2>2. SetType'
      BY TapsFacts, Numbers DEF Command, MealPage, Kinds, SetType, Timers, Acceptors, Erros
    <2>3. CartType' BY CartChoose DEF LoopType
    <2>4. MoneyType' BY Numbers DEF Command, MoneyType
    <2>5. AccType' BY DEF Command, AccType
    <2>6. ArmOK' BY DEF Command, ArmOK
    <2> QED BY <2>1, <2>2, <2>3, <2>4, <2>5, <2>6
  <1>2. CASE meal_cnt
    <2> USE <1>2 DEF meal_cnt
    <2>1. LoopType' BY DEF Command, LoopType
    <2>2. SetType' BY DEF Command, SetType
    <2>3. CartType' BY CartCount DEF LoopType
    <2>4. MoneyType' BY DEF Command, MoneyType
    <2>5. AccType' BY DEF Command, AccType
    <2>6. ArmOK' BY DEF Command, ArmOK
    <2> QED BY <2>1, <2>2, <2>3, <2>4, <2>5, <2>6
  <1>3. CASE ContinueShopping
    <2> USE <1>3 DEF ContinueShopping
    <2>1. LoopType' BY DEF Command, LoopType, Pages
    <2>2. SetType' BY DEF Command, SetType
    <2>3. CartType' BY CartNat DEF Command, CartType
    <2>4. MoneyType' BY Numbers DEF Command, MoneyType
    <2>5. AccType' BY DEF Command, AccType
    <2>6. ArmOK' BY DEF Command, ArmOK
    <2> QED BY <2>1, <2>2, <2>3, <2>4, <2>5, <2>6
  <1>4. CASE GoToCart
    <2> USE <1>4 DEF GoToCart, SettleAccounts
    <2>1. LoopType' BY DEF Command, LoopType, States, Pages
    <2>2. SetType' BY CartNat DEF Command, SetType, Timers
    <2>3. CartType' BY CartNat DEF Command, CartType
    <2>4. MoneyType' BY TapsFacts, Numbers, CartNat, SumNat DEF Command, MoneyType, AccType, ArmOK
    <2>5. AccType' BY DEF Command, AccType
    <2>6. ArmOK' BY DEF Command, ArmOK
    <2> QED BY <2>1, <2>2, <2>3, <2>4, <2>5, <2>6
  <1>5. CASE CancelMeal
    <2> USE <1>5 DEF CancelMeal
    <2>1. LoopType' BY ClearFacts DEF Command, LoopType, States, Pages
    <2>2. SetType' BY DEF Command, SetType
    <2>3. CartType' BY ClearFacts, NothingType DEF Command, CartType
    <2>4. MoneyType' BY ClearFacts DEF Command, MoneyType
    <2>5. AccType' BY DEF Command, AccType
    <2>6. ArmOK' BY DEF Command, ArmOK
    <2> QED BY <2>1, <2>2, <2>3, <2>4, <2>5, <2>6
  <1>6. CASE column_count
    <2> USE <1>6 DEF column_count
    <2>1. LoopType' BY DEF Command, LoopType
    <2>2. SetType' BY DEF Command, SetType
    <2>3. CartType' BY CartColumn DEF LoopType
    <2>4. MoneyType' BY CartColumn DEF LoopType, MoneyType, Command
    <2>5. AccType' BY DEF Command, AccType
    <2>6. ArmOK' BY DEF Command, ArmOK
    <2> QED BY <2>1, <2>2, <2>3, <2>4, <2>5, <2>6
  <1>7. CASE ChoosePayment
    <2> USE <1>7 DEF ChoosePayment
    <2>1. LoopType' BY DEF Command, LoopType, Points, Pages
    <2>2. SetType' BY CashFacts DEF Command, OpenCashSystem, CloseCashSystem, SetType
    <2>3. CartType' BY DEF Command, CartType
    <2>4. MoneyType' BY CashFacts DEF Command, OpenCashSystem, CloseCashSystem, MoneyType
    <2>5. AccType' BY DEF Command, AccType
    <2>6. ArmOK' BY DEF Command, ArmOK
    <2> QED BY <2>1, <2>2, <2>3, <2>4, <2>5, <2>6
  <1>8. CASE CancelPayment
    <2> USE <1>8 DEF CancelPayment
    <2>1. LoopType' BY ClearFacts DEF Command, LoopType, States, Points, Pages
    <2>2. SetType' BY CashFacts DEF Command, CloseCashSystem, SetType
    <2>3. CartType' BY ClearFacts, NothingType DEF Command, CartType
    <2>4. MoneyType' BY CashFacts, ClearFacts DEF Command, CloseCashSystem, MoneyType
    <2>5. AccType' BY DEF Command, AccType
    <2>6. ArmOK' BY DEF Command, ArmOK
    <2> QED BY <2>1, <2>2, <2>3, <2>4, <2>5, <2>6
  <1>9. CASE bill_print
    <2> USE <1>9 DEF bill_print
    <2>1. LoopType' BY DEF Command, LoopType, Pages
    <2>2. SetType' BY DEF Command, SetType
    <2>3. CartType' BY DEF Command, CartType
    <2>4. MoneyType' BY DEF Command, MoneyType
    <2>5. AccType' BY DEF Command, AccType
    <2>6. ArmOK' BY DEF Command, ArmOK
    <2> QED BY <2>1, <2>2, <2>3, <2>4, <2>5, <2>6
  <1> QED BY <1>1, <1>2, <1>3, <1>4, <1>5, <1>6, <1>7, <1>8, <1>9 DEF ScreenCommand

(* The keys a page offers send frames of the screen. *)
LEMMA OfferFrames == \A f \in Offers(page) : f \in Frames
  <1>1. ASSUME NEW k \in Kinds PROVE 0..(Stock0[k] + 1) \subseteq Nat BY Tables
  <1>2. Counts \subseteq Nat BY <1>1 DEF Counts
  <1>3. ASSUME NEW f \in Keys PROVE f \in Frames
    <2>1. CASE f \in [adr : {"meal_choose"}, id : Kinds, n : {0}] BY <2>1 DEF Frames
    <2>2. CASE f \in [adr : {"meal_cnt", "column_count"}, id : Kinds, n : Counts]
      BY <1>2, <2>2 DEF Frames
    <2>3. CASE f \in [adr : {"mealcnt_choose"}, id : {0}, n : 2..4] BY <2>3 DEF Frames
    <2>4. CASE f \in [adr : {"payment_method"}, id : {0}, n : 1..4] BY <2>4 DEF Frames
    <2>5. CASE f \in [adr : {"bill_print"}, id : {0}, n : {1}] BY <2>5 DEF Frames
    <2> QED BY <2>1, <2>2, <2>3, <2>4, <2>5 DEF Keys
  <1> QED BY <1>3 DEF Offers

(* Customer, technician and administrator keep the types. *)
LEMMA TypedPeople == Typed /\ People => Typed'
  <1> SUFFICES ASSUME Typed, People PROVE Typed'
      OBVIOUS
  <1> USE DEF Typed, TypeOK, loop, times, cart, pay, back, cash
  <1>1. ASSUME NEW f \in Offers(page), Touch(f) PROVE Typed'
    <2> USE <1>1 DEF Touch
    <2>1. f \in Frames BY OfferFrames
    <2>2. taps' \in Seq(Frames) BY <2>1, AppendProperties DEF LoopType
    <2>3. LoopType' BY <2>2 DEF LoopType
    <2>4. SetType' /\ CartType' BY DEF SetType, CartType
    <2>5. MoneyType' BY DEF MoneyType
    <2>6. AccType' /\ ArmOK' BY DEF AccType, ArmOK
    <2> QED BY <2>3, <2>4, <2>5, <2>6
  <1>2. CASE Refill
    <2> USE <1>2 DEF Refill
    <2>1. LoopType' /\ SetType' /\ CartType' BY DEF LoopType, SetType, CartType
    <2>2. MoneyType' BY Numbers DEF MoneyType
    <2>3. AccType' /\ ArmOK' BY DEF AccType, ArmOK
    <2> QED BY <2>1, <2>2, <2>3
  <1>3. CASE AdminClears
    <2> USE <1>3, ClearFacts DEF AdminClears, Reported
    <2>1. LoopType' BY DEF LoopType, States, Places
    <2>2. SetType' BY DEF SetType
    <2>3. CartType' BY NothingType DEF CartType
    <2>4. MoneyType' BY DEF MoneyType
    <2>5. AccType' BY DEF AccType
    <2>6. ArmOK' BY DEF ArmOK
    <2> QED BY <2>1, <2>2, <2>3, <2>4, <2>5, <2>6
  <1>4. CASE AdminLeaves
    <2> USE <1>4 DEF AdminLeaves
    <2>1. LoopType' BY DEF LoopType, Pages
    <2>2. SetType' /\ CartType' BY DEF SetType, CartType
    <2>3. MoneyType' BY DEF MoneyType
    <2>4. AccType' /\ ArmOK' BY DEF AccType, ArmOK
    <2> QED BY <2>1, <2>2, <2>3, <2>4
  <1> QED BY <1>1, <1>2, <1>3, <1>4 DEF People

(* The rest of the main loop keeps the types. *)
LEMMA TypedLoop == Typed /\ (DealDone \/ Idle) => Typed'
  <1> SUFFICES ASSUME Typed, DealDone \/ Idle PROVE Typed'
      OBVIOUS
  <1> USE DEF Typed, TypeOK, loop, times, cart, pay, back, cash
  <1>1. CASE DealDone
    <2> USE <1>1 DEF DealDone
    <2>1. LoopType' BY DEF LoopType, Places
    <2>2. SetType' /\ CartType' BY DEF SetType, CartType
    <2>3. MoneyType' BY DEF MoneyType
    <2>4. AccType' /\ ArmOK' BY DEF AccType, ArmOK
    <2> QED BY <2>1, <2>2, <2>3, <2>4
  <1>2. CASE Idle
    <2> USE <1>2 DEF Idle
    <2>1. LoopType' BY DEF LoopType, Places, Pages
    <2>2. SetType' /\ CartType' BY DEF In, SetType, CartType
    <2>3. MoneyType' BY Numbers DEF MoneyType
    <2>4. AccType' /\ ArmOK' BY DEF In, AccType, ArmOK
    <2> QED BY <2>1, <2>2, <2>3, <2>4
  <1> QED BY <1>1, <1>2

(* So does a step that changes nothing. *)
LEMMA TypedStutter == Typed /\ UNCHANGED vars => Typed'
  <1> SUFFICES ASSUME Typed, UNCHANGED vars PROVE Typed'
      OBVIOUS
  <1> USE DEF vars, loop, times, cart, pay, back, cash
  <1>1. LoopType' /\ SetType' BY DEF Typed, TypeOK, LoopType, SetType
  <1>2. CartType' /\ AccType' BY DEF Typed, TypeOK, CartType, AccType
  <1>3. MoneyType' BY DEF Typed, TypeOK, MoneyType
  <1>4. ArmOK' BY DEF Typed, ArmOK
  <1> QED BY <1>1, <1>2, <1>3, <1>4 DEF Typed, TypeOK

(* In every run, for every customer, every table of prices and stocks and  *)
(* every hopper, the variables keep their types.  In particular the counts *)
(* of a cart and of the stock, which WaitMeal counts down, never fall      *)
(* below zero, and MealID names a kind or none.                            *)
THEOREM Typing == Spec => []TypeOK
  <1>1. Typed /\ [Next]_vars => Typed'
    BY TypedScreen, TypedLoop, TypedWait, TypedServe, TypedInterrupt, TypedPeople, TypedStutter
       DEF Next, MainLoop
  <1>2. Typed => TypeOK BY DEF Typed
  <1> QED BY TypedInit, <1>1, <1>2, PTL DEF Spec
=============================================================================
