---------------------------- MODULE LedgerProofs ----------------------------
(***************************************************************************)
(* The money of Sale: MoneyInv of SaleInv is inductive, and the ledger and *)
(* what follows from it hold in every run.  First what sums over the cart  *)
(* do, then what a waiting frame says of the page, then one lemma for each *)
(* group of actions, with one step for each action and each conjunct of    *)
(* MoneyInv.                                                               *)
(***************************************************************************)
EXTENDS SaleProofs

(* What the invariant consists of, with the one part of Typed it does not name. *)
LEMMA FromMoneyInv ==
  MoneyInv => /\ Typed
          /\ TapsOK /\ PlaceOK /\ PageOK /\ CashOK /\ CartOK /\ ClearedOK /\ PointOK /\ PaidOK
          /\ Ledger
  <1> SUFFICES ASSUME MoneyInv PROVE ArmOK
      BY DEF MoneyInv, Typed
  <1> QED BY Tables DEF ArmOK, MoneyInv, PaidOK

(* The value of a cart is a natural. *)
LEMMA ValueNat == ASSUME NEW cnt \in [Kinds -> Nat] PROVE Value(cnt) \in Nat
  <1>1. \A k \in Kinds : Price[k] \in Nat /\ cnt[k] \in Nat BY Tables
  <1>2. \A k \in Kinds : cnt[k] * Price[k] \in Nat BY <1>1
  <1> QED BY <1>2 DEF Value, Kinds

(* An empty cart is worth nothing. *)
LEMMA ValueNothing == Value(Nothing) = 0
  <1>1. \A k \in Kinds : Price[k] \in Nat /\ Nothing[k] = 0 BY Tables DEF Nothing
  <1>2. \A k \in Kinds : Nothing[k] * Price[k] = 0 BY <1>1
  <1> QED BY <1>2 DEF Value, Kinds

(* Lowering one cost by d lowers the sum by d. *)
LEMMA SumLess ==
  ASSUME NEW m \in [Kinds -> Int], NEW l \in [Kinds -> Int], NEW k \in Kinds, NEW d \in Int,
         \A j \in Kinds : l[j] = IF j = k THEN m[j] - d ELSE m[j]
  PROVE  SumCost(l) = SumCost(m) - d
  <1>1. CASE k = 1 BY <1>1 DEF SumCost, Kinds
  <1>2. CASE k = 2 BY <1>2 DEF SumCost, Kinds
  <1>3. CASE k = 3 BY <1>3 DEF SumCost, Kinds
  <1>4. CASE k = 4 BY <1>4 DEF SumCost, Kinds
  <1> QED BY <1>1, <1>2, <1>3, <1>4 DEF Kinds

(* A cart with one meal less is worth that meal's price less. *)
LEMMA ValueLess ==
  ASSUME NEW cnt \in [Kinds -> Nat], NEW k \in Kinds
  PROVE  Value([j \in Kinds |-> IF j = k THEN cnt[j] - 1 ELSE cnt[j]]) = Value(cnt) - Price[k]
  <1> DEFINE less == [j \in Kinds |-> IF j = k THEN cnt[j] - 1 ELSE cnt[j]]
             m == [j \in Kinds |-> cnt[j] * Price[j]]
             l == [j \in Kinds |-> less[j] * Price[j]]
  <1>1. \A j \in Kinds : Price[j] \in Nat /\ cnt[j] \in Nat BY Tables
  <1>2. \A j \in Kinds : (cnt[j] - 1) * Price[j] = cnt[j] * Price[j] - Price[j] BY <1>1
  <1>3. \A j \in Kinds : l[j] = IF j = k THEN m[j] - Price[k] ELSE m[j] BY <1>2
  <1>4. \A j \in Kinds : cnt[j] * Price[j] \in Int BY <1>1
  <1>5. m \in [Kinds -> Int] BY <1>4
  <1>6. \A j \in Kinds : l[j] \in Int BY <1>1, <1>3, <1>4
  <1>7. l \in [Kinds -> Int] BY <1>6
  <1>8. Value(cnt) = SumCost(m) /\ Value(less) = SumCost(l) BY DEF Value, SumCost, Kinds
  <1> HIDE DEF l, m
  <1>9. Price[k] \in Int BY <1>1
  <1>10. SumCost(l) = SumCost(m) - Price[k] BY <1>3, <1>5, <1>7, <1>9, SumLess, Zenon
  <1> QED BY <1>8, <1>10

(* When each cost is price times count the sum of costs is the cart's value. *)
LEMMA ValueSum ==
  ASSUME NEW cnt \in [Kinds -> Nat], NEW c \in [Kinds -> Nat],
         \A k \in Kinds : c[k] = Price[k] * cnt[k]
  PROVE  SumCost(c) = Value(cnt)
  <1>1. \A k \in Kinds : Price[k] \in Nat /\ cnt[k] \in Nat BY Tables
  <1>2. \A k \in Kinds : c[k] = cnt[k] * Price[k] BY <1>1
  <1> QED BY <1>2 DEF SumCost, Value, Kinds

(* A frame that is executed was the only one, touched on the page shown or on one *)
(* that timer 4 has just left, and its command finds the program shopping.        *)
LEMMA OneFrame ==
  ASSUME TypeOK, TapsOK, NEW adr, Command(adr)
  PROVE  /\ at = "deal" /\ at' = "deal" /\ taps' = <<>>
         /\ Head(taps).adr = adr /\ Head(taps) \in Keys
         /\ \/ OnPage(Head(taps), page)
            \/ page = "Mealout" /\ adr \in {"meal_choose", "bill_print"}
         /\ adr # "bill_print" => Shopping
         /\ adr = "column_count" => CurrentPoint # 9
  <1> USE DEF Command
  <1>1. at = "deal" /\ at' = "deal" BY DEF TapsOK
  <1>2. Len(taps) = 1 /\ taps \in Seq(Frames) BY DEF TapsOK, TypeOK, LoopType
  <1>3. taps' = <<>> BY <1>2, HeadTailProperties, EmptySeq
  <1> QED BY <1>1, <1>3 DEF TapsOK

(* A frame that names a meal names one of the four. *)
LEMMA FrameMeal ==
  ASSUME TypeOK, TapsOK, NEW adr \in {"meal_choose", "meal_cnt", "column_count"}, Command(adr)
  PROVE  Head(taps).id \in Kinds /\ Head(taps).n \in Nat
  <1>1. taps \in Seq(Frames) BY DEF TypeOK, LoopType
  <1> QED BY <1>1, TapsFacts DEF Command

(* A meal is chosen on the menu, or when timer 4 took it away. *)
LEMMA AtMenu ==
  ASSUME TypeOK, TapsOK, Command("meal_choose")
  PROVE  page \in {"Menu", "Mealout"} /\ Shopping
  BY OneFrame DEF OnPage

(* A number is chosen on the page of the meal last chosen. *)
LEMMA AtMeal ==
  ASSUME TypeOK, TapsOK, PageOK, Command("meal_cnt")
  PROVE  page \in MealPages /\ MealID = Head(taps).id /\ Shopping
  <1>1. Head(taps).id \in Kinds BY FrameMeal
  <1>2. MealPage[Head(taps).id] \in MealPages BY <1>1, MealPageFacts
  <1>3. page = MealPage[Head(taps).id] /\ Shopping BY <1>2, OneFrame DEF OnPage, MealPages
  <1> QED BY <1>1, <1>2, <1>3 DEF PageOK

(* The cart is filled from a meal's page. *)
LEMMA AtCartKey ==
  ASSUME TypeOK, TapsOK, Command("mealcnt_choose")
  PROVE  page \in MealPages /\ Shopping
  BY OneFrame DEF OnPage, MealPages

(* A number is changed on the account page before the settlement. *)
LEMMA AtAccount ==
  ASSUME TypeOK, TapsOK, Command("column_count")
  PROVE  page = "Acount" /\ CurrentPoint # 9
  BY OneFrame DEF OnPage

(* The way to pay is chosen on one of the two account pages. *)
LEMMA AtPayment ==
  ASSUME TypeOK, TapsOK, Command("payment_method")
  PROVE  page \in {"Acount", "Acount2"} /\ Shopping
  BY OneFrame DEF OnPage

(* A ticket is asked for on its page, or when timer 4 took it away. *)
LEMMA AtTicket ==
  ASSUME TypeOK, TapsOK, Command("bill_print")
  PROVE  page \in {"TicketPrint", "Mealout"}
  BY OneFrame DEF OnPage

(* A step that leaves the screen and the shopping alone leaves the frames' invariant. *)
LEMMA TapsKept ==
  ASSUME TapsOK, taps' = taps, DispMeal' = DispMeal, CurrentPoint' = CurrentPoint, at' = at,
         Shopping => Shopping',
         page' = page \/ (page' = "Mealout" /\ page \notin PayPages \cup MealPages)
  PROVE  TapsOK'
  <1> SUFFICES ASSUME taps # <<>> PROVE TapsOK'
      BY DEF TapsOK
  <1>1. Head(taps).adr = "meal_cnt" => MealPage[Head(taps).id] \in MealPages
    BY MealPageFacts DEF TapsOK, Keys
  <1> QED BY <1>1 DEF TapsOK, OnPage, PayPages, MealPages, Shopping

(* Without the habit of dawdling no countdown expires on a meal's page. *)
LEMMA PatientCount ==
  Orderly /\ CountDown => WaitTime > 0 /\ WaitTime' = WaitTime - 1
                            /\ (page \in MealPages => WaitTime > 1)
  BY DEF Orderly, CountDown

(* The value of the cart in the next state, written as one of the next cart. *)
LEMMA ValuePrime == Value(MealCnt)' = Value(MealCnt')
  BY DEF Value

(* While money is awaited PayAlready is a natural. *)
LEMMA OwedNat == TypeOK /\ PaidOK /\ Current = "waitfor_money" => PayAlready \in Nat
  BY DEF TypeOK, MoneyType, PaidOK

(* All sides of the ledger are integers. *)
LEMMA LedgerTypes ==
  TypeOK => /\ inserted \in Int /\ refunded \in Int /\ delivered \in Int /\ kept \in Int
            /\ Uncounted \in Int /\ Credit \in Int /\ Owed \in Int /\ MealsOwed \in Int
  <1> SUFFICES ASSUME TypeOK
               PROVE  /\ inserted \in Int /\ refunded \in Int /\ delivered \in Int /\ kept \in Int
                      /\ Uncounted \in Int /\ Credit \in Int /\ Owed \in Int /\ MealsOwed \in Int
      OBVIOUS
  <1>1. Value(MealCnt) \in Nat BY ValueNat DEF TypeOK, CartType
  <1>2. Uncounted \in Int BY DEF TypeOK, MoneyType, AccType, Uncounted
  <1>3. Credit \in Int /\ Owed \in Int BY DEF TypeOK, MoneyType, Credit, Owed
  <1>4. MealsOwed \in Int BY <1>1 DEF MealsOwed
  <1> QED BY <1>2, <1>3, <1>4 DEF TypeOK, MoneyType

(* The sums over an empty cart. *)
LEMMA NothingFacts ==
  /\ \A k \in Kinds : Nothing[k] = 0 /\ Price[k] * Nothing[k] = 0
  /\ Value(Nothing) = 0 /\ SumCost(Nothing) = 0
  <1>1. \A k \in Kinds : Price[k] \in Nat /\ Nothing[k] = 0 BY Tables DEF Nothing
  <1>2. SumCost(Nothing) = 0 BY DEF SumCost, Nothing, Kinds
  <1> QED BY <1>1, <1>2, ValueNothing

(* A page that is no meal's page is not the page of any kind. *)
LEMMA OffMealPage == \A p : p \notin MealPages => \A k \in Kinds : p # MealPage[k]
  BY MealPageFacts

(* A cart without meals is worth nothing. *)
LEMMA NoMeals ==
  ASSUME NEW cnt \in [Kinds -> Nat], Meals(cnt) = 0
  PROVE  Value(cnt) = 0
  <1>1. \A k \in Kinds : cnt[k] = 0
    <2>1. PICK a \in Nat, b \in Nat, c \in Nat, d \in Nat :
             a = cnt[1] /\ b = cnt[2] /\ c = cnt[3] /\ d = cnt[4]
      BY DEF Kinds
    <2>2. a + b + c + d = 0 BY <2>1 DEF Meals
    <2>3. a = 0 /\ b = 0 /\ c = 0 /\ d = 0 BY <2>2
    <2>4. cnt[1] = 0 /\ cnt[2] = 0 /\ cnt[3] = 0 /\ cnt[4] = 0 BY <2>1, <2>3
    <2>5. \A k \in Kinds : k = 1 \/ k = 2 \/ k = 3 \/ k = 4 BY DEF Kinds
    <2> QED BY <2>4, <2>5
  <1>2. \A k \in Kinds : Price[k] \in Nat BY Tables
  <1>3. \A k \in Kinds : cnt[k] * Price[k] = 0 BY <1>1, <1>2
  <1> QED BY <1>3 DEF Value, Kinds

(* A remainder is a natural no larger than what it was taken of. *)
LEMMA ModFacts == \A n \in Nat : n % ByteMod \in Nat /\ n % ByteMod <= n
  BY Numbers

(* Two kinds have two pages. *)
LEMMA MealPageOne == \A j, k \in Kinds : MealPage[j] = MealPage[k] => j = k
  BY DEF MealPage, Kinds

(* A meal's page shows the meal last chosen. *)
LEMMA OnMealPage ==
  ASSUME PageOK, page \in MealPages
  PROVE  MealID \in Kinds /\ page = MealPage[MealID]
  <1>1. PICK k \in Kinds : page = MealPage[k] BY DEF MealPages, MealPage, Kinds
  <1>2. MealID = k BY <1>1 DEF PageOK
  <1> QED BY <1>1, <1>2

(* A stock small enough keeps the 8-bit product of GetMealPrice exact. *)
LEMMA NoOverflow ==
  ASSUME Orderly, NEW k \in Kinds, NEW n \in Nat, n <= Stock0[k]
  PROVE  GetMealPrice(k, n) = Price[k] * n
  <1>1. Price[k] \in Nat /\ Stock0[k] \in Nat BY Tables
  <1>2. Price[k] * Stock0[k] < CharMod BY DEF Orderly
  <1>3. Price[k] * n <= Price[k] * Stock0[k] /\ Price[k] * n \in Nat BY <1>1
  <1>4. \A m, c \in Nat : m < c => m % c = m OBVIOUS
  <1>5. Price[k] * n < CharMod /\ CharMod \in Nat BY <1>1, <1>2, <1>3, Numbers
  <1>6. (Price[k] * n) % CharMod = Price[k] * n BY <1>3, <1>4, <1>5
  <1> QED BY <1>6 DEF GetMealPrice

(* PutIntoShopCart leaves counts within the stock and costs that are price times count. *)
LEMMA CartFilled ==
  ASSUME Orderly, TypeOK, PageOK, CartOK, page \in MealPages, Shopping, PutIntoShopCart
  PROVE  /\ MealCnt' \in [Kinds -> Nat] /\ MealCost' \in [Kinds -> Nat]
         /\ \A k \in Kinds : MealCnt'[k] <= Stock0[k] /\ MealCost'[k] = Price[k] * MealCnt'[k]
  <1> DEFINE n == MealCnt_t[MealID]
  <1>1. MealID \in Kinds /\ page = MealPage[MealID] BY OnMealPage
  <1>2. n \in Nat /\ n <= Stock0[MealID] BY <1>1 DEF CartOK, TypeOK, CartType
  <1>3. GetMealPrice(MealID, n) = Price[MealID] * n BY <1>1, <1>2, NoOverflow
  <1>4. /\ MealCnt' = [MealCnt EXCEPT ![MealID] = n]
        /\ MealCost' = [MealCost EXCEPT ![MealID] = Price[MealID] * n]
    BY <1>1, <1>3 DEF PutIntoShopCart, CartWith
  <1>5. \A k \in Kinds \ {MealID} : page # MealPage[k] BY <1>1, MealPageOne
  <1>6. ASSUME NEW k \in Kinds
        PROVE  MealCnt'[k] <= Stock0[k] /\ MealCost'[k] = Price[k] * MealCnt'[k]
    <2>1. CASE k = MealID BY <1>1, <1>2, <1>4, <2>1 DEF TypeOK, CartType
    <2>2. CASE k # MealID
      <3>1. MealCnt'[k] = MealCnt[k] /\ MealCost'[k] = MealCost[k]
        BY <1>1, <1>4, <2>2 DEF TypeOK, CartType
      <3> QED BY <1>5, <2>2, <3>1 DEF CartOK
    <2> QED BY <2>1, <2>2
  <1>7. MealCnt' \in [Kinds -> Nat] /\ MealCost' \in [Kinds -> Nat] BY CartNat DEF TypeOK
  <1> QED BY <1>6, <1>7

(* Without frames their invariant holds. *)
LEMMA TapsGone == taps' = <<>> => TapsOK'
  BY DEF TapsOK

(* Coins, notes and timers keep the invariant.  Timer 3 clears the customer's data *)
(* only when no money is in.                                                       *)
LEMMA InvInterrupt == Orderly /\ MoneyInv /\ Interrupt => MoneyInv'
  <1> SUFFICES ASSUME Orderly, MoneyInv, Interrupt PROVE MoneyInv'
      OBVIOUS
  <1> USE DEF loop, times, cart, pay, back, cash, Shopping
  <1>1. TypeOK' BY FromMoneyInv, TypedInterrupt DEF Typed
  <1>2. /\ TypeOK /\ TapsOK /\ PlaceOK /\ PageOK /\ CashOK
        /\ CartOK /\ ClearedOK /\ PointOK /\ PaidOK /\ Ledger
    BY DEF MoneyInv
  <1>3. CASE CoinIn
    <2> USE <1>2, <1>3 DEF CoinIn
    <2>1. TapsOK' BY TapsKept
    <2>2. PlaceOK' BY DEF PlaceOK
    <2>3. PageOK' BY DEF PageOK, MealPages
    <2>4. CashOK' BY DEF CashOK
    <2>5. CartOK' BY DEF CartOK
    <2>6. ClearedOK' BY DEF PlaceOK, CashOK, ClearedOK, PointOK
    <2>7. PointOK' BY DEF PointOK, MoneyType, TypeOK
    <2>8. PaidOK' BY DEF TypeOK, MoneyType, PlaceOK, CashOK, PaidOK
    <2>9. Ledger'
      <3>1. Current # "current_temperature" BY DEF CashOK, PlaceOK
      <3>2. Credit' = IF Current = "waitfor_money" THEN Credit + 1 ELSE Credit
        BY <3>1 DEF Credit, TypeOK, MoneyType
      <3>3. Uncounted' = Uncounted /\ Owed' = Owed /\ MealsOwed' = MealsOwed
        BY DEF Uncounted, Owed, MealsOwed, Serving, Value
      <3> QED BY <3>2, <3>3, LedgerTypes DEF Ledger
    <2> QED BY <1>1, <2>1, <2>2, <2>3, <2>4, <2>5, <2>6, <2>7, <2>8, <2>9 DEF MoneyInv
  <1>4. ASSUME NEW v \in Bills, BillIn(v) PROVE MoneyInv'
    <2> USE <1>2, <1>4 DEF BillIn
    <2>1. TapsOK' BY TapsKept
    <2>2. PlaceOK' BY DEF PlaceOK
    <2>3. PageOK' BY DEF PageOK, MealPages
    <2>4. CashOK' BY DEF CashOK
    <2>5. CartOK' BY DEF CartOK
    <2>6. ClearedOK' BY DEF ClearedOK, Cleared, PayPages
    <2>7. PointOK' BY DEF PointOK
    <2>8. PaidOK' BY DEF PaidOK, MoneyType, TypeOK
    <2>9. Ledger'
      <3>1. Uncounted' = Uncounted + v - bill
        BY Numbers DEF Uncounted, TypeOK, MoneyType, AccType
      <3>2. Credit' = Credit /\ Owed' = Owed /\ MealsOwed' = MealsOwed
        BY DEF Credit, Owed, MealsOwed, Serving, Value
      <3> QED BY <3>1, <3>2, LedgerTypes, Numbers DEF Ledger, TypeOK, MoneyType
    <2> QED BY <1>1, <2>1, <2>2, <2>3, <2>4, <2>5, <2>6, <2>7, <2>8, <2>9 DEF MoneyInv
  <1>5. ASSUME Tick3, CountDown, UNCHANGED <<timers, cart, pay>> PROVE MoneyInv'
    <2> USE <1>2, <1>5 DEF Tick3
    <2>1. TapsOK' BY TapsKept
    <2>2. PlaceOK' BY DEF PlaceOK
    <2>3. PageOK' BY PatientCount DEF TypeOK, MoneyType, PageOK
    <2>4. CashOK' BY DEF CashOK
    <2>5. CartOK' BY DEF CartOK
    <2>6. ClearedOK' BY DEF ClearedOK, Cleared, PayPages
    <2>7. PointOK' BY DEF PointOK
    <2>8. PaidOK' BY DEF PaidOK
    <2>9. Ledger'
      <3>1. Uncounted' = Uncounted /\ Credit' = Credit /\ Owed' = Owed /\ MealsOwed' = MealsOwed
        BY DEF Uncounted, Credit, Owed, MealsOwed, Serving, Value
      <3> QED BY <3>1, LedgerTypes DEF Ledger
    <2> QED BY <1>1, <2>1, <2>2, <2>3, <2>4, <2>5, <2>6, <2>7, <2>8, <2>9 DEF MoneyInv
  <1>6. ASSUME Tick3, WaitTime = 0, timers' = timers \ {3}, ClearUserBuffer, UNCHANGED WaitTime
        PROVE  MoneyInv'
    <2> USE <1>2, <1>6 DEF Tick3
    <2>1. TapsOK' BY TapsKept
    <2>2. PlaceOK' BY DEF PlaceOK
    <2>3. PageOK'
      <3>1. page \notin MealPages /\ page' = page BY DEF PageOK
      <3>2. \A k \in Kinds : page' # MealPage[k] BY <3>1, OffMealPage
      <3> QED BY <3>1, <3>2 DEF PageOK, TypeOK, SetType
    <2>4. CashOK' BY DEF PageOK, CashOK, PointOK
    <2>5. CartOK'
      <3>1. page \notin PayPages /\ page' = page BY DEF PageOK
      <3> QED BY <3>1, ClearFacts, NothingFacts, Tables DEF CartOK, TypeOK, CartType
    <2>6. ClearedOK' BY ClearFacts DEF ClearedOK, Cleared
    <2>7. PointOK' BY ClearFacts DEF PointOK
    <2>8. PaidOK' BY ClearFacts DEF PlaceOK, PageOK, PointOK, PaidOK
    <2>9. Ledger'
      <3>1. PayAlready = 0 /\ PayAlready' = 0 /\ ~Serving /\ ~Serving'
        BY ClearFacts DEF PageOK, ClearedOK, Serving
      <3>2. Credit' = Credit /\ MealsOwed' = MealsOwed
        BY <3>1 DEF Credit, MealsOwed
      <3>3. Uncounted' = Uncounted /\ Owed' = Owed
        BY DEF Uncounted, Owed
      <3> QED BY <3>1, <3>2, <3>3, LedgerTypes DEF Ledger
    <2> QED BY <1>1, <2>1, <2>2, <2>3, <2>4, <2>5, <2>6, <2>7, <2>8, <2>9 DEF MoneyInv
  <1>7. CASE Tick4
    <2> USE <1>2, <1>7 DEF Tick4
    <2>1. TapsOK' BY TapsKept DEF PageOK
    <2>2. PlaceOK' BY DEF PlaceOK, PageOK, PointOK
    <2>3. PageOK' BY MealPageFacts DEF PageOK, PayPages, MealPages
    <2>4. CashOK' BY DEF PageOK, CashOK, PointOK
    <2>5. CartOK' BY MealPageFacts DEF PageOK, CartOK, PayPages
    <2>6. ClearedOK' BY DEF ClearedOK, Cleared, PageOK
    <2>7. PointOK' BY DEF PointOK, PayPages, PlaceOK, PageOK
    <2>8. PaidOK' BY DEF PaidOK
    <2>9. Ledger'
      <3>1. Uncounted' = Uncounted /\ Credit' = Credit /\ Owed' = Owed /\ MealsOwed' = MealsOwed
        BY DEF Uncounted, Credit, Owed, MealsOwed, Serving, Value
      <3> QED BY <3>1, LedgerTypes DEF Ledger
    <2> QED BY <1>1, <2>1, <2>2, <2>3, <2>4, <2>5, <2>6, <2>7, <2>8, <2>9 DEF MoneyInv
  <1>8. CASE Tick7
    <2> USE <1>2, <1>8 DEF Tick7
    <2>1. TapsOK' BY TapsKept
    <2>2. PlaceOK' BY DEF PlaceOK
    <2>3. PageOK' BY PatientCount DEF TypeOK, MoneyType, PageOK
    <2>4. CashOK' BY DEF CashOK
    <2>5. CartOK' BY DEF CartOK
    <2>6. ClearedOK' BY DEF ClearedOK, Cleared, PayPages
    <2>7. PointOK' BY DEF PointOK
    <2>8. PaidOK' BY DEF PaidOK
    <2>9. Ledger'
      <3>1. Uncounted' = Uncounted /\ Credit' = Credit /\ Owed' = Owed /\ MealsOwed' = MealsOwed
        BY DEF Uncounted, Credit, Owed, MealsOwed, Serving, Value
      <3> QED BY <3>1, LedgerTypes DEF Ledger
    <2> QED BY <1>1, <2>1, <2>2, <2>3, <2>4, <2>5, <2>6, <2>7, <2>8, <2>9 DEF MoneyInv
  <1> QED BY <1>3, <1>4, <1>5, <1>6, <1>7, <1>8 DEF Interrupt, Tick3

(* Every step of WaitPayMoney keeps the invariant: cash, cards, settlement, timeout. *)
LEMMA InvWait == Orderly /\ MoneyInv /\ WaitPayMoney => MoneyInv'
  <1> SUFFICES ASSUME Orderly, MoneyInv, WaitPayMoney PROVE MoneyInv'
      OBVIOUS
  <1> USE DEF loop, times, cart, pay, back, cash, Shopping
  <1>1. TypeOK' BY FromMoneyInv, TypedWait DEF Typed
  <1>2. /\ TypeOK /\ TapsOK /\ PlaceOK /\ PageOK /\ CashOK
        /\ CartOK /\ ClearedOK /\ PointOK /\ PaidOK /\ Ledger
    BY DEF MoneyInv
  <1>3. CASE AwaitPayment
    <2> USE <1>2, <1>3 DEF AwaitPayment
    <2>1. TapsOK' BY DEF In, TapsOK
    <2>2. PlaceOK' BY DEF In, PlaceOK
    <2>3. PageOK' BY DEF In, PageOK
    <2>4. CashOK' BY DEF In, CashOK
    <2>5. CartOK' BY DEF CartOK, PayPages
    <2>6. ClearedOK' BY DEF In, ClearedOK
    <2>7. PointOK' BY DEF In, TypeOK, MoneyType, PointOK
    <2>8. PaidOK' BY DEF PaidOK
    <2>9. Ledger'
      <3>1. Uncounted' = Uncounted /\ Credit' = Credit /\ Owed' = Owed /\ MealsOwed' = MealsOwed
        BY DEF In, Uncounted, Credit, Owed, MealsOwed, Serving, Value
      <3> QED BY <3>1, LedgerTypes DEF In, Ledger
    <2> QED BY <1>1, <2>1, <2>2, <2>3, <2>4, <2>5, <2>6, <2>7, <2>8, <2>9 DEF MoneyInv
  <1>4. CASE ReadBills
    <2> USE <1>2, <1>4 DEF ReadBills
    <2>1. TapsOK' BY DEF Point, In, TapsOK
    <2>2. PlaceOK' BY DEF Point, In, PlaceOK, CashOK
    <2>3. PageOK' BY DEF In, PageOK
    <2>4. CashOK' BY DEF Point, In, CashOK
    <2>5. CartOK' BY DEF CartOK, PayPages
    <2>6. ClearedOK' BY DEF In, ClearedOK, PayPages, Cleared
    <2>7. PointOK' BY DEF Point, In, PointOK, PayPages
    <2>8. PaidOK' BY DEF PaidOK, TypeOK, MoneyType
    <2>9. Ledger'
      <3>1. Uncounted' = Uncounted BY DEF Point, In, Uncounted, TypeOK, MoneyType
      <3>2. Credit' = Credit /\ Owed' = Owed /\ MealsOwed' = MealsOwed
        BY DEF Point, In, Credit, Owed, MealsOwed, Serving, Value
      <3> QED BY <3>1, <3>2, LedgerTypes DEF Ledger
    <2> QED BY <1>1, <2>1, <2>2, <2>3, <2>4, <2>5, <2>6, <2>7, <2>8, <2>9 DEF MoneyInv
  <1>5. CASE BillsRead
    <2> USE <1>2, <1>5 DEF BillsRead
    <2>1. TapsOK' BY DEF TapsOK
    <2>2. PlaceOK' BY DEF PlaceOK
    <2>3. PageOK' BY DEF PageOK, MealPages
    <2>4. CashOK' BY DEF PlaceOK, CashOK
    <2>5. CartOK' BY DEF CartOK
    <2>6. ClearedOK' BY DEF ClearedOK, PayPages, Cleared
    <2>7. PointOK' BY DEF PlaceOK, PointOK, PayPages
    <2>8. PaidOK'
      <3>1. PayAlready >= 0 /\ acc[2] >= 0 /\ kept + bill >= 0
        BY DEF PaidOK, TypeOK, MoneyType
      <3>2. PayAlready \in Nat BY <3>1 DEF TypeOK, MoneyType
      <3> QED BY <3>1, <3>2 DEF PaidOK, PlaceOK
    <2>9. Ledger'
      <3>1. Uncounted = bill + acc[2] /\ Uncounted' = acc[2]
        BY DEF Uncounted, TypeOK, MoneyType, AccType
      <3>2. Credit' = Credit /\ Owed' = Owed /\ MealsOwed' = MealsOwed
        BY DEF Credit, Owed, MealsOwed, Serving, Value
      <3>3. kept' = kept + bill /\ UNCHANGED <<inserted, refunded, delivered>> OBVIOUS
      <3> QED BY <3>1, <3>2, <3>3, LedgerTypes DEF Ledger, TypeOK, MoneyType, AccType
    <2> QED BY <1>1, <2>1, <2>2, <2>3, <2>4, <2>5, <2>6, <2>7, <2>8, <2>9 DEF MoneyInv
  <1>6. CASE AddBill
    <2> USE <1>2, <1>6 DEF AddBill
    <2>1. TapsOK' BY DEF TapsOK
    <2>2. PlaceOK' BY DEF PlaceOK
    <2>3. PageOK' BY DEF PageOK, MealPages
    <2>4. CashOK' BY DEF PlaceOK, PageOK, CashOK
    <2>5. CartOK' BY DEF CartOK
    <2>6. ClearedOK' BY DEF PlaceOK, ClearedOK, PayPages
    <2>7. PointOK' BY DEF PlaceOK, PageOK, PointOK, PayPages
    <2>8. PaidOK' BY DEF TypeOK, MoneyType, AccType, PaidOK
    <2>9. Ledger'
      <3>1. Current = "waitfor_money" /\ acc[1] \in Int /\ acc[2] \in Int
        BY DEF PlaceOK, TypeOK, AccType
      <3>2. Uncounted' = Uncounted - acc[2]
        BY <3>1 DEF Uncounted, TypeOK, MoneyType
      <3>3. Credit = PayAlready /\ Credit' = acc[1] + acc[2]
        BY <3>1 DEF Credit
      <3>4. Owed' = Owed /\ MealsOwed' = MealsOwed
        BY DEF Owed, MealsOwed, Serving, Value
      <3> QED BY <3>1, <3>2, <3>3, <3>4, LedgerTypes DEF Ledger, TypeOK, MoneyType
    <2> QED BY <1>1, <2>1, <2>2, <2>3, <2>4, <2>5, <2>6, <2>7, <2>8, <2>9 DEF MoneyInv
  <1>7. CASE AskForCard
    <2> USE <1>2, <1>7 DEF AskForCard
    <2>1. TapsOK' BY DEF In, TapsOK
    <2>2. PlaceOK' BY DEF In, PlaceOK
    <2>3. PageOK'
      <3>1. page' \notin MealPages BY DEF In, MealPages
      <3>2. \A k \in Kinds : page' # MealPage[k] BY <3>1, OffMealPage
      <3> QED BY <3>1, <3>2, Numbers DEF In, PageOK, PayPages, MealPages, TypeOK, SetType,
           PlaceOK, MoneyType, PointOK
    <2>4. CashOK' BY DEF In, CashOK
    <2>5. CartOK'
      <3>1. page \notin MealPages BY DEF In, PlaceOK, PointOK, PayPages, MealPages
      <3>2. \A k \in Kinds : page # MealPage[k] BY <3>1, OffMealPage
      <3> QED BY <3>1, <3>2 DEF In, CartOK, PlaceOK, PointOK, PayPages, Value
    <2>6. ClearedOK' BY DEF In, ClearedOK, PayPages, Cleared
    <2>7. PointOK' BY DEF PointOK, PayPages
    <2>8. PaidOK' BY DEF TypeOK, MoneyType, PointOK, PaidOK
    <2>9. Ledger'
      <3>1. Uncounted' = Uncounted /\ Credit' = Credit /\ Owed' = Owed /\ MealsOwed' = MealsOwed
        BY DEF In, Uncounted, Credit, Owed, MealsOwed, Serving, Value
      <3> QED BY <3>1, LedgerTypes DEF In, Ledger
    <2> QED BY <1>1, <2>1, <2>2, <2>3, <2>4, <2>5, <2>6, <2>7, <2>8, <2>9 DEF MoneyInv
  <1>8. CASE CardPaid
    <2> USE <1>2, <1>8 DEF CardPaid
    <2>1. TapsOK' BY DEF TapsOK
    <2>2. PlaceOK' BY DEF PlaceOK
    <2>3. PageOK' BY DEF PageOK, MealPages
    <2>4. CashOK' BY DEF PlaceOK, PageOK, CashOK
    <2>5. CartOK' BY DEF CartOK
    <2>6. ClearedOK' BY DEF PlaceOK, ClearedOK, PayPages
    <2>7. PointOK' BY DEF TypeOK, MoneyType, PlaceOK, PointOK
    <2>8. PaidOK'
      <3>1. acc[2] = PayShould - PayAlready BY DEF PaidOK
      <3>2. PayForCards' >= 0 /\ PayAlready' >= 0 /\ kept' >= 0
        BY <3>1 DEF PaidOK, TypeOK, MoneyType
      <3> QED BY <3>2 DEF PaidOK, PlaceOK
    <2>9. Ledger'
      <3>1. Current = "waitfor_money" /\ acc[2] = PayShould - PayAlready
        BY DEF PlaceOK, PaidOK
      <3>2. Credit = PayAlready /\ Credit' = PayShould
        BY <3>1 DEF Credit
      <3>3. Uncounted' = Uncounted /\ Owed' = Owed /\ MealsOwed' = MealsOwed
        BY DEF Uncounted, Owed, MealsOwed, Serving, Value
      <3> QED BY <3>1, <3>2, <3>3, LedgerTypes, SMTT(30) DEF Ledger, TypeOK, MoneyType
    <2> QED BY <1>1, <2>1, <2>2, <2>3, <2>4, <2>5, <2>6, <2>7, <2>8, <2>9 DEF MoneyInv
  <1>9. CASE CardFails
    <2> USE <1>2, <1>9 DEF CardFails
    <2>1. TapsOK' BY DEF TapsOK
    <2>2. PlaceOK' BY DEF PlaceOK
    <2>3. PageOK'
      <3>1. page' \notin MealPages BY DEF MealPages
      <3>2. \A k \in Kinds : page' # MealPage[k] BY <3>1, OffMealPage
      <3> QED BY <3>1, <3>2 DEF PageOK, PayPages, MealPages, TypeOK, SetType, PlaceOK
    <2>4. CashOK' BY DEF PlaceOK, PageOK, CashOK
    <2>5. CartOK'
      <3>1. page \notin MealPages BY DEF PlaceOK, PointOK, PayPages, MealPages
      <3>2. \A k \in Kinds : page # MealPage[k] BY <3>1, OffMealPage
      <3> QED BY <3>1, <3>2 DEF CartOK, PlaceOK, PointOK, PayPages, Value
    <2>6. ClearedOK' BY DEF ClearedOK, PayPages, Cleared
    <2>7. PointOK' BY DEF PointOK, PaidOK, PayPages
    <2>8. PaidOK' BY DEF TypeOK, MoneyType, PaidOK
    <2>9. Ledger'
      <3>1. PICK n \in {0, acc[2]} : inserted' = inserted + n /\ kept' = kept + n
        OBVIOUS
      <3>2. n \in Int
        BY DEF TypeOK, AccType
      <3>3. Uncounted' = Uncounted /\ Credit' = Credit /\ Owed' = Owed /\ MealsOwed' = MealsOwed
        BY DEF Uncounted, Credit, Owed, MealsOwed, Serving, Value
      <3>4. UNCHANGED <<refunded, delivered>>
        OBVIOUS
      <3> HIDE <1>9 DEF CardFails
      <3> QED BY <3>1, <3>2, <3>3, <3>4, LedgerTypes DEF Ledger
    <2> QED BY <1>1, <2>1, <2>2, <2>3, <2>4, <2>5, <2>6, <2>7, <2>8, <2>9 DEF MoneyInv
  <1>10. CASE Settle
    <2> USE <1>2, <1>10 DEF Settle
    <2>1. TapsOK' BY DEF Point, In, TapsOK
    <2>2. PlaceOK' BY DEF PlaceOK
    <2>3. PageOK'
      <3>1. page' \notin MealPages BY DEF Point, In, MealPages
      <3>2. \A k \in Kinds : page' # MealPage[k] BY <3>1, OffMealPage
      <3> QED BY <3>1, <3>2 DEF Point, In, PageOK, PayPages, MealPages, TypeOK, SetType, PlaceOK
    <2>4. CashOK' BY DEF Point, In, CashOK
    <2>5. CartOK' BY DEF CartOK, PayPages
    <2>6. ClearedOK' BY DEF ClearedOK
    <2>7. PointOK' BY DEF PointOK, PayPages
    <2>8. PaidOK' BY DEF Point, TypeOK, MoneyType, PointOK, PaidOK
    <2>9. Ledger'
      <3>1. PayShould = Value(MealCnt)
        BY DEF Point, In, PointOK, CartOK
      <3>2. Credit = PayAlready /\ Credit' = 0
        BY DEF Point, In, Credit
      <3>3. Owed = 0 /\ Owed' = PayAlready - PayShould
        BY DEF Point, In, Owed
      <3>4. MealsOwed = 0 /\ MealsOwed' = PayShould
        BY <3>1 DEF Point, In, MealsOwed, Serving, Value
      <3>5. Uncounted' = Uncounted
        BY DEF Point, In, Uncounted
      <3> QED BY <3>1, <3>2, <3>3, <3>4, <3>5, LedgerTypes DEF Point, In, Ledger, TypeOK,
           MoneyType
    <2> QED BY <1>1, <2>1, <2>2, <2>3, <2>4, <2>5, <2>6, <2>7, <2>8, <2>9 DEF MoneyInv
  <1>11. CASE CloseAfterCash
    <2> USE <1>2, <1>11 DEF CloseAfterCash
    <2>1. TapsOK' BY DEF TapsOK
    <2>2. PlaceOK' BY DEF PlaceOK
    <2>3. PageOK' BY DEF PageOK, MealPages
    <2>4. CashOK' BY CashFacts DEF CloseCashSystem, CashOK
    <2>5. CartOK' BY DEF CartOK
    <2>6. ClearedOK' BY DEF ClearedOK, PayPages, Cleared
    <2>7. PointOK' BY DEF PointOK
    <2>8. PaidOK' BY CashFacts DEF CloseCashSystem, TypeOK, MoneyType, PaidOK
    <2>9. Ledger'
      BY CashFacts DEF CloseCashSystem, Ledger, Uncounted, Credit, Owed, MealsOwed, Serving,
           MoneyType, TypeOK
    <2> QED BY <1>1, <2>1, <2>2, <2>3, <2>4, <2>5, <2>6, <2>7, <2>8, <2>9 DEF MoneyInv
  <1>12. CASE WaitMore
    <2> USE <1>2, <1>12 DEF WaitMore
    <2>1. TapsOK' BY DEF TapsOK
    <2>2. PlaceOK' BY DEF PlaceOK
    <2>3. PageOK' BY DEF PageOK, MealPages
    <2>4. CashOK' BY DEF CashOK
    <2>5. CartOK' BY DEF CartOK
    <2>6. ClearedOK' BY DEF ClearedOK, PayPages, Cleared
    <2>7. PointOK' BY DEF PointOK
    <2>8. PaidOK' BY DEF PaidOK
    <2>9. Ledger'
      <3>1. Uncounted' = Uncounted /\ Credit' = Credit /\ Owed' = Owed /\ MealsOwed' = MealsOwed
        BY DEF Uncounted, Credit, Owed, MealsOwed, Serving, Value
      <3> QED BY <3>1, LedgerTypes DEF Ledger
    <2> QED BY <1>1, <2>1, <2>2, <2>3, <2>4, <2>5, <2>6, <2>7, <2>8, <2>9 DEF MoneyInv
  <1>13. CASE PayTimeout
    <2> USE <1>2, <1>13 DEF PayTimeout
    <2>1. TapsOK' BY DEF TapsOK
    <2>2. PlaceOK' BY DEF PlaceOK
    <2>3. PageOK'
      <3>1. page' \notin MealPages BY DEF CloseCashSystem, MealPages
      <3>2. \A k \in Kinds : page' # MealPage[k] BY <3>1, OffMealPage
      <3> QED BY <3>1, <3>2, CashFacts, ClearFacts DEF CloseCashSystem, PageOK, PayPages,
           MealPages, TypeOK, SetType, PlaceOK, PaidOK, MoneyType, ClearedOK
    <2>4. CashOK' BY CashFacts DEF CloseCashSystem, CashOK
    <2>5. CartOK'
      <3>1. page' \notin PayPages BY DEF PayPages
      <3> QED BY <3>1, ClearFacts, NothingFacts, Tables DEF CartOK, TypeOK, CartType
    <2>6. ClearedOK' BY ClearFacts DEF ClearedOK, Cleared
    <2>7. PointOK' BY ClearFacts DEF PointOK
    <2>8. PaidOK' BY CashFacts, ClearFacts DEF CloseCashSystem, TypeOK, MoneyType, PaidOK
    <2>9. Ledger'
      <3>1. Current = "waitfor_money" /\ PayAlready \in Nat
        BY DEF PlaceOK, PaidOK, TypeOK, MoneyType
      <3>2. Uncounted = bill /\ Uncounted' = 0 /\ kept' = kept + bill
        BY CashFacts DEF CloseCashSystem, Uncounted, TypeOK, MoneyType
      <3>3. Credit = PayAlready /\ Owed = 0 /\ Credit' = 0 /\ Owed' = PayAlready
        BY <3>1, ClearFacts DEF Credit, Owed
      <3>4. MealsOwed = 0 /\ MealsOwed' = 0
        BY <3>1, ClearFacts, NothingFacts DEF MealsOwed, Serving, Value
      <3>5. UNCHANGED <<inserted, refunded, delivered>>
        OBVIOUS
      <3> QED BY <3>1, <3>2, <3>3, <3>4, <3>5, LedgerTypes DEF Ledger, TypeOK, MoneyType
    <2> QED BY <1>1, <2>1, <2>2, <2>3, <2>4, <2>5, <2>6, <2>7, <2>8, <2>9 DEF MoneyInv
  <1> QED BY <1>3, <1>4, <1>5, <1>6, <1>7, <1>8, <1>9, <1>10, <1>11, <1>12, <1>13 DEF WaitPayMoney

(* Paying out, delivering, uploading and handling errors keep the invariant.  A meal *)
(* that fails turns the value of the rest of the cart into a refund.                 *)
LEMMA InvServe == Orderly /\ MoneyInv /\ Serve => MoneyInv'
  <1> SUFFICES ASSUME Orderly, MoneyInv, Serve PROVE MoneyInv'
      OBVIOUS
  <1> USE DEF loop, times, cart, pay, back, cash, Shopping
  <1>1. TypeOK' BY FromMoneyInv, TypedServe DEF Typed
  <1>2. /\ TypeOK /\ TapsOK /\ PlaceOK /\ PageOK /\ CashOK
        /\ CartOK /\ ClearedOK /\ PointOK /\ PaidOK /\ Ledger
    BY DEF MoneyInv
  <1>3. CASE PayOut
    <2> USE <1>2, <1>3 DEF PayOut
    <2>1. TapsOK' BY DEF In, TapsOK
    <2>2. PlaceOK' BY DEF In, PlaceOK
    <2>3. PageOK' BY DEF In, PageOK
    <2>4. CashOK' BY DEF In, CashOK
    <2>5. CartOK' BY DEF CartOK, PayPages
    <2>6. ClearedOK' BY DEF In, ClearedOK, PayPages, Cleared
    <2>7. PointOK' BY DEF In, PointOK, PayPages
    <2>8. PaidOK'
      <3> DEFINE paid == IF hopper < MoneyBack THEN hopper ELSE MoneyBack
                 left == MoneyBack - paid
      <3>1. left \in Nat BY DEF SendOutN_Coin, In, TypeOK, MoneyType
      <3>2. left % ByteMod \in Nat /\ left % ByteMod <= left BY <3>1, ModFacts
      <3>3. MoneyBack' = left % ByteMod /\ kept' = kept + (left - (left % ByteMod))
        BY DEF SendOutN_Coin
      <3>4. MoneyBack' >= 0 /\ kept' >= 0
        BY <3>1, <3>2, <3>3 DEF PaidOK, TypeOK, MoneyType
      <3> QED BY <3>4 DEF SendOutN_Coin, In, PaidOK
    <2>9. Ledger'
      <3> DEFINE paid == IF hopper < MoneyBack THEN hopper ELSE MoneyBack
                 left == MoneyBack - paid
      <3>1. paid \in Int /\ left \in Nat BY DEF SendOutN_Coin, In, TypeOK, MoneyType
      <3>2. left % ByteMod \in Nat BY <3>1, Numbers
      <3>3. /\ refunded' = refunded + paid /\ MoneyBack' = left % ByteMod
            /\ kept' = kept + (left - (left % ByteMod))
            /\ UNCHANGED <<inserted, delivered>>
        BY DEF SendOutN_Coin
      <3>4. Owed = MoneyBack /\ Owed' = left % ByteMod BY <3>3 DEF SendOutN_Coin, In, Owed
      <3>5. Uncounted' = Uncounted /\ Credit' = Credit /\ MealsOwed' = MealsOwed
        BY DEF SendOutN_Coin, In, Uncounted, Credit, MealsOwed, Serving, Value
      <3>6. MoneyBack = paid + left /\ MoneyBack \in Int BY <3>1 DEF TypeOK, MoneyType
      <3> HIDE DEF paid, left
      <3> QED BY <3>1, <3>2, <3>3, <3>4, <3>5, <3>6, LedgerTypes DEF Ledger
    <2> QED BY <1>1, <2>1, <2>2, <2>3, <2>4, <2>5, <2>6, <2>7, <2>8, <2>9 DEF MoneyInv
  <1>4. CASE AfterPayOut
    <2> USE <1>2, <1>4 DEF AfterPayOut
    <2>1. TapsOK' BY DEF In, TapsOK
    <2>2. PlaceOK' BY DEF PlaceOK
    <2>3. PageOK' BY DEF In, PageOK
    <2>4. CashOK' BY DEF In, CashOK
    <2>5. CartOK'
      <3>1. Shopping' => Cleared BY DEF In, ClearedOK
      <3>2. page' = page /\ (page \in PayPages => Shopping) /\ ~Shopping
        BY DEF In, PageOK
      <3> QED BY <3>1, <3>2, NothingFacts DEF CartOK, Cleared
    <2>6. ClearedOK' BY DEF In, ClearedOK, PayPages, Cleared
    <2>7. PointOK' BY DEF In, PointOK, PayPages
    <2>8. PaidOK' BY DEF PaidOK
    <2>9. Ledger'
      <3>1. MoneyBack = 0
        BY DEF In, PaidOK, TypeOK, MoneyType
      <3>2. Owed = 0 /\ Owed' = 0
        BY <3>1 DEF In, Owed
      <3>3. MealsOwed' = MealsOwed
        BY DEF In, MealsOwed, Serving, Value, TypeOK, LoopType
      <3>4. Credit = 0 /\ Credit' = 0
        BY DEF In, Credit, ClearedOK, Cleared
      <3>5. Uncounted' = Uncounted
        BY DEF In, Uncounted
      <3> QED BY <3>1, <3>2, <3>3, <3>4, <3>5, LedgerTypes DEF In, Ledger
    <2> QED BY <1>1, <2>1, <2>2, <2>3, <2>4, <2>5, <2>6, <2>7, <2>8, <2>9 DEF MoneyInv
  <1>5. ASSUME NEW k \in Kinds, SendArm(k) PROVE MoneyInv'
    <2> USE <1>2, <1>5 DEF SendArm
    <2>1. TapsOK' BY DEF In, TapsOK
    <2>2. PlaceOK' BY DEF In, PlaceOK
    <2>3. PageOK'
      <3>1. page \notin MealPages /\ page' = page BY DEF In, PageOK
      <3>2. \A j \in Kinds : page' # MealPage[j] BY <3>1, OffMealPage
      <3> QED BY <3>1, <3>2 DEF In, PageOK
    <2>4. CashOK' BY DEF In, CashOK
    <2>5. CartOK'
      <3>1. \A j \in Kinds : stock'[j] <= stock[j] BY DEF TypeOK, CartType
      <3>2. \A j \in Kinds : stock'[j] \in Nat /\ stock[j] \in Nat /\ Stock0[j] \in Nat
        BY <1>1, Tables DEF TypeOK, CartType
      <3>3. \A j \in Kinds : stock'[j] <= Stock0[j] BY <3>1, <3>2 DEF CartOK
      <3>4. ~Shopping' /\ page \notin PayPages BY DEF In, PageOK
      <3> QED BY <3>3, <3>4 DEF CartOK
    <2>6. ClearedOK' BY DEF In, ClearedOK
    <2>7. PointOK' BY DEF In, PointOK, PayPages
    <2>8. PaidOK' BY DEF First, PaidOK
    <2>9. Ledger'
      <3>1. Uncounted' = Uncounted /\ Credit' = Credit /\ Owed' = Owed /\ MealsOwed' = MealsOwed
        BY DEF In, Uncounted, Credit, Owed, MealsOwed, Serving, Value
      <3> QED BY <3>1, LedgerTypes DEF In, Ledger
    <2> QED BY <1>1, <2>1, <2>2, <2>3, <2>4, <2>5, <2>6, <2>7, <2>8, <2>9 DEF MoneyInv
  <1>6. CASE Delivered
    <2> USE <1>2, <1>6 DEF Delivered
    <2>1. TapsOK' BY DEF TapsOK
    <2>2. PlaceOK' BY DEF PlaceOK
    <2>3. PageOK'
      <3>1. page' \notin MealPages BY DEF MealPages
      <3>2. \A k \in Kinds : page' # MealPage[k] BY <3>1, OffMealPage
      <3> QED BY <3>1, <3>2 DEF PageOK, PayPages, MealPages, TypeOK, SetType, PlaceOK
    <2>4. CashOK' BY DEF PlaceOK, PageOK, CashOK
    <2>5. CartOK'
      <3>1. ~Shopping' /\ page' \notin PayPages BY DEF PayPages
      <3>2. \A k \in Kinds : MealCnt'[k] <= Stock0[k]
        BY Tables DEF CartOK, TypeOK, CartType
      <3> QED BY <3>1, <3>2 DEF CartOK
    <2>6. ClearedOK' BY DEF ClearedOK, PayPages
    <2>7. PointOK' BY DEF PlaceOK, PageOK, PointOK, PayPages
    <2>8. PaidOK' BY DEF PaidOK
    <2>9. Ledger'
      <3>1. Current = "meal_out" /\ Cancle = 0 /\ MealID \in Kinds /\ acc[2] = Price[MealID]
        BY DEF PlaceOK, PaidOK
      <3>2. Value(MealCnt') = Value(MealCnt) - Price[MealID]
        BY <3>1, ValueLess DEF TypeOK, CartType
      <3>3. MealsOwed = Value(MealCnt) /\ MealsOwed' = Value(MealCnt) - Price[MealID]
        BY <3>1, <3>2, ValuePrime DEF MealsOwed, Serving
      <3>4. Price[MealID] \in Int /\ Value(MealCnt) \in Int
        BY <3>1, Tables, ValueNat DEF TypeOK, CartType
      <3>5. Credit = 0 /\ Credit' = 0
        BY <3>1 DEF Credit
      <3>6. Owed = 0 /\ Owed' = 0
        BY <3>1 DEF Owed
      <3>7. Uncounted' = Uncounted
        BY DEF Uncounted
      <3> QED BY <3>1, <3>2, <3>3, <3>4, <3>5, <3>6, <3>7, LedgerTypes DEF Ledger
    <2> QED BY <1>1, <2>1, <2>2, <2>3, <2>4, <2>5, <2>6, <2>7, <2>8, <2>9 DEF MoneyInv
  <1>7. CASE ArmError
    <2> USE <1>2, <1>7 DEF ArmError
    <2>1. TapsOK' BY DEF TapsOK
    <2>2. PlaceOK' BY DEF PlaceOK
    <2>3. PageOK'
      <3>1. page' \notin MealPages BY DEF MealPages
      <3>2. \A k \in Kinds : page' # MealPage[k] BY <3>1, OffMealPage
      <3> QED BY <3>1, <3>2 DEF PageOK, PayPages, MealPages, TypeOK, SetType, PlaceOK
    <2>4. CashOK' BY DEF PlaceOK, PageOK, CashOK
    <2>5. CartOK' BY DEF CartOK, PayPages
    <2>6. ClearedOK' BY DEF ClearedOK, PayPages
    <2>7. PointOK' BY DEF PlaceOK, PageOK, PointOK, PayPages
    <2>8. PaidOK'
      <3>1. Value(MealCnt) \in Nat BY ValueNat DEF TypeOK, CartType
      <3> QED BY <3>1 DEF PaidOK
    <2>9. Ledger'
      <3>1. Current = "meal_out" /\ Cancle = 0
        BY DEF PlaceOK
      <3>2. MealsOwed = Value(MealCnt) /\ MealsOwed' = 0
        BY <3>1 DEF MealsOwed, Serving
      <3>3. Credit = 0 /\ Credit' = 0
        BY <3>1 DEF Credit
      <3>4. Owed = 0 /\ Owed' = Value(MealCnt)
        BY <3>1 DEF Owed
      <3>5. Uncounted' = Uncounted
        BY DEF Uncounted
      <3> QED BY <3>1, <3>2, <3>3, <3>4, <3>5, LedgerTypes DEF Ledger
    <2> QED BY <1>1, <2>1, <2>2, <2>3, <2>4, <2>5, <2>6, <2>7, <2>8, <2>9 DEF MoneyInv
  <1>8. CASE MealsTaken
    <2> USE <1>2, <1>8 DEF MealsTaken
    <2>1. TapsOK' BY DEF In, TapsOK
    <2>2. PlaceOK' BY DEF PlaceOK
    <2>3. PageOK'
      <3>1. page' \notin MealPages BY DEF In, MealPages
      <3>2. \A k \in Kinds : page' # MealPage[k] BY <3>1, OffMealPage
      <3> QED BY <3>1, <3>2, ClearFacts DEF In, PageOK, PayPages, MealPages, TypeOK, SetType,
           PlaceOK
    <2>4. CashOK' BY DEF In, CashOK
    <2>5. CartOK'
      <3>1. page' \notin PayPages BY DEF PayPages
      <3> QED BY <3>1, ClearFacts, NothingFacts, Tables DEF CartOK, TypeOK, CartType
    <2>6. ClearedOK' BY ClearFacts DEF ClearedOK
    <2>7. PointOK' BY DEF In, PointOK, PayPages
    <2>8. PaidOK' BY ClearFacts DEF PaidOK
    <2>9. Ledger'
      <3>1. Value(MealCnt) = 0
        BY NoMeals DEF TypeOK, CartType
      <3>2. MealsOwed = 0 /\ MealsOwed' = 0
        BY <3>1, ClearFacts, NothingFacts DEF MealsOwed, Serving, Value
      <3>3. Credit = 0 /\ Credit' = 0
        BY ClearFacts DEF In, Credit
      <3>4. Owed = 0 /\ Owed' = 0
        BY DEF In, Owed
      <3>5. Uncounted' = Uncounted
        BY DEF In, Uncounted
      <3> QED BY <3>1, <3>2, <3>3, <3>4, <3>5, LedgerTypes DEF In, Ledger
    <2> QED BY <1>1, <2>1, <2>2, <2>3, <2>4, <2>5, <2>6, <2>7, <2>8, <2>9 DEF MoneyInv
  <1>9. CASE DataUpload
    <2> USE <1>2, <1>9 DEF DataUpload
    <2>1. TapsOK' BY DEF In, TapsOK
    <2>2. PlaceOK' BY DEF In, PlaceOK
    <2>3. PageOK' BY DEF In, PageOK
    <2>4. CashOK' BY DEF In, CashOK
    <2>5. CartOK' BY DEF CartOK, PayPages
    <2>6. ClearedOK' BY DEF ClearedOK
    <2>7. PointOK' BY DEF In, PointOK, PayPages
    <2>8. PaidOK' BY DEF PaidOK
    <2>9. Ledger'
      <3>1. Uncounted' = Uncounted /\ Credit' = Credit /\ Owed' = Owed /\ MealsOwed' = MealsOwed
        BY DEF In, Uncounted, Credit, Owed, MealsOwed, Serving, Value
      <3> QED BY <3>1, LedgerTypes DEF In, Ledger
    <2> QED BY <1>1, <2>1, <2>2, <2>3, <2>4, <2>5, <2>6, <2>7, <2>8, <2>9 DEF MoneyInv
  <1>10. CASE PollAbnormalHandle
    <2> USE <1>2, <1>10 DEF PollAbnormalHandle
    <2>1. TapsOK' BY DEF In, TapsOK
    <2>2. PlaceOK' BY DEF In, PlaceOK
    <2>3. PageOK'
      <3>1. page' \notin MealPages BY DEF In, MealPages
      <3>2. \A k \in Kinds : page' # MealPage[k] BY <3>1, OffMealPage
      <3> QED BY <3>1, <3>2 DEF In, PageOK, PayPages, MealPages, TypeOK, SetType, PlaceOK
    <2>4. CashOK' BY DEF In, CashOK
    <2>5. CartOK' BY DEF In, CartOK, PayPages
    <2>6. ClearedOK' BY DEF In, ClearedOK, PayPages, Cleared
    <2>7. PointOK' BY DEF In, PointOK, PayPages
    <2>8. PaidOK' BY DEF PaidOK
    <2>9. Ledger'
      <3>1. ~Serving /\ ~Serving'
        BY DEF In, Serving
      <3>2. Uncounted' = Uncounted /\ Credit' = Credit /\ Owed' = Owed /\ MealsOwed' = MealsOwed
        BY DEF In, Uncounted, Credit, Owed, MealsOwed, Serving, Value
      <3> QED BY <3>1, <3>2, LedgerTypes DEF In, Ledger
    <2> QED BY <1>1, <2>1, <2>2, <2>3, <2>4, <2>5, <2>6, <2>7, <2>8, <2>9 DEF MoneyInv
  <1> QED BY <1>3, <1>4, <1>5, <1>6, <1>7, <1>8, <1>9, <1>10 DEF Serve

(* Every screen command keeps the invariant, cancelling and settling included. *)
LEMMA InvScreen == Orderly /\ MoneyInv /\ ScreenCommand => MoneyInv'
  <1> SUFFICES ASSUME Orderly, MoneyInv, ScreenCommand PROVE MoneyInv'
      OBVIOUS
  <1> USE DEF loop, times, cart, pay, back, cash, Shopping
  <1>1. TypeOK' BY FromMoneyInv, TypedScreen DEF Typed
  <1>2. /\ TypeOK /\ TapsOK /\ PlaceOK /\ PageOK /\ CashOK
        /\ CartOK /\ ClearedOK /\ PointOK /\ PaidOK /\ Ledger
    BY DEF MoneyInv
  <1>3. CASE meal_choose
    <2> USE <1>2, <1>3 DEF meal_choose
    <2>1. at = "deal" /\ at' = "deal" /\ taps' = <<>>
      BY OneFrame
    <2>2. page \in {"Menu", "Mealout"} /\ Shopping /\ Head(taps).id \in Kinds
      BY AtMenu, FrameMeal
    <2>3. TapsOK' BY <2>1 DEF TapsOK
    <2>4. PlaceOK' BY <2>1 DEF PlaceOK
    <2>5. PageOK'
      <3>1. ASSUME page' = MealPage[Head(taps).id], MealID' = Head(taps).id,
                   WaitTime' = WaitMax, timers' = (timers \ {4}) \cup {3}, Current' = Current
            PROVE  PageOK'
        <4>1. page' \in MealPages BY <2>2, <3>1, MealPageFacts
        <4>2. \A k \in Kinds : page' = MealPage[k] => MealID' = k BY <2>2, <3>1, MealPageOne
        <4> QED BY <2>2, <3>1, <4>1, <4>2, Numbers DEF PageOK, PayPages, MealPages
      <3>2. ASSUME UNCHANGED <<page, MealID, WaitTime, Current>>, timers' = timers \ {4}
            PROVE  PageOK'
        BY <3>2 DEF PageOK
      <3> QED BY <3>1, <3>2
    <2>6. CashOK' BY <2>1, <2>2 DEF CashOK
    <2>7. CartOK'
      <3> DEFINE k == Head(taps).id
      <3>1. \A j \in Kinds : page # MealPage[j] BY <2>2, OffMealPage DEF MealPages
      <3>2. \A j \in Kinds : MealCost[j] = Price[j] * MealCnt[j] BY <2>2, <3>1 DEF CartOK
      <3>3. \A j \in Kinds : MealCnt_t'[j] <= Stock0[j]
        <4>1. CASE MealCnt_t' = [MealCnt_t EXCEPT ![k] = 1] /\ stock[k] > 0
          <5>1. stock[k] \in Nat /\ Stock0[k] \in Nat /\ stock[k] <= Stock0[k]
            BY <2>2, Tables DEF CartOK, TypeOK, CartType
          <5> QED BY <2>2, <4>1, <5>1 DEF CartOK, TypeOK, CartType
        <4>2. CASE MealCnt_t' = MealCnt_t BY <4>2 DEF CartOK
        <4> QED BY <4>1, <4>2
      <3>4. page' \notin PayPages
        BY <2>2, MealPageFacts DEF MealPages, PayPages
      <3> QED BY <3>2, <3>3, <3>4 DEF Command, CartOK
    <2>8. ClearedOK' BY <2>2 DEF ClearedOK, PayPages
    <2>9. PointOK' BY <2>2 DEF PointOK, PayPages
    <2>10. PaidOK' BY DEF Command, PlaceOK, PageOK, PaidOK
    <2>11. Ledger'
      <3>1. Uncounted' = Uncounted /\ Credit' = Credit /\ Owed' = Owed /\ MealsOwed' = MealsOwed
        BY DEF Command, Uncounted, Credit, Owed, MealsOwed, Serving, Value
      <3> QED BY <3>1, LedgerTypes DEF Command, Ledger
    <2> QED BY <1>1, <2>3, <2>4, <2>5, <2>6, <2>7, <2>8, <2>9, <2>10, <2>11 DEF MoneyInv
  <1>4. CASE meal_cnt
    <2> USE <1>2, <1>4 DEF meal_cnt
    <2>1. at = "deal" /\ at' = "deal" /\ taps' = <<>>
      BY OneFrame
    <2>2. /\ page \in MealPages /\ MealID = Head(taps).id /\ Shopping
            /\ Head(taps).id \in Kinds /\ Head(taps).n \in Nat
      BY AtMeal, FrameMeal
    <2>3. TapsOK' BY <2>1 DEF TapsOK
    <2>4. PlaceOK' BY DEF Command, PlaceOK, PageOK
    <2>5. PageOK' BY DEF PageOK, MealPages
    <2>6. CashOK' BY DEF Command, PlaceOK, PageOK, CashOK
    <2>7. CartOK'
      <3> DEFINE k == Head(taps).id
                 n == Head(taps).n
      <3>1. page = MealPage[k] /\ page \notin PayPages
        BY <2>2, OnMealPage DEF MealPages, PayPages
      <3>2. stock[k] \in Nat /\ Stock0[k] \in Nat /\ stock[k] <= Stock0[k]
        BY <2>2, Tables DEF CartOK, TypeOK, CartType
      <3>3. PICK m \in Nat : m <= Stock0[k] /\ MealCnt_t' = [MealCnt_t EXCEPT ![k] = m]
        BY <2>2, <3>2
      <3>4. \A j \in Kinds : MealCnt_t'[j] <= Stock0[j]
        BY <2>2, <3>3 DEF CartOK, TypeOK, CartType
      <3>5. \A j \in Kinds \ {k} : MealCost'[j] = MealCost[j]
        BY DEF TypeOK, CartType
      <3>6. UNCHANGED <<page, MealCnt, stock, PayShould, Current>>
        BY DEF Command
      <3> QED BY <3>1, <3>4, <3>5, <3>6 DEF CartOK
    <2>8. ClearedOK' BY <2>2 DEF ClearedOK
    <2>9. PointOK' BY DEF Command, PointOK
    <2>10. PaidOK' BY DEF Command, PlaceOK, PageOK, PaidOK
    <2>11. Ledger'
      <3>1. Uncounted' = Uncounted /\ Credit' = Credit /\ Owed' = Owed /\ MealsOwed' = MealsOwed
        BY DEF Command, Uncounted, Credit, Owed, MealsOwed, Serving, Value
      <3> QED BY <3>1, LedgerTypes DEF Command, Ledger
    <2> QED BY <1>1, <2>3, <2>4, <2>5, <2>6, <2>7, <2>8, <2>9, <2>10, <2>11 DEF MoneyInv
  <1>5. CASE ContinueShopping
    <2> USE <1>2, <1>5 DEF ContinueShopping
    <2>1. at = "deal" /\ at' = "deal" /\ taps' = <<>>
      BY OneFrame
    <2>2. page \in MealPages /\ Shopping
      BY AtCartKey
    <2>3. \A k \in Kinds : MealCnt'[k] <= Stock0[k] /\ MealCost'[k] = Price[k] * MealCnt'[k]
      BY <2>2, CartFilled
    <2>4. TapsOK' BY <2>1 DEF TapsOK
    <2>5. PlaceOK' BY <2>1 DEF PlaceOK
    <2>6. PageOK'
      <3>1. page' \notin MealPages BY DEF MealPages
      <3>2. \A k \in Kinds : page' # MealPage[k] BY <3>1, OffMealPage
      <3> QED BY <3>1, <3>2, <2>2, Numbers DEF PageOK, PayPages, MealPages, TypeOK, SetType,
           PlaceOK, MoneyType
    <2>7. CashOK' BY <2>1, <2>2 DEF CashOK, MealPages
    <2>8. CartOK' BY <2>3 DEF Command, CartOK, PayPages
    <2>9. ClearedOK' BY <2>2 DEF ClearedOK, PayPages, MealPages
    <2>10. PointOK' BY <2>2 DEF PointOK, PayPages, MealPages
    <2>11. PaidOK' BY DEF Command, PlaceOK, PageOK, PaidOK
    <2>12. Ledger'
      <3>1. Shopping /\ Shopping'
        BY <2>2 DEF Command, PageOK, PayPages
      <3>2. MealsOwed = 0 /\ MealsOwed' = 0
        BY <3>1 DEF MealsOwed, Serving
      <3>3. Uncounted' = Uncounted /\ Credit' = Credit /\ Owed' = Owed
        BY DEF Command, Uncounted, Credit, Owed
      <3> QED BY <3>1, <3>2, <3>3, LedgerTypes DEF Command, Ledger
    <2> QED BY <1>1, <2>4, <2>5, <2>6, <2>7, <2>8, <2>9, <2>10, <2>11, <2>12 DEF MoneyInv
  <1>6. CASE GoToCart
    <2> USE <1>2, <1>6 DEF GoToCart, SettleAccounts
    <2>1. at = "deal" /\ at' = "deal" /\ taps' = <<>>
      BY OneFrame
    <2>2. page \in MealPages /\ Shopping
      BY AtCartKey
    <2>3. \A k \in Kinds : MealCnt'[k] <= Stock0[k] /\ MealCost'[k] = Price[k] * MealCnt'[k]
      BY <2>2, CartFilled
    <2>4. SumCost(MealCost') = Value(MealCnt')
      BY <2>2, CartFilled, ValueSum
    <2>5. TapsOK' BY <2>1 DEF TapsOK
    <2>6. PlaceOK' BY <2>1 DEF PlaceOK
    <2>7. PageOK'
      <3>1. CASE page' = "Acount"
        <4>1. \A k \in Kinds : page' # MealPage[k] BY <3>1, OffMealPage DEF MealPages
        <4> QED BY <2>2, <3>1, <4>1, Numbers DEF PageOK, PayPages, MealPages, TypeOK, SetType
      <3>2. CASE page' = page
        BY <2>2, <3>2 DEF PageOK, PayPages, MealPages
      <3> QED BY <3>1, <3>2
    <2>8. CashOK' BY <2>1, <2>2 DEF CashOK, MealPages
    <2>9. CartOK' BY <2>2, <2>3, <2>4 DEF Command, CartOK, PayPages, MealPages
    <2>10. ClearedOK' BY <2>2 DEF ClearedOK, PayPages
    <2>11. PointOK' BY <2>2 DEF ClearedOK, PointOK, PayPages, MealPages
    <2>12. PaidOK' BY <2>1 DEF PaidOK
    <2>13. Ledger'
      <3>1. Shopping /\ Shopping'
        BY <2>2 DEF Command, PageOK, PayPages
      <3>2. MealsOwed = 0 /\ MealsOwed' = 0
        BY <3>1 DEF MealsOwed, Serving
      <3>3. Owed = 0 /\ Owed' = 0
        BY <3>1 DEF Owed
      <3>4. Credit' = Credit
        BY <3>1 DEF Command, Credit
      <3>5. Uncounted' = Uncounted
        BY DEF Command, Uncounted
      <3> QED BY <3>1, <3>2, <3>3, <3>4, <3>5, LedgerTypes DEF Command, Ledger
    <2> QED BY <1>1, <2>5, <2>6, <2>7, <2>8, <2>9, <2>10, <2>11, <2>12, <2>13 DEF MoneyInv
  <1>7. CASE CancelMeal
    <2> USE <1>2, <1>7 DEF CancelMeal
    <2>1. at = "deal" /\ at' = "deal" /\ taps' = <<>>
      BY OneFrame
    <2>2. page \in MealPages /\ Shopping
      BY AtCartKey
    <2>3. TapsOK' BY <2>1 DEF TapsOK
    <2>4. PlaceOK' BY <2>1 DEF PlaceOK
    <2>5. PageOK'
      <3>1. page' \notin MealPages BY DEF MealPages
      <3>2. \A k \in Kinds : page' # MealPage[k] BY <3>1, OffMealPage
      <3> QED BY <3>1, <3>2, <2>2, ClearFacts DEF PageOK, PayPages, MealPages, TypeOK, SetType,
           PlaceOK, MoneyType
    <2>6. CashOK' BY <2>1, <2>2 DEF CashOK, MealPages
    <2>7. CartOK'
      <3>1. page' = "Menu" OBVIOUS
      <3> QED BY <3>1, ClearFacts, NothingFacts, Tables DEF Command, CartOK, PayPages
    <2>8. ClearedOK' BY ClearFacts DEF ClearedOK
    <2>9. PointOK' BY <2>2 DEF PointOK, PayPages, MealPages
    <2>10. PaidOK' BY <2>1, ClearFacts DEF PaidOK
    <2>11. Ledger'
      <3>1. Shopping /\ Shopping'
        BY <2>2 DEF Command, PageOK, PayPages
      <3>2. MealsOwed = 0 /\ MealsOwed' = 0
        BY <3>1 DEF MealsOwed, Serving
      <3>3. Credit = 0 /\ Credit' = 0
        BY <2>2, <3>1, ClearFacts DEF Credit, ClearedOK, PayPages, MealPages
      <3>4. Owed = 0 /\ Owed' = 0
        BY <3>1 DEF Owed
      <3>5. Uncounted' = Uncounted
        BY DEF Command, Uncounted
      <3> QED BY <3>1, <3>2, <3>3, <3>4, <3>5, LedgerTypes DEF Command, Ledger
    <2> QED BY <1>1, <2>3, <2>4, <2>5, <2>6, <2>7, <2>8, <2>9, <2>10, <2>11 DEF MoneyInv
  <1>8. CASE column_count
    <2> USE <1>2, <1>8 DEF column_count
    <2>1. at = "deal" /\ at' = "deal" /\ taps' = <<>>
      BY OneFrame
    <2>2. page = "Acount" /\ CurrentPoint # 9
      BY AtAccount
    <2>3. Head(taps).id \in Kinds /\ Head(taps).n \in Nat
      BY FrameMeal
    <2>4. TapsOK' BY <2>1 DEF TapsOK
    <2>5. PlaceOK' BY DEF Command, PlaceOK, PageOK
    <2>6. PageOK' BY DEF PageOK, MealPages
    <2>7. CashOK' BY DEF Command, PlaceOK, PageOK, CashOK
    <2>8. CartOK'
      <3> DEFINE k == Head(taps).id
                 n == Head(taps).n
      <3>1. \A j \in Kinds : page # MealPage[j] BY <2>2, OffMealPage DEF MealPages
      <3>2. Shopping /\ page' = page BY <2>2 DEF PageOK, PayPages
      <3>3. \A j \in Kinds : MealCnt[j] <= Stock0[j] /\ MealCost[j] = Price[j] * MealCnt[j]
        BY <3>1, <3>2 DEF CartOK
      <3>4. stock[k] \in Nat /\ Stock0[k] \in Nat /\ stock[k] <= Stock0[k] /\ Price[k] \in Nat
        BY <2>3, Tables DEF CartOK, TypeOK, CartType
      <3>5. \A j \in Kinds : MealCnt'[j] <= Stock0[j] /\ MealCost'[j] = Price[j] * MealCnt'[j]
        <4>1. CASE /\ n <= stock[k] /\ MealCnt' = [MealCnt EXCEPT ![k] = n]
                   /\ MealCost' = [MealCost EXCEPT ![k] = n * Price[k]]
          <5>1. n <= Stock0[k] /\ n * Price[k] = Price[k] * n BY <2>3, <3>4, <4>1
          <5> QED BY <2>3, <3>3, <4>1, <5>1 DEF TypeOK, CartType
        <4>2. CASE UNCHANGED <<MealCnt, MealCost>> BY <3>3, <4>2
        <4> QED BY <4>1, <4>2
      <3>6. SumCost(MealCost') = Value(MealCnt')
        BY <1>1, <3>5, ValueSum DEF TypeOK, CartType
      <3>7. PayShould' = Value(MealCnt') BY <3>6
      <3> QED BY <3>2, <3>5, <3>7, ValuePrime DEF Command, CartOK
    <2>9. ClearedOK' BY <2>2 DEF PageOK, ClearedOK, PayPages
    <2>10. PointOK' BY <2>1, <2>2 DEF PointOK
    <2>11. PaidOK' BY <2>1 DEF PaidOK
    <2>12. Ledger'
      <3>1. Shopping /\ Shopping'
        BY <2>2 DEF Command, PageOK, PayPages
      <3>2. MealsOwed = 0 /\ MealsOwed' = 0
        BY <3>1 DEF MealsOwed, Serving
      <3>3. Uncounted' = Uncounted /\ Credit' = Credit /\ Owed' = Owed
        BY DEF Command, Uncounted, Credit, Owed
      <3> QED BY <3>1, <3>2, <3>3, LedgerTypes DEF Command, Ledger
    <2> QED BY <1>1, <2>4, <2>5, <2>6, <2>7, <2>8, <2>9, <2>10, <2>11, <2>12 DEF MoneyInv
  <1>9. CASE ChoosePayment
    <2> USE <1>2, <1>9 DEF ChoosePayment
    <2>1. at = "deal" /\ at' = "deal" /\ taps' = <<>>
      BY OneFrame
    <2>2. page \in {"Acount", "Acount2"} /\ Shopping
      BY AtPayment
    <2>3. TapsOK' BY <2>1 DEF TapsOK
    <2>4. PlaceOK' BY <2>1 DEF PlaceOK
    <2>5. PageOK'
      <3>1. page' \notin MealPages BY DEF MealPages
      <3>2. \A k \in Kinds : page' # MealPage[k] BY <3>1, OffMealPage
      <3> QED BY <3>1, <3>2, <2>2 DEF PageOK, PayPages, MealPages, TypeOK, SetType, PlaceOK
    <2>6. CashOK' BY <2>2, CashFacts DEF CloseCashSystem, PageOK, CashOK, PayPages
    <2>7. CartOK'
      <3>1. \A j \in Kinds : page # MealPage[j] BY <2>2, OffMealPage DEF MealPages
      <3>2. \A j \in Kinds : MealCnt[j] <= Stock0[j] /\ MealCost[j] = Price[j] * MealCnt[j]
        BY <2>2, <3>1 DEF CartOK
      <3>3. PayShould = Value(MealCnt) BY <2>2 DEF CartOK, PayPages
      <3> QED BY <3>2, <3>3, ValuePrime DEF Command, CartOK
    <2>8. ClearedOK' BY DEF Command, ClearedOK, PayPages, Cleared
    <2>9. PointOK' BY <2>2 DEF PageOK, PointOK, PayPages
    <2>10. PaidOK'
      BY CashFacts DEF Command, OpenCashSystem, CloseCashSystem, TypeOK, MoneyType, PaidOK
    <2>11. Ledger'
      <3>1. Uncounted = bill /\ Uncounted' = 0 /\ kept' = kept + bill
        BY <2>1, CashFacts DEF OpenCashSystem, CloseCashSystem, Command, Uncounted, TypeOK,
             MoneyType
      <3>2. Current' = Current /\ MealsOwed = 0 /\ MealsOwed' = 0
        BY <2>2 DEF MealsOwed, Serving
      <3>3. Credit' = Credit /\ Owed' = Owed
        BY DEF Command, Credit, Owed
      <3>4. UNCHANGED <<inserted, refunded, delivered>>
        BY DEF Command
      <3> QED BY <3>1, <3>2, <3>3, <3>4, LedgerTypes DEF Ledger, TypeOK, MoneyType
    <2> QED BY <1>1, <2>3, <2>4, <2>5, <2>6, <2>7, <2>8, <2>9, <2>10, <2>11 DEF MoneyInv
  <1>10. CASE CancelPayment
    <2> USE <1>2, <1>10 DEF CancelPayment
    <2>1. at = "deal" /\ at' = "deal" /\ taps' = <<>>
      BY OneFrame
    <2>2. page \in {"Acount", "Acount2"} /\ Shopping
      BY AtPayment
    <2>3. TapsOK' BY <2>1 DEF TapsOK
    <2>4. PlaceOK' BY <2>1 DEF PlaceOK
    <2>5. PageOK'
      <3>1. page' \notin MealPages BY DEF MealPages
      <3>2. \A k \in Kinds : page' # MealPage[k] BY <3>1, OffMealPage
      <3> QED BY <3>1, <3>2, <2>2, ClearFacts DEF PageOK, PayPages, MealPages, TypeOK, SetType,
           PlaceOK
    <2>6. CashOK' BY CashFacts DEF CloseCashSystem, CashOK
    <2>7. CartOK'
      <3>1. page' = "Menu" OBVIOUS
      <3> QED BY <3>1, ClearFacts, NothingFacts, Tables DEF Command, CartOK, PayPages
    <2>8. ClearedOK' BY ClearFacts DEF ClearedOK, Cleared
    <2>9. PointOK' BY DEF PointOK
    <2>10. PaidOK'
      BY CashFacts, ClearFacts DEF Command, CloseCashSystem, TypeOK, MoneyType, TapsOK, PaidOK
    <2>11. Ledger'
      <3>1. Uncounted = bill /\ Uncounted' = 0 /\ kept' = kept + bill
        BY <2>1, CashFacts DEF CloseCashSystem, Command, Uncounted, TypeOK, MoneyType
      <3>2. Credit = PayAlready /\ Credit' = 0
        BY <2>2 DEF Credit
      <3>3. Owed = 0 /\ Owed' = PayAlready
        BY <2>2 DEF Owed
      <3>4. MealsOwed = 0 /\ MealsOwed' = 0
        BY <2>2 DEF MealsOwed, Serving
      <3>5. UNCHANGED <<inserted, refunded, delivered>>
        BY DEF Command
      <3> QED BY <3>1, <3>2, <3>3, <3>4, <3>5, LedgerTypes DEF Ledger, TypeOK, MoneyType
    <2> QED BY <1>1, <2>3, <2>4, <2>5, <2>6, <2>7, <2>8, <2>9, <2>10, <2>11 DEF MoneyInv
  <1>11. CASE bill_print
    <2> USE <1>2, <1>11 DEF bill_print
    <2>1. at = "deal" /\ at' = "deal" /\ taps' = <<>>
      BY OneFrame
    <2>2. page \in {"TicketPrint", "Mealout"}
      BY AtTicket
    <2>3. TapsOK' BY <2>1 DEF TapsOK
    <2>4. PlaceOK' BY <2>2 DEF Command, PlaceOK
    <2>5. PageOK'
      <3>1. page' = "Mealout" BY <2>1
      <3>2. \A k \in Kinds : page' # MealPage[k] BY <3>1, OffMealPage DEF MealPages
      <3> QED BY <3>1, <3>2 DEF PageOK, PayPages, MealPages
    <2>6. CashOK' BY <2>2 DEF Command, CashOK
    <2>7. CartOK'
      <3>1. page' = "Mealout" BY <2>1
      <3>2. \A k \in Kinds : page # MealPage[k] BY <2>2, OffMealPage DEF MealPages
      <3> QED BY <3>1, <3>2 DEF Command, CartOK, PayPages
    <2>8. ClearedOK' BY <2>2 DEF Command, ClearedOK, PayPages, Cleared
    <2>9. PointOK' BY <2>2 DEF PointOK, PayPages
    <2>10. PaidOK' BY DEF Command, PlaceOK, PageOK, PaidOK
    <2>11. Ledger'
      <3>1. Uncounted' = Uncounted /\ Credit' = Credit /\ Owed' = Owed /\ MealsOwed' = MealsOwed
        BY DEF Command, Uncounted, Credit, Owed, MealsOwed, Serving, Value
      <3> QED BY <3>1, LedgerTypes DEF Command, Ledger
    <2> QED BY <1>1, <2>3, <2>4, <2>5, <2>6, <2>7, <2>8, <2>9, <2>10, <2>11 DEF MoneyInv
  <1> QED BY <1>3, <1>4, <1>5, <1>6, <1>7, <1>8, <1>9, <1>10, <1>11 DEF ScreenCommand

(* The rest of the main loop keeps the invariant. *)
LEMMA InvLoop == Orderly /\ MoneyInv /\ (DealDone \/ Idle) => MoneyInv'
  <1> SUFFICES ASSUME Orderly, MoneyInv, (DealDone \/ Idle) PROVE MoneyInv'
      OBVIOUS
  <1> USE DEF loop, times, cart, pay, back, cash, Shopping
  <1>1. TypeOK' BY FromMoneyInv, TypedLoop DEF Typed
  <1>2. /\ TypeOK /\ TapsOK /\ PlaceOK /\ PageOK /\ CashOK
        /\ CartOK /\ ClearedOK /\ PointOK /\ PaidOK /\ Ledger
    BY DEF MoneyInv
  <1>3. CASE DealDone
    <2> USE <1>2, <1>3 DEF DealDone
    <2>1. TapsOK' BY DEF TapsOK
    <2>2. PlaceOK' BY DEF PlaceOK
    <2>3. PageOK' BY DEF PageOK, MealPages
    <2>4. CashOK' BY DEF CashOK
    <2>5. CartOK' BY DEF CartOK
    <2>6. ClearedOK' BY DEF ClearedOK, PayPages, Cleared
    <2>7. PointOK' BY DEF PointOK
    <2>8. PaidOK' BY DEF PaidOK
    <2>9. Ledger'
      <3>1. Uncounted' = Uncounted /\ Credit' = Credit /\ Owed' = Owed /\ MealsOwed' = MealsOwed
        BY DEF Uncounted, Credit, Owed, MealsOwed, Serving, Value
      <3> QED BY <3>1, LedgerTypes DEF Ledger
    <2> QED BY <1>1, <2>1, <2>2, <2>3, <2>4, <2>5, <2>6, <2>7, <2>8, <2>9 DEF MoneyInv
  <1>4. CASE Idle
    <2> USE <1>2, <1>4 DEF Idle
    <2>1. TapsOK' BY DEF In, TapsOK
    <2>2. PlaceOK' BY DEF In, PlaceOK
    <2>3. PageOK'
      <3>1. CASE page' = page /\ WaitTime' = WaitTime BY <3>1 DEF In, PageOK
      <3>2. CASE page' = "Menu" /\ WaitTime' = WaitMax
        <4>1. \A k \in Kinds : page' # MealPage[k] BY <3>2, OffMealPage DEF MealPages
        <4> QED BY <3>2, <4>1 DEF In, PageOK, PayPages, MealPages
      <3> QED BY <3>1, <3>2
    <2>4. CashOK' BY DEF In, CashOK
    <2>5. CartOK'
      <3>1. CASE page' = page BY <3>1 DEF In, CartOK, Value
      <3>2. CASE page' = "Menu" /\ WaitTime = 0
        <4>1. \A k \in Kinds : page # MealPage[k] BY <3>2, OffMealPage DEF PageOK
        <4> QED BY <3>2, <4>1 DEF In, CartOK, PayPages
      <3> QED BY <3>1, <3>2
    <2>6. ClearedOK' BY DEF In, PageOK, ClearedOK
    <2>7. PointOK' BY DEF In, PointOK, PayPages
    <2>8. PaidOK' BY DEF PaidOK
    <2>9. Ledger'
      <3>1. Uncounted' = Uncounted /\ Credit' = Credit /\ Owed' = Owed /\ MealsOwed' = MealsOwed
        BY DEF In, Uncounted, Credit, Owed, MealsOwed, Serving, Value
      <3> QED BY <3>1, LedgerTypes DEF In, Ledger
    <2> QED BY <1>1, <2>1, <2>2, <2>3, <2>4, <2>5, <2>6, <2>7, <2>8, <2>9 DEF MoneyInv
  <1> QED BY <1>3, <1>4

(* What customer, technician and administrator do keeps the invariant. *)
LEMMA InvPeople == Orderly /\ MoneyInv /\ People => MoneyInv'
  <1> SUFFICES ASSUME Orderly, MoneyInv, People PROVE MoneyInv'
      OBVIOUS
  <1> USE DEF loop, times, cart, pay, back, cash, Shopping
  <1>1. TypeOK' BY FromMoneyInv, TypedPeople DEF Typed
  <1>2. /\ TypeOK /\ TapsOK /\ PlaceOK /\ PageOK /\ CashOK
        /\ CartOK /\ ClearedOK /\ PointOK /\ PaidOK /\ Ledger
    BY DEF MoneyInv
  <1>3. ASSUME NEW f \in Offers(page), Touch(f) PROVE MoneyInv'
    <2> USE <1>2, <1>3 DEF Touch
    <2>1. TapsOK'
      <3>1. f \in Keys /\ OnPage(f, page) BY DEF Offers, OnPage
      <3>2. /\ at = "deal" /\ taps = <<>> /\ taps' = Append(taps, f)
            /\ f.adr # "bill_print" => Shopping
            /\ f.adr = "column_count" => CurrentPoint # 9
        BY DEF Orderly
      <3>3. taps' = <<f>> /\ taps' # <<>> /\ Len(taps') = 1 /\ Head(taps') = f BY <3>2
      <3>4. OnPage(Head(taps), page)' BY <3>1, <3>3 DEF OnPage
      <3>5. at' = "deal" /\ UNCHANGED <<Current, CurrentPoint>> BY <3>2
      <3>6. (f.adr # "bill_print" => Shopping') /\ (f.adr = "column_count" => CurrentPoint' # 9)
        BY <3>2, <3>5
      <3>7. Len(taps') = 1 /\ Head(taps') \in Keys BY <3>1, <3>3
      <3>8. /\ Head(taps').adr # "bill_print" => Shopping'
            /\ Head(taps').adr = "column_count" => CurrentPoint' # 9
        BY <3>3, <3>6
      <3>9. at' # "deal" => taps' = <<>> BY <3>5
      <3> QED BY <3>4, <3>7, <3>8, <3>9 DEF TapsOK
    <2>2. PlaceOK' BY DEF PlaceOK
    <2>3. PageOK' BY DEF PageOK, MealPages
    <2>4. CashOK' BY DEF CashOK
    <2>5. CartOK' BY DEF CartOK
    <2>6. ClearedOK' BY DEF ClearedOK, PayPages, Cleared
    <2>7. PointOK' BY DEF PointOK
    <2>8. PaidOK' BY DEF PaidOK
    <2>9. Ledger'
      <3>1. Uncounted' = Uncounted /\ Credit' = Credit /\ Owed' = Owed /\ MealsOwed' = MealsOwed
        BY DEF Uncounted, Credit, Owed, MealsOwed, Serving, Value
      <3> QED BY <3>1, LedgerTypes DEF Ledger
    <2> QED BY <1>1, <2>1, <2>2, <2>3, <2>4, <2>5, <2>6, <2>7, <2>8, <2>9 DEF MoneyInv
  <1>4. CASE Refill
    <2> USE <1>2, <1>4 DEF Refill
    <2>1. TapsOK' BY TapsKept DEF TapsOK
    <2>2. PlaceOK' BY DEF PlaceOK
    <2>3. PageOK' BY DEF PageOK, MealPages
    <2>4. CashOK' BY DEF CashOK
    <2>5. CartOK' BY DEF CartOK
    <2>6. ClearedOK' BY DEF ClearedOK, PayPages, Cleared
    <2>7. PointOK' BY DEF PointOK
    <2>8. PaidOK' BY DEF PaidOK
    <2>9. Ledger'
      <3>1. Uncounted' = Uncounted /\ Credit' = Credit /\ Owed' = Owed /\ MealsOwed' = MealsOwed
        BY DEF Uncounted, Credit, Owed, MealsOwed, Serving, Value
      <3> QED BY <3>1, LedgerTypes DEF Ledger
    <2> QED BY <1>1, <2>1, <2>2, <2>3, <2>4, <2>5, <2>6, <2>7, <2>8, <2>9 DEF MoneyInv
  <1>5. CASE AdminClears
    <2> USE <1>2, <1>5 DEF AdminClears, Reported
    <2>1. TapsOK' BY DEF TapsOK
    <2>2. PlaceOK' BY DEF PlaceOK
    <2>3. PageOK'
      <3>1. page \notin MealPages \cup PayPages /\ page' = page
        BY DEF PlaceOK, PageOK
      <3>2. \A k \in Kinds : page' # MealPage[k] BY <3>1, OffMealPage
      <3> QED BY <3>1, <3>2, ClearFacts DEF PageOK
    <2>4. CashOK' BY DEF PlaceOK, PageOK, CashOK
    <2>5. CartOK'
      <3>1. page' \notin PayPages BY DEF PlaceOK, PageOK
      <3>2. Current = "erro_hanle" /\ Cancle = 1 BY DEF PlaceOK
      <3>3. CASE ClearUserBuffer
        BY <3>1, <3>3, ClearFacts, NothingFacts, Tables DEF CartOK
      <3>4. CASE "SendUR6Erro" \notin erro_record /\ UNCHANGED <<cart, pay>>
        BY <3>1, <3>2, <3>4, NothingFacts DEF CartOK, ClearedOK, Cleared
      <3> QED BY <3>3, <3>4
    <2>6. ClearedOK' BY ClearFacts DEF PlaceOK, ClearedOK, Cleared
    <2>7. PointOK' BY DEF PlaceOK, PageOK, PointOK, PayPages
    <2>8. PaidOK' BY ClearFacts DEF PaidOK
    <2>9. Ledger'
      <3>1. Current = "erro_hanle" /\ Cancle = 1
        BY DEF PlaceOK
      <3>2. PayAlready' = 0
        BY <3>1, ClearFacts DEF ClearedOK, Cleared
      <3>3. Credit = 0 /\ Credit' = 0
        BY <3>1, <3>2 DEF Credit
      <3>4. MealsOwed = 0 /\ MealsOwed' = 0
        BY <3>1 DEF MealsOwed, Serving
      <3>5. Owed = 0 /\ Owed' = 0
        BY <3>1 DEF Owed
      <3>6. Uncounted' = Uncounted
        BY DEF Uncounted
      <3>7. UNCHANGED <<inserted, refunded, delivered, kept>>
        OBVIOUS
      <3> QED BY <3>1, <3>2, <3>3, <3>4, <3>5, <3>6, <3>7, LedgerTypes DEF Ledger
    <2> QED BY <1>1, <2>1, <2>2, <2>3, <2>4, <2>5, <2>6, <2>7, <2>8, <2>9 DEF MoneyInv
  <1>6. CASE AdminLeaves
    <2> USE <1>2, <1>6 DEF AdminLeaves
    <2>1. TapsOK'
      <3>1. taps # <<>> => Head(taps).adr # "meal_cnt" \/ MealPage[Head(taps).id] \in MealPages
        BY MealPageFacts DEF TapsOK, Keys
      <3>2. taps = <<>> BY <3>1 DEF TapsOK, OnPage, MealPages
      <3> QED BY <3>2, TapsGone
    <2>2. PlaceOK' BY DEF PlaceOK
    <2>3. PageOK'
      <3>1. \A k \in Kinds : page' # MealPage[k] BY OffMealPage DEF MealPages
      <3> QED BY <3>1 DEF PageOK, PayPages, MealPages
    <2>4. CashOK' BY DEF CashOK
    <2>5. CartOK'
      <3>1. \A k \in Kinds : page # MealPage[k] BY OffMealPage DEF MealPages
      <3> QED BY <3>1 DEF CartOK, PayPages
    <2>6. ClearedOK' BY DEF ClearedOK, PayPages
    <2>7. PointOK' BY DEF PointOK
    <2>8. PaidOK' BY DEF PaidOK
    <2>9. Ledger'
      <3>1. Uncounted' = Uncounted /\ Credit' = Credit /\ Owed' = Owed /\ MealsOwed' = MealsOwed
        BY DEF Uncounted, Credit, Owed, MealsOwed, Serving, Value
      <3> QED BY <3>1, LedgerTypes DEF Ledger
    <2> QED BY <1>1, <2>1, <2>2, <2>3, <2>4, <2>5, <2>6, <2>7, <2>8, <2>9 DEF MoneyInv
  <1> QED BY <1>3, <1>4, <1>5, <1>6 DEF People

(* So does a step that changes nothing. *)
LEMMA InvStutter == MoneyInv /\ UNCHANGED vars => MoneyInv'
  <1> SUFFICES ASSUME MoneyInv, UNCHANGED vars PROVE MoneyInv'
      OBVIOUS
  <1> USE DEF vars, loop, times, cart, pay, back, cash
  <1>1. TypeOK' BY FromMoneyInv, TypedStutter DEF Typed
  <1>2. TapsOK' BY DEF MoneyInv, TapsOK, OnPage, Shopping
  <1>3. PlaceOK' /\ PageOK' /\ CashOK' BY DEF MoneyInv, PlaceOK, PageOK, CashOK, Shopping
  <1>4. CartOK' BY DEF MoneyInv, CartOK, Shopping, Value
  <1>5. ClearedOK' /\ PointOK' /\ PaidOK'
    BY DEF MoneyInv, ClearedOK, Cleared, PointOK, PaidOK, Shopping
  <1>6. Ledger' BY DEF MoneyInv, Ledger, Uncounted, Credit, Owed, MealsOwed, Serving, Shopping, Value
  <1> QED BY <1>1, <1>2, <1>3, <1>4, <1>5, <1>6 DEF MoneyInv

(* The invariant holds at first. *)
LEMMA InvInit == Orderly /\ Init => MoneyInv
  <1> SUFFICES ASSUME Orderly, Init PROVE MoneyInv
      OBVIOUS
  <1> USE DEF Init, Shopping
  <1>1. TypeOK BY TypedInit DEF Typed
  <1>2. TapsOK /\ PlaceOK /\ CashOK BY DEF TapsOK, PlaceOK, CashOK
  <1>3. PageOK BY OffMealPage DEF PageOK, PayPages, MealPages
  <1>4. CartOK BY NothingFacts, Tables DEF CartOK, PayPages
  <1>5. ClearedOK /\ PointOK /\ PaidOK BY DEF ClearedOK, Cleared, PointOK, PayPages, PaidOK
  <1>6. Ledger BY NothingFacts DEF Ledger, Uncounted, Credit, Owed, MealsOwed, Serving
  <1> QED BY <1>1, <1>2, <1>3, <1>4, <1>5, <1>6 DEF MoneyInv

(* For a customer without the habits and a stock too small for the 8-bit product to *)
(* overflow the invariant holds in every state of every run.                        *)
THEOREM Inductive == Orderly => (Spec => []MoneyInv)
  <1> SUFFICES ASSUME Orderly PROVE Spec => []MoneyInv
      OBVIOUS
  <1>1. Init => MoneyInv BY InvInit
  <1>2. MoneyInv /\ [Next]_vars => MoneyInv'
    BY InvScreen, InvLoop, InvWait, InvServe, InvInterrupt, InvPeople, InvStutter
       DEF Next, MainLoop
  <1> QED BY <1>1, <1>2, PTL DEF Spec

(* All the money ever inserted is accounted for: it was refunded, paid for meals   *)
(* handed out, is still credited, owed, or waits for meals to come, or was lost in *)
(* one of the named steps.  This is about every addition to PayAlready, every      *)
(* settlement, cancellation, timeout and failed delivery.                          *)
THEOREM LedgerHolds == Orderly => (Spec => []Ledger)
  <1>1. MoneyInv => Ledger BY DEF MoneyInv
  <1> QED BY <1>1, Inductive, PTL

(* The part of the ledger that is not negative bounds what was handed out. *)
LEMMA GiveawayFromInv == MoneyInv => NoGiveaway
  <1> SUFFICES ASSUME MoneyInv PROVE NoGiveaway
      OBVIOUS
  <1>1. Value(MealCnt) \in Nat BY ValueNat DEF MoneyInv, TypeOK, CartType
  <1>2. MealsOwed \in Nat BY <1>1 DEF MealsOwed
  <1>3. Uncounted \in Nat /\ Credit \in Nat
    BY DEF MoneyInv, TypeOK, MoneyType, AccType, PaidOK, Uncounted, Credit
  <1>4. Owed \in Nat BY DEF MoneyInv, TypeOK, MoneyType, PaidOK, Owed
  <1>5. refunded \in Nat /\ delivered \in Nat /\ kept \in Nat
    BY DEF MoneyInv, TypeOK, MoneyType, PaidOK
  <1>6. Ledger BY DEF MoneyInv
  <1> QED BY <1>2, <1>3, <1>4, <1>5, <1>6 DEF Ledger, NoGiveaway

(* The machine never pays out and hands out more than was inserted. *)
THEOREM NothingGivenAway == Orderly => (Spec => []NoGiveaway)
  BY Inductive, GiveawayFromInv, PTL

(* Where timer 3 may expire no money is in. *)
LEMMA SafeFromInv == MoneyInv => ClearIsSafe
  BY DEF MoneyInv, PageOK, PayPages, ClearedOK, CashOK, PlaceOK, ClearIsSafe, Shopping

(* Timer 3, which clears the customer's data from an interrupt, never does so while *)
(* money is credited or a sale is being served.                                     *)
THEOREM TimerClearsSafely == Orderly => (Spec => []ClearIsSafe)
  BY Inductive, SafeFromInv, PTL

(* On the pages where it is paid the sum is the value of the cart. *)
LEMMA BillFromInv == MoneyInv => BillMatchesCart
  BY DEF MoneyInv, CartOK, PayPages, BillMatchesCart

(* The sum a customer is asked for is the value of the meals that will be delivered. *)
THEOREM BillIsRight == Orderly => (Spec => []BillMatchesCart)
  BY Inductive, BillFromInv, PTL
=============================================================================
