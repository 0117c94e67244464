-------------------------------- MODULE Sale --------------------------------
(***************************************************************************)
(* One sale of the vending machine, from the choice of a meal to the last  *)
(* coin of change: the main loop of src/projects/test/test_lcd.c with      *)
(* WaitPayMoney (bsp.c), the screen commands it executes                   *)
(* (ChangeVariableValues, serialscreen.c), the coin hopper, and the        *)
(* interrupts that change the same globals while it runs: the coin input   *)
(* and the timers 3, 4 and 7 (stm32f4xx_it.c).                             *)
(*                                                                         *)
(* `at' is where the main loop is: at DealSeriAceptData ("deal"), at the   *)
(* switch on Current ("switch"), or inside one of the calls that take long *)
(* enough for interrupts to matter.  Every interrupt is an action of its   *)
(* own and may come between any two of these.                              *)
(*                                                                         *)
(* The last four variables are history: the money the customer gave, what  *)
(* came back as coins, the value of the meals handed out, and the money    *)
(* the machine took without ever crediting it to a sale.                   *)
(***************************************************************************)
EXTENDS Integers, Sequences

CONSTANTS
  Price,        \* price_1st .. price_4th, in coins
  Stock0,       \* meals of each kind at the start
  Hopper0,      \* coins in the hopper at the start, and after a refill
  Bills,        \* values of the bank notes the validator stacks
  WaitMax,      \* the 60 s of WaitTimeInit
  AutoCash,     \* WaitTime below which the cash payment starts by itself (56)
  MealoutWait,  \* the 5 s of timer 4
  CharMod,      \* 2^8: GetMealPrice computes in a char
  ByteMod,      \* 2^8: SendOutN_Coin returns a uint8_t
  MaxInserted,  \* bound: money ever given to the machine
  MaxTaps,      \* bound: screen frames waiting in the receive buffer
  Habits        \* which of CustomerHabits the customer has

Kinds == 1..4

(***************************************************************************)
(* What a customer may do beyond touching one key at a time and waiting    *)
(* for the screen: "doubletap" touches again before the first frame is     *)
(* handled; "browse" uses the menu while a refund is still running;        *)
(* "dawdle" lets a countdown expire on a meal's page; "fiddle" changes a   *)
(* count on the account page between the check and the settlement.         *)
(***************************************************************************)
CustomerHabits == {"doubletap", "browse", "dawdle", "fiddle"}

ASSUME SaleAssumption ==
  /\ Price \in [Kinds -> Nat \ {0}]
  /\ Stock0 \in [Kinds -> Nat]
  /\ Hopper0 \in Nat
  /\ Bills \subseteq Nat \ {0}
  /\ WaitMax \in Nat \ {0} /\ AutoCash \in 0..WaitMax /\ MealoutWait \in Nat
  /\ CharMod \in Nat \ {0} /\ ByteMod \in Nat \ {0}
  /\ MaxInserted \in Nat /\ MaxTaps \in Nat \ {0}
  /\ Habits \subseteq CustomerHabits

VARIABLES
  Current,      \* state of the main loop
  CurrentPoint, \* step of WaitPayMoney
  at,           \* where the main loop is inside one pass
  page,         \* page shown on the screen
  taps,         \* frames received from the screen, not yet handled
  WaitTime,     \* the countdown in seconds that timers 3, 4 and 7 share
  timers,       \* which of these are enabled
  MealID, MealCnt, MealCnt_t, MealCost, DispMeal,
  PayShould, PayAlready, PayForCards, PayType, MoneyBack,
  Cancle,       \* 1 after a cancelled or failed purchase
  stock,        \* DefineMeal[..].MealCount
  hopper,       \* coins in the hopper
  open,         \* acceptors that are powered
  bill,         \* a stacked note not yet read (BillDataBuffer), 0 if none
  acc,          \* what an unfinished step holds: the operands of PayAlready +=, the
                \* sum to take from a card, the price of the meal on the arm
  erro_record,
  inserted, refunded, delivered, kept

loop  == <<Current, CurrentPoint, at>>
times == <<WaitTime, timers>>
cart  == <<MealID, MealCnt, MealCnt_t, MealCost>>
pay   == <<PayShould, PayAlready, PayForCards, PayType>>
back  == <<MoneyBack, Cancle>>
cash  == <<open, bill>>
vars  == <<loop, page, taps, times, cart, DispMeal, pay, back, stock, hopper,
           cash, acc, erro_record, inserted, refunded, delivered, kept>>

States == {"current_temperature", "waitfor_money", "hpper_out", "meal_out",
           "data_upload", "erro_hanle"}
Points == {0, 1, 2, 3, 5, 6, 7, 8, 9}
Places == {"deal", "switch", "read", "add", "card", "tail", "close", "arm", "abnormal"}
MealPage == <<"Meal1st", "Meal2rd", "Meal3ns", "Meal4th">>
MealPages == {"Meal1st", "Meal2rd", "Meal3ns", "Meal4th"}
Pages  == {"Menu", "Acount", "Acount2", "Cardbalence", "TicketPrint",
           "Mealout", "Err"} \cup MealPages
Erros  == {"coinhooperset_empty", "SendUR6Erro"}
Timers == {3, 4, 7}
Acceptors == {"coin", "bill"}

Nothing == [k \in Kinds |-> 0]
Value(cnt)  == cnt[1] * Price[1] + cnt[2] * Price[2] + cnt[3] * Price[3] + cnt[4] * Price[4]
SumCost(c)  == c[1] + c[2] + c[3] + c[4]
Meals(cnt)  == cnt[1] + cnt[2] + cnt[3] + cnt[4]

(* Mistakes one could make in the helpers below, with which the runs must fail: *)
(* a price that ignores the count, a clearing that forgets the money paid, a    *)
(* cart that adds a choice to the one it replaces, only the coin acceptor       *)
(* closed, a hopper driver that does not look at its empty sensor or waits      *)
(* until it can pay everything, a countdown that stops at one, and an error     *)
(* handling that clears only the error of the arm.                              *)
OnePrice(id, n) == IF id \in Kinds THEN Price[id] ELSE 0
ForgetsPaid ==
  /\ MealID' = 0 /\ MealCnt' = Nothing /\ MealCnt_t' = Nothing /\ MealCost' = Nothing
  /\ PayShould' = 0 /\ PayAlready' = PayAlready /\ PayForCards' = 0 /\ PayType' = "none"
AddsToCart ==
  IF MealID \in Kinds
  THEN /\ MealCnt' = [MealCnt EXCEPT ![MealID] = @ + MealCnt_t[MealID]]
       /\ MealCost' = [MealCost EXCEPT ![MealID] = @ + Price[MealID] * MealCnt_t[MealID]]
  ELSE UNCHANGED <<MealCnt, MealCost>>
ClosesCoins == open' = open \ {"coin"} /\ UNCHANGED <<bill, kept>>
PaysBlind(n) == n
PaysAllOrNone(n) == IF hopper < n THEN 0 ELSE n
CountToOne ==
  /\ WaitTime > 1
  /\ WaitTime' = WaitTime - 1
ReportsArm == {"SendUR6Erro"}

(* GetMealPrice: the product is cut to a char. *)
GetMealPrice(id, n) == IF id \in Kinds THEN (Price[id] * n) % CharMod ELSE 0

-----------------------------------------------------------------------------
(* The screen: a key sends a frame with the address of its variable, the meal *)
(* it is about, and a value.  Count keys ask for up to one meal too many.      *)
Frames == [adr : {"meal_choose", "meal_cnt", "column_count"}, id : Kinds, n : Nat]
            \cup [adr : {"mealcnt_choose", "payment_method", "bill_print"}, id : {0}, n : Nat]

Counts == UNION {0..(Stock0[k] + 1) : k \in Kinds}
Keys == [adr : {"meal_choose"}, id : Kinds, n : {0}]
          \cup {f \in [adr : {"meal_cnt", "column_count"}, id : Kinds, n : Counts] :
                  f.n <= Stock0[f.id] + 1}
          \cup [adr : {"mealcnt_choose"}, id : {0}, n : 2..4]
          \cup [adr : {"payment_method"}, id : {0}, n : 1..4]
          \cup [adr : {"bill_print"}, id : {0}, n : {1}]

OnPage(f, p) ==
  \/ f.adr = "meal_choose" /\ p = "Menu"
  \/ f.adr = "meal_cnt" /\ p = MealPage[f.id]
  \/ f.adr = "mealcnt_choose" /\ p \in MealPages
  \/ f.adr = "column_count" /\ p = "Acount" /\ f.id \in DispMeal
  \/ f.adr = "payment_method" /\ p \in {"Acount", "Acount2"}
  \/ f.adr = "bill_print" /\ p = "TicketPrint"
Offers(p) == {f \in Keys : OnPage(f, p)}

(* USART3_IRQHandler queues a frame; when is the customer's matter. *)
Touch(f) ==
  /\ f \in Offers(page)
  /\ Len(taps) < MaxTaps
  /\ "doubletap" \in Habits \/ (at = "deal" /\ taps = <<>>)
  /\ "browse" \in Habits \/ Current \in {"current_temperature", "waitfor_money"}
                         \/ f.adr = "bill_print"
  /\ "fiddle" \in Habits \/ f.adr # "column_count" \/ CurrentPoint # 9
  /\ taps' = Append(taps, f)
  /\ UNCHANGED <<loop, page, times, cart, DispMeal, pay, back, stock, hopper,
                 cash, acc, erro_record, inserted, refunded, delivered, kept>>

-----------------------------------------------------------------------------
(* Functions of the program that several steps call. *)

(* ClearUserBuffer leaves MoneyBack and Cancle alone. *)
ClearUserBuffer ==
  /\ MealID' = 0 /\ MealCnt' = Nothing /\ MealCnt_t' = Nothing /\ MealCost' = Nothing
  /\ PayShould' = 0 /\ PayAlready' = 0 /\ PayForCards' = 0 /\ PayType' = "none"

(* Both power the coin acceptor, then overwrite BillDataBuffer. *)
SetCashSystem(acceptors) ==
  /\ open' = acceptors
  /\ bill' = 0 /\ kept' = kept + bill
CloseCashSystem == SetCashSystem({})
OpenCashSystem  == SetCashSystem(Acceptors)

(* PutIntoShopCart: MealID = 0 selects no case of its switch. *)
CartWith(cnt, c) ==
  /\ MealCnt' = cnt /\ MealCost' = c
PutIntoShopCart ==
  IF MealID \in Kinds
  THEN CartWith([MealCnt EXCEPT ![MealID] = MealCnt_t[MealID]],
                [MealCost EXCEPT ![MealID] = GetMealPrice(MealID, MealCnt_t[MealID])])
  ELSE CartWith(MealCnt, MealCost)

-----------------------------------------------------------------------------
(* Screen commands: ChangeVariableValues, called from DealSeriAceptData, which *)
(* the card payment and AbnormalHandle call too while they wait.               *)
Command(adr) ==
  /\ at \in {"deal", "card", "abnormal"}
  /\ taps # <<>> /\ Head(taps).adr = adr
  /\ taps' = Tail(taps)
  /\ UNCHANGED <<at, acc, stock, hopper, erro_record, inserted, refunded, delivered>>

meal_choose ==
  /\ Command("meal_choose")
  /\ LET k == Head(taps).id IN
     \/ /\ stock[k] > 0
        /\ MealID' = k
        /\ MealCnt_t' = [MealCnt_t EXCEPT ![k] = 1]
        /\ WaitTime' = WaitMax /\ timers' = (timers \ {4}) \cup {3}
        /\ page' = MealPage[k]
     \/ /\ stock[k] = 0
        /\ timers' = timers \ {4}
        /\ UNCHANGED <<MealID, MealCnt_t, WaitTime, page>>
  /\ UNCHANGED <<Current, CurrentPoint, MealCnt, MealCost, DispMeal, pay, back, cash, kept>>

(* meat_cnt, chicken_cnt, duck_cnt, fish_cnt: the cost is not recomputed when *)
(* the count is cut to the stock.                                             *)
meal_cnt ==
  /\ Command("meal_cnt")
  /\ LET k == Head(taps).id
         n == Head(taps).n IN
     \/ /\ n <= stock[k]
        /\ MealCnt_t' = [MealCnt_t EXCEPT ![k] = n]
        /\ MealCost' = [MealCost EXCEPT ![k] = GetMealPrice(MealID, n)]
     \/ /\ n > stock[k]
        /\ MealCnt_t' = [MealCnt_t EXCEPT ![k] = stock[k]]
        /\ UNCHANGED MealCost
  /\ UNCHANGED <<Current, CurrentPoint, page, times, MealID, MealCnt, DispMeal, pay, back, cash, kept>>

ContinueShopping ==
  /\ Command("mealcnt_choose") /\ Head(taps).n = 2
  /\ PutIntoShopCart
  /\ page' = "Menu" /\ WaitTime' = WaitMax
  /\ UNCHANGED <<Current, CurrentPoint, timers, MealID, MealCnt_t, DispMeal, pay, back, cash, kept>>

(* SettleAccounts lists the kinds in the cart and sums their costs. *)
SettleAccounts ==
  /\ DispMeal' = {k \in Kinds : MealCnt'[k] > 0}
  /\ PayShould' = SumCost(MealCost')
  /\ page' = "Acount"

GoToCart ==
  /\ Command("mealcnt_choose") /\ Head(taps).n = 3
  /\ PutIntoShopCart
  /\ \/ /\ Meals(MealCnt') > 0
        /\ SettleAccounts
        /\ timers' = (timers \ {3}) \cup {7} /\ WaitTime' = WaitMax
        /\ Current' = "waitfor_money"
     \/ /\ Meals(MealCnt') = 0
        /\ UNCHANGED <<DispMeal, PayShould, page, times, Current>>
  /\ UNCHANGED <<CurrentPoint, MealID, MealCnt_t, PayAlready, PayForCards, PayType, back, cash, kept>>

CancelMeal ==
  /\ Command("mealcnt_choose") /\ Head(taps).n = 4
  /\ ClearUserBuffer
  /\ page' = "Menu" /\ timers' = timers \ {3}
  /\ Current' = "current_temperature"
  /\ UNCHANGED <<CurrentPoint, WaitTime, DispMeal, back, cash, kept>>

column_count ==
  /\ Command("column_count")
  /\ LET k == Head(taps).id
         n == Head(taps).n IN
     \/ /\ n <= stock[k]
        /\ MealCnt' = [MealCnt EXCEPT ![k] = n]
        /\ MealCost' = [MealCost EXCEPT ![k] = n * Price[k]]
     \/ /\ n > stock[k]
        /\ UNCHANGED <<MealCnt, MealCost>>
  /\ PayShould' = SumCost(MealCost')
  /\ UNCHANGED <<Current, CurrentPoint, page, times, MealID, MealCnt_t, DispMeal,
                 PayAlready, PayForCards, PayType, back, cash, kept>>

(* payment_method 1..3, when there is something to pay. *)
ChoosePayment ==
  /\ Command("payment_method") /\ Head(taps).n \in 1..3
  /\ PayShould # 0
  /\ MealCnt_t' = MealCnt
  /\ page' = "Acount2"
  /\ \/ Head(taps).n = 1 /\ CurrentPoint' = 2 /\ OpenCashSystem
     \/ Head(taps).n = 2 /\ CurrentPoint' = 7 /\ CloseCashSystem
     \/ Head(taps).n = 3 /\ CurrentPoint' = 8 /\ CloseCashSystem
  /\ UNCHANGED <<Current, times, MealID, MealCnt, MealCost, DispMeal, pay, back>>

(* payment_method 4, or any payment of nothing (goto loop7). *)
CancelPayment ==
  /\ Command("payment_method")
  /\ Head(taps).n = 4 \/ PayShould = 0
  /\ CloseCashSystem
  /\ timers' = timers \ {3, 7}
  /\ CurrentPoint' = 0
  /\ MoneyBack' = PayAlready
  /\ ClearUserBuffer
  /\ Cancle' = 1
  /\ page' = "Menu"
  /\ Current' = "hpper_out"
  /\ UNCHANGED <<WaitTime, DispMeal>>

bill_print ==
  /\ Command("bill_print")
  /\ timers' = timers \ {4}
  /\ page' = IF at = "abnormal" THEN page ELSE "Mealout"
  /\ UNCHANGED <<Current, CurrentPoint, WaitTime, cart, DispMeal, pay, back, cash, kept>>

ScreenCommand ==
  \/ meal_choose \/ meal_cnt \/ ContinueShopping \/ GoToCart \/ CancelMeal
  \/ column_count \/ ChoosePayment \/ CancelPayment \/ bill_print

(* DealSeriAceptData returns when no frame is left. *)
DealDone ==
  /\ at = "deal" /\ taps = <<>>
  /\ at' = "switch"
  /\ UNCHANGED <<Current, CurrentPoint, page, taps, times, cart, DispMeal, pay, back, stock,
                 hopper, cash, acc, erro_record, inserted, refunded, delivered, kept>>

-----------------------------------------------------------------------------
(* Interrupts. *)

(* EXTI15_10.  A coin that comes after the settlement is credited to no sale. *)
CoinIn ==
  /\ "coin" \in open /\ inserted < MaxInserted
  /\ PayAlready' = PayAlready + 1
  /\ hopper' = hopper + 1
  /\ inserted' = inserted + 1
  /\ kept' = IF Current = "waitfor_money" THEN kept ELSE kept + 1
  /\ UNCHANGED <<loop, page, taps, times, cart, DispMeal, PayShould, PayForCards, PayType,
                 back, stock, cash, acc, erro_record, refunded, delivered>>

(* UART4: the validator reports a stacked note; the buffer holds one report. *)
BillIn(v) ==
  /\ "bill" \in open /\ inserted + v <= MaxInserted
  /\ bill' = v
  /\ kept' = kept + bill
  /\ inserted' = inserted + v
  /\ UNCHANGED <<loop, page, taps, times, cart, DispMeal, pay, back, stock, hopper,
                 open, acc, erro_record, refunded, delivered>>

CountDown ==
  /\ WaitTime > 0
  /\ "dawdle" \in Habits \/ WaitTime > 1 \/ page \notin MealPages
  /\ WaitTime' = WaitTime - 1

Tick3 ==
  /\ 3 \in timers
  /\ \/ CountDown /\ UNCHANGED <<timers, cart, pay>>
     \/ WaitTime = 0 /\ timers' = timers \ {3} /\ ClearUserBuffer /\ UNCHANGED WaitTime
  /\ UNCHANGED <<loop, page, taps, DispMeal, back, stock, hopper, cash, acc,
                 erro_record, inserted, refunded, delivered, kept>>

(* erro_flag is set while AbnormalHandle waits for the administrator. *)
Tick4 ==
  /\ 4 \in timers
  /\ \/ CountDown /\ UNCHANGED <<timers, page>>
     \/ /\ WaitTime = 0
        /\ timers' = timers \ {4}
        /\ page' = IF at = "abnormal" THEN page ELSE "Mealout"
        /\ UNCHANGED WaitTime
  /\ UNCHANGED <<loop, taps, cart, DispMeal, pay, back, stock, hopper, cash, acc,
                 erro_record, inserted, refunded, delivered, kept>>

Tick7 ==
  /\ 7 \in timers
  /\ \/ CountDown /\ UNCHANGED timers
     \/ WaitTime = 0 /\ timers' = timers \ {7} /\ UNCHANGED WaitTime
  /\ UNCHANGED <<loop, page, taps, cart, DispMeal, pay, back, stock, hopper, cash,
                 acc, erro_record, inserted, refunded, delivered, kept>>

Interrupt == CoinIn \/ (\E v \in Bills : BillIn(v)) \/ Tick3 \/ Tick4 \/ Tick7

-----------------------------------------------------------------------------
(* The main loop's switch. *)
In(state) == at = "switch" /\ Current = state

Idle ==
  /\ In("current_temperature")
  /\ at' = "deal"
  /\ IF MealID # 0 /\ WaitTime = 0
     THEN page' = "Menu" /\ WaitTime' = WaitMax
     ELSE UNCHANGED <<page, WaitTime>>
  /\ UNCHANGED <<Current, CurrentPoint, taps, timers, cart, DispMeal, pay, back, stock,
                 hopper, cash, acc, erro_record, inserted, refunded, delivered, kept>>

-----------------------------------------------------------------------------
(* waitfor_money: WaitPayMoney. *)
Point(p) == In("waitfor_money") /\ CurrentPoint = p

(* Cases 0, 1, 2, 5 and 6. *)
AwaitPayment ==
  /\ In("waitfor_money")
  /\ \/ CurrentPoint = 0 /\ UNCHANGED <<CurrentPoint, PayType>>
     \/ /\ CurrentPoint = 1
        /\ IF WaitTime < AutoCash
           THEN CurrentPoint' = 3 /\ PayType' = "cash"
           ELSE UNCHANGED <<CurrentPoint, PayType>>
     \/ CurrentPoint = 2 /\ CurrentPoint' = 3 /\ PayType' = "cash"
     \/ CurrentPoint = 5 /\ CurrentPoint' = 6 /\ UNCHANGED PayType
     \/ /\ CurrentPoint = 6
        /\ CurrentPoint' = IF PayAlready + PayForCards >= PayShould THEN 9 ELSE 3
        /\ UNCHANGED PayType
  /\ at' = "tail"
  /\ UNCHANGED <<Current, page, taps, times, cart, DispMeal, PayShould, PayAlready, PayForCards,
                 back, stock, hopper, cash, acc, erro_record, inserted, refunded, delivered, kept>>

(* Case 3.  ReadBill takes the note out of the buffer; ReadBills clears the     *)
(* buffer again, with any note that came in between; and the += loads          *)
(* PayAlready before it stores the sum.                                         *)
ReadBills ==
  /\ Point(3)
  /\ bill' = 0 /\ acc' = <<0, bill>>
  /\ at' = "read"
  /\ UNCHANGED <<Current, CurrentPoint, page, taps, times, cart, DispMeal, pay, back, stock,
                 hopper, open, erro_record, inserted, refunded, delivered, kept>>

BillsRead ==
  /\ at = "read"
  /\ bill' = 0 /\ kept' = kept + bill
  /\ \/ acc[2] = 0 /\ CurrentPoint' = 5 /\ at' = "tail" /\ UNCHANGED acc
     \/ acc[2] # 0 /\ acc' = <<PayAlready, acc[2]>> /\ at' = "add" /\ UNCHANGED CurrentPoint
  /\ UNCHANGED <<Current, page, taps, times, cart, DispMeal, pay, back, stock, hopper,
                 open, erro_record, inserted, refunded, delivered>>

AddBill ==
  /\ at = "add"
  /\ PayAlready' = acc[1] + acc[2]
  /\ kept' = kept + (PayAlready - acc[1])
  /\ acc' = <<0, 0>>
  /\ CurrentPoint' = 5 /\ at' = "tail"
  /\ UNCHANGED <<Current, page, taps, times, cart, DispMeal, PayShould, PayForCards, PayType,
                 back, stock, hopper, cash, erro_record, inserted, refunded, delivered>>

(* Cases 7 and 8, up to GpbocDeduct and SztDeduct, which wait for a card. *)
AskForCard ==
  /\ In("waitfor_money") /\ CurrentPoint \in {7, 8}
  /\ WaitTime' = WaitMax /\ page' = "Cardbalence" /\ PayType' = "card"
  /\ acc' = <<0, PayShould - PayAlready>>
  /\ at' = "card"
  /\ UNCHANGED <<Current, CurrentPoint, taps, timers, cart, DispMeal, PayShould,
                 PayAlready, PayForCards, back, stock, hopper, cash, erro_record, inserted,
                 refunded, delivered, kept>>

(* Both end in UART3_ClrRxBuf. *)
CardPaid ==
  /\ at = "card" /\ acc[2] >= 0 /\ inserted + acc[2] <= MaxInserted
  /\ inserted' = inserted + acc[2]
  /\ PayForCards' = PayShould - PayAlready
  /\ PayAlready' = PayShould
  /\ CurrentPoint' = 6 /\ at' = "tail" /\ acc' = <<0, 0>>
  /\ taps' = <<>>
  /\ kept' = kept + (acc[2] - (PayShould - PayAlready))
  /\ UNCHANGED <<Current, page, times, cart, DispMeal, PayShould, PayType, back, stock, hopper,
                 cash, erro_record, refunded, delivered>>

(* No card, the cancel key, too little on the card, or no usable answer once *)
(* the charge was sent: then the card may have been charged.                 *)
CardFails ==
  /\ at = "card"
  /\ \E n \in {0, acc[2]} : /\ n >= 0 /\ inserted + n <= MaxInserted
                            /\ inserted' = inserted + n /\ kept' = kept + n
  /\ WaitTime' = WaitMax /\ page' = "Acount2" /\ PayType' = "none"
  /\ CurrentPoint' = 1 /\ at' = "tail" /\ acc' = <<0, 0>>
  /\ taps' = <<>>
  /\ UNCHANGED <<Current, timers, cart, DispMeal, PayShould, PayAlready, PayForCards,
                 back, stock, hopper, cash, erro_record, refunded, delivered>>

(* Case 9, and what test_lcd.c does when WaitPayMoney returns Status_OK. *)
Settle ==
  /\ Point(9)
  /\ MoneyBack' = PayAlready - PayShould
  /\ timers' = timers \ {3, 7}
  /\ CurrentPoint' = 0
  /\ page' = "TicketPrint"
  /\ Cancle' = 0
  /\ Current' = "hpper_out"
  /\ at' = IF PayType = "cash" THEN "close" ELSE "deal"
  /\ UNCHANGED <<taps, WaitTime, cart, DispMeal, pay, stock, hopper, cash, acc,
                 erro_record, inserted, refunded, delivered, kept>>

(* delay_ms(3000), then CloseCashSystem. *)
CloseAfterCash ==
  /\ at = "close"
  /\ CloseCashSystem
  /\ at' = "deal"
  /\ UNCHANGED <<Current, CurrentPoint, page, taps, times, cart, DispMeal, pay, back, stock,
                 hopper, acc, erro_record, inserted, refunded, delivered>>

(* The end of WaitPayMoney. *)
WaitMore ==
  /\ at = "tail" /\ WaitTime # 0
  /\ at' = "deal"
  /\ UNCHANGED <<Current, CurrentPoint, page, taps, times, cart, DispMeal, pay, back, stock,
                 hopper, cash, acc, erro_record, inserted, refunded, delivered, kept>>

PayTimeout ==
  /\ at = "tail" /\ WaitTime = 0
  /\ at' = "deal"
  /\ WaitTime' = WaitMax
  /\ page' = "Menu"
  /\ CloseCashSystem
  /\ CurrentPoint' = 0
  /\ MoneyBack' = PayAlready
  /\ ClearUserBuffer
  /\ Current' = IF PayAlready > 0 THEN "hpper_out" ELSE Current
  /\ UNCHANGED <<taps, timers, DispMeal, Cancle, stock, hopper, acc, erro_record,
                 inserted, refunded, delivered>>

WaitPayMoney ==
  \/ AwaitPayment \/ ReadBills \/ BillsRead \/ AddBill \/ AskForCard \/ CardPaid \/ CardFails
  \/ Settle \/ CloseAfterCash \/ WaitMore \/ PayTimeout

-----------------------------------------------------------------------------
(* hpper_out, meal_out, data_upload, erro_hanle. *)

(* SendOutN_Coin: coins are thrown until n are out or the empty sensor speaks. *)
SendOutN_Coin(n) == IF hopper < n THEN hopper ELSE n

(* It returns the coins it could not pay as a uint8_t. *)
PayOut ==
  /\ In("hpper_out") /\ MoneyBack > 0
  /\ LET paid == SendOutN_Coin(MoneyBack)
         left == MoneyBack - paid
     IN  /\ hopper' = hopper - paid
         /\ refunded' = refunded + paid
         /\ MoneyBack' = left % ByteMod
         /\ kept' = kept + (left - (left % ByteMod))
         /\ erro_record' = IF paid < MoneyBack THEN erro_record \cup {"coinhooperset_empty"}
                                               ELSE erro_record
  /\ at' = "deal"
  /\ UNCHANGED <<Current, CurrentPoint, page, taps, times, cart, DispMeal, pay, Cancle, stock,
                 cash, acc, inserted, delivered>>

AfterPayOut ==
  /\ In("hpper_out") /\ MoneyBack <= 0
  /\ \/ /\ Cancle = 0
        /\ Current' = "meal_out"
        /\ WaitTime' = MealoutWait /\ timers' = timers \cup {4}
        /\ UNCHANGED Cancle
     \/ /\ Cancle = 1 /\ erro_record # {}
        /\ Current' = "erro_hanle"
        /\ UNCHANGED <<times, Cancle>>
     \/ /\ Cancle = 1 /\ erro_record = {}
        /\ Current' = "current_temperature"
        /\ Cancle' = 0
        /\ UNCHANGED times
  /\ at' = "deal"
  /\ UNCHANGED <<CurrentPoint, page, taps, cart, DispMeal, pay, MoneyBack, stock,
                 hopper, cash, acc, erro_record, inserted, refunded, delivered, kept>>

(* A technician fills an empty hopper. *)
Refill ==
  /\ hopper = 0
  /\ hopper' = Hopper0
  /\ UNCHANGED <<loop, page, taps, times, cart, DispMeal, pay, back, stock, cash, acc,
                 erro_record, inserted, refunded, delivered, kept>>

First(k) == MealCnt[k] > 0 /\ \A j \in 1..(k - 1) : MealCnt[j] = 0

(* WaitMeal cases 0 to 2: FindMeal, the stock counted down, the arm sent. *)
(* With no meal of the kind in stock FindMeal fails and the loop spins.   *)
SendArm(k) ==
  /\ In("meal_out") /\ First(k)
  /\ stock[k] > 0
  /\ MealID' = k
  /\ stock' = [stock EXCEPT ![k] = @ - 1]
  /\ acc' = <<0, Price[k]>>
  /\ at' = "arm"
  /\ UNCHANGED <<Current, CurrentPoint, page, taps, times, MealCnt, MealCnt_t, MealCost, DispMeal,
                 pay, back, hopper, cash, erro_record, inserted, refunded, delivered, kept>>

(* Cases 3 to 5. *)
Delivered ==
  /\ at = "arm"
  /\ MealCnt' = [k \in Kinds |-> IF k = MealID THEN MealCnt[k] - 1 ELSE MealCnt[k]]
  /\ delivered' = delivered + acc[2]
  /\ acc' = <<0, 0>>
  /\ page' = "Mealout"
  /\ Current' = "data_upload" /\ at' = "deal"
  /\ UNCHANGED <<CurrentPoint, taps, times, MealID, MealCnt_t, MealCost, DispMeal, pay, back,
                 stock, hopper, cash, erro_record, inserted, refunded, kept>>

ArmError ==
  /\ at = "arm"
  /\ erro_record' = erro_record \cup {"SendUR6Erro"}
  /\ MoneyBack' = Value(MealCnt)
  /\ page' = "Err"
  /\ Cancle' = 1
  /\ acc' = <<0, 0>>
  /\ Current' = "hpper_out" /\ at' = "deal"
  /\ UNCHANGED <<CurrentPoint, taps, times, cart, DispMeal, pay, stock, hopper, cash,
                 inserted, refunded, delivered, kept>>

MealsTaken ==
  /\ In("meal_out") /\ Meals(MealCnt) = 0
  /\ page' = "Menu"
  /\ MoneyBack' = 0
  /\ ClearUserBuffer
  /\ Current' = "current_temperature" /\ at' = "deal"
  /\ UNCHANGED <<CurrentPoint, taps, times, DispMeal, Cancle, stock, hopper, cash, acc,
                 erro_record, inserted, refunded, delivered, kept>>

DataUpload ==
  /\ In("data_upload")
  /\ Current' = "meal_out" /\ at' = "deal"
  /\ UNCHANGED <<CurrentPoint, page, taps, times, cart, DispMeal, pay, back, stock, hopper, cash,
                 acc, erro_record, inserted, refunded, delivered, kept>>

(* PollAbnormalHandle takes the highest error first. *)
PollAbnormalHandle ==
  /\ In("erro_hanle")
  /\ page' = "Err" /\ at' = "abnormal"
  /\ UNCHANGED <<Current, CurrentPoint, taps, times, cart, DispMeal, pay, back, stock, hopper,
                 cash, acc, erro_record, inserted, refunded, delivered, kept>>

(* PollAbnormalHandle: the error reported and then cleared, the highest first. *)
Reported ==
  IF "SendUR6Erro" \in erro_record THEN {"SendUR6Erro"} ELSE {"coinhooperset_empty"}

(* The administrator clears erro_flag: AbnormalHandle returns and the page stays. *)
AdminClears ==
  /\ at = "abnormal"
  /\ erro_record' = erro_record \ Reported
  /\ IF "SendUR6Erro" \in erro_record THEN ClearUserBuffer ELSE UNCHANGED <<cart, pay>>
  /\ IF erro_record' # {} THEN UNCHANGED <<Current, at>>
                          ELSE Current' = "current_temperature" /\ at' = "deal"
  /\ UNCHANGED <<CurrentPoint, page, taps, times, DispMeal, back, stock, hopper, cash, acc,
                 inserted, refunded, delivered, kept>>

(* password 0x12, refused while erro_flag is set, brings back the menu. *)
AdminLeaves ==
  /\ page = "Err" /\ Current = "current_temperature"
  /\ page' = "Menu"
  /\ UNCHANGED <<loop, taps, times, cart, DispMeal, pay, back, stock, hopper, cash, acc,
                 erro_record, inserted, refunded, delivered, kept>>

Serve ==
  \/ PayOut \/ AfterPayOut \/ (\E k \in Kinds : SendArm(k)) \/ Delivered \/ ArmError
  \/ MealsTaken \/ DataUpload \/ PollAbnormalHandle

-----------------------------------------------------------------------------
Init ==
  /\ Current = "current_temperature" /\ CurrentPoint = 1 /\ at = "deal"
  /\ page = "Menu" /\ taps = <<>>
  /\ WaitTime = 0 /\ timers = {}
  /\ MealID = 0 /\ MealCnt = Nothing /\ MealCnt_t = Nothing /\ MealCost = Nothing
  /\ DispMeal = {}
  /\ PayShould = 0 /\ PayAlready = 0 /\ PayForCards = 0 /\ PayType = "none"
  /\ MoneyBack = 0 /\ Cancle = 0
  /\ stock = Stock0 /\ hopper = Hopper0
  /\ open = {} /\ bill = 0
  /\ acc = <<0, 0>> /\ erro_record = {}
  /\ inserted = 0 /\ refunded = 0 /\ delivered = 0 /\ kept = 0

MainLoop == ScreenCommand \/ DealDone \/ Idle \/ WaitPayMoney \/ Serve
People   == (\E f \in Offers(page) : Touch(f)) \/ Refill \/ AdminClears \/ AdminLeaves

Next == MainLoop \/ Interrupt \/ People
Spec == Init /\ [][Next]_vars


(* The program never stops by itself: the main loop goes on, armed timers tick, *)
(* and an empty hopper or an error report is seen to in the end.                *)
Fairness ==
  /\ WF_vars(MainLoop)
  /\ WF_vars(Tick3) /\ WF_vars(Tick4) /\ WF_vars(Tick7)
  /\ WF_vars(Refill) /\ WF_vars(AdminClears)
FairSpec == Spec /\ Fairness

-----------------------------------------------------------------------------
(* TypeOK: every variable stays in the range the program's types and tables *)
(* give it.                                                                  *)
LoopType ==
  /\ Current \in States /\ CurrentPoint \in Points /\ at \in Places
  /\ page \in Pages /\ taps \in Seq(Frames)
  /\ PayType \in {"none", "cash", "card"} /\ Cancle \in {0, 1}
SetType ==
  /\ timers \in SUBSET Timers /\ open \in SUBSET Acceptors
  /\ erro_record \in SUBSET Erros /\ DispMeal \in SUBSET Kinds
CartType ==
  /\ MealID \in 0..4
  /\ MealCnt \in [Kinds -> Nat] /\ MealCnt_t \in [Kinds -> Nat]
  /\ MealCost \in [Kinds -> Nat] /\ stock \in [Kinds -> Nat]
MoneyType ==
  /\ WaitTime \in Nat /\ PayShould \in Nat /\ PayAlready \in Int /\ PayForCards \in Int
  /\ MoneyBack \in Int /\ bill \in Nat /\ hopper \in Nat
  /\ inserted \in Nat /\ refunded \in Nat /\ delivered \in Nat /\ kept \in Int
AccType == acc \in Int \X Int
TypeOK == LoopType /\ SetType /\ CartType /\ MoneyType /\ AccType

(* What the machine owes: notes not yet counted, and then whatever the state *)
(* of the main loop says is still to come.                                   *)
Shopping == Current \in {"current_temperature", "waitfor_money"}
Serving  == Current \in {"hpper_out", "meal_out", "data_upload"} /\ Cancle = 0
Uncounted == bill + (IF at \in {"read", "add"} THEN acc[2] ELSE 0)
Credit    == IF Shopping THEN PayAlready ELSE 0
Owed      == IF Current = "hpper_out" THEN MoneyBack ELSE 0
MealsOwed == IF Serving THEN Value(MealCnt) ELSE 0

(* Ledger: all money a customer gave came back as coins, was handed out as   *)
(* meals, is still owed to the customer, or was lost in one of the steps     *)
(* that add to kept; no other interleaving of the main loop with the coin    *)
(* interrupt, the timers and the screen loses or invents any.                *)
Ledger == inserted = refunded + delivered + kept + Uncounted + Credit + Owed + MealsOwed

(* NoGiveaway: the machine never hands out more, in coins and meals, than it *)
(* was given (Settle and the refund after an arm error subtract and multiply *)
(* separately kept totals).                                                  *)
NoGiveaway == refunded + delivered <= inserted

(* CartInStock: between two calls of the arm the cart asks for no more than  *)
(* is in stock, from the count keys (checked once, when touched) to the last *)
(* meal; otherwise WaitMeal would search for a meal for ever.                *)
CartInStock ==
  (Shopping \/ Serving) /\ at # "arm" => \A k \in Kinds : MealCnt[k] <= stock[k]

(* BillMatchesCart: from the account page to the settlement the price asked  *)
(* is the price of the cart, although counts and costs are stored apart and  *)
(* changed by different keys.                                                *)
BillMatchesCart ==
  Current = "waitfor_money" /\ page \in {"Acount", "Acount2", "Cardbalence"}
    => PayShould = Value(MealCnt)

(* ClearIsSafe: while timer 3 runs, whose interrupt clears all of the        *)
(* customer's data, no money is in and none can come in.                     *)
ClearIsSafe == 3 \in timers => PayAlready = 0 /\ open = {}

(* Contract: the sale implements SaleContract: change before meals, a failed *)
(* meal refunded with all that follow it, nothing sold while anything is     *)
(* owed.                                                                     *)
Received == IF Shopping THEN PayAlready + Uncounted ELSE 0
Given    == refunded + delivered
Promise == INSTANCE SaleContract WITH
  Worth <- {Price[k] : k \in Kinds}, ByteMod <- ByteMod,
  credit <- Received, owed <- Owed, meals <- MealsOwed, given <- Given
Contract == Promise!Spec

(* RefundNotDropped: the amount to pay back changes only by the coins paid   *)
(* (comment at serialscreen.c:1146).                                         *)
RefundNotDropped ==
  [][MoneyBack > 0 /\ MoneyBack' # MoneyBack
       => MoneyBack - MoneyBack' = (refunded' - refunded) + (kept' - kept)]_vars

(* NoteSurvivesRead: a note reported while the main loop is inside ReadBills *)
(* is still there afterwards (comment at bill.c:182).                        *)
NoteSurvivesRead == [][at = "read" /\ bill # 0 => bill' # 0]_vars

(* AlwaysResponsive: the main loop always comes back to read the screen.     *)
AlwaysResponsive == []<>(at = "deal")

(* RefundCompletes: coins to pay back are all paid, however often the hopper *)
(* runs empty.                                                               *)
RefundCompletes == MoneyBack > 0 ~> MoneyBack = 0

(* SaleEnds: a settled sale ends and the machine sells again.                *)
SaleEnds == ~Shopping ~> Shopping

(* AbandonedIsRefunded: when the customer walks away the money already paid  *)
(* in is given back (comment at bsp.c:222), if the countdown was running     *)
(* whenever the machine began to wait for a card.                            *)
WalksAway == <>[][\A f \in Offers(page) : ~Touch(f)]_vars
AbandonedIsRefunded ==
  [](at = "card" /\ WaitTime = WaitMax => 7 \in timers) /\ WalksAway
    => (PayAlready > 0 ~> PayAlready = 0)

(* CashWaitEnds: the same for customers who never ask for a card, whose       *)
(* countdown nothing but the timeout ends.                                    *)
CashWaitEnds ==
  [](CurrentPoint \notin {7, 8}) /\ WalksAway => (PayAlready > 0 ~> PayAlready = 0)
=============================================================================
