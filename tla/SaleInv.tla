------------------------------ MODULE SaleInv ------------------------------
(***************************************************************************)
(* The inductive invariant behind Ledger, NoGiveaway and CartInStock, for  *)
(* a customer without any of CustomerHabits and a stock too small for      *)
(* GetMealPrice to overflow.                                               *)
(***************************************************************************)
EXTENDS Sale

Orderly == Habits = {} /\ \A k \in Kinds : Price[k] * Stock0[k] < CharMod

PayPages  == {"Acount", "Acount2", "Cardbalence"}
Cleared   == /\ MealCnt = Nothing /\ MealCnt_t = Nothing /\ MealCost = Nothing
             /\ PayShould = 0 /\ PayAlready = 0 /\ PayForCards = 0

(* A frame waits only while the main loop reads the screen, and still belongs *)
(* to the page it was touched on, or timer 4 took that page away.             *)
TapsOK ==
  /\ at # "deal" => taps = <<>>
  /\ taps # <<>> => Len(taps) = 1 /\ Head(taps) \in Keys
  /\ taps # <<>> =>
       /\ \/ OnPage(Head(taps), page)
          \/ page = "Mealout" /\ Head(taps).adr \in {"meal_choose", "bill_print"}
       /\ Head(taps).adr # "bill_print" => Shopping
       /\ Head(taps).adr = "column_count" => CurrentPoint # 9

(* The place of the main loop fits its state. *)
PlaceOK ==
  /\ at \in {"read", "add", "card", "tail"} => Current = "waitfor_money"
  /\ at \in {"read", "add"} => CurrentPoint = 3 /\ (acc[2] = 0 \/ page = "Acount2")
  /\ at = "add" => acc[2] # 0
  /\ at = "card" => CurrentPoint \in {7, 8} /\ page = "Cardbalence"
  /\ at = "close" => Current = "hpper_out" /\ Cancle = 0
  /\ at = "arm" => Current = "meal_out"
  /\ at = "abnormal" => Current = "erro_hanle"
  /\ Current \in {"meal_out", "data_upload"} => Cancle = 0
  /\ Current = "erro_hanle" => Cancle = 1

(* So do the page shown and the timers. *)
PageOK ==
  /\ page \in PayPages => Current = "waitfor_money"
  /\ page \in MealPages => Shopping /\ WaitTime > 0
  /\ \A k \in Kinds : page = MealPage[k] => MealID = k
  /\ 4 \in timers => page \notin PayPages \cup MealPages
  /\ 3 \in timers => page \notin PayPages /\ Shopping

(* Acceptors are powered, and a note waits to be read, only while cash is     *)
(* awaited or in the three seconds after a cash sale.                         *)
CashOK ==
  open # {} \/ bill # 0 =>
    \/ at = "close"
    \/ /\ Current = "waitfor_money" /\ page = "Acount2"
       /\ CurrentPoint = 2 \/ (CurrentPoint \in {3, 5, 6, 9} /\ PayType = "cash")

(* Counts fit the first stock, costs are prices times counts. *)
CartOK ==
  /\ \A k \in Kinds : MealCnt[k] <= Stock0[k] /\ MealCnt_t[k] <= Stock0[k] /\ stock[k] <= Stock0[k]
  /\ Shopping => \A k \in Kinds : page # MealPage[k] => MealCost[k] = Price[k] * MealCnt[k]
  /\ page \in PayPages => PayShould = Value(MealCnt)

(* Nothing is left of a sale that was cancelled or has not begun to be paid. *)
ClearedOK ==
  /\ Shopping /\ page \notin PayPages => PayAlready = 0 /\ PayForCards = 0
  /\ Current \in {"hpper_out", "erro_hanle"} /\ Cancle = 1 /\ "SendUR6Erro" \notin erro_record
       => Cleared

(* Which step of the payment was reached with how much money. *)
PointOK ==
  /\ Current # "waitfor_money" => CurrentPoint \in {0, 1}
  /\ Current = "waitfor_money" /\ page \notin PayPages => CurrentPoint = 0
  /\ Current = "waitfor_money" /\ CurrentPoint \in {7, 8} /\ at # "card" => page = "Acount2"
  /\ Current = "waitfor_money" /\ CurrentPoint = 9 => PayAlready >= PayShould
  /\ Current = "waitfor_money" /\ PayForCards > 0 => PayAlready >= PayShould /\ page = "Cardbalence"

PaidOK ==
  /\ PayAlready >= 0 /\ PayForCards >= 0 /\ kept >= 0
  /\ Current = "hpper_out" => MoneyBack >= 0
  /\ at = "card" => acc[2] = PayShould - PayAlready /\ PayForCards = 0
  /\ at \in {"read", "add"} => acc[1] \in 0..PayAlready /\ acc[2] >= 0
  /\ at = "arm" => MealID \in Kinds /\ MealCnt[MealID] > 0 /\ acc[2] = Price[MealID]

(* What the ledger needs: inductive by itself. *)
MoneyInv ==
  /\ TypeOK /\ TapsOK /\ PlaceOK /\ PageOK /\ CashOK
  /\ CartOK /\ ClearedOK /\ PointOK /\ PaidOK /\ Ledger

(* What is still to come of the cart: while the machine sells, neither the cart   *)
(* nor a count chosen on a meal's page, which the cart may become, exceeds the    *)
(* stock; while it serves, the cart does not, but for the meal on the arm, which  *)
(* has left the stock and not yet the cart.                                       *)
AskedOK ==
  /\ Shopping => \A k \in Kinds : MealCnt[k] <= stock[k] /\ MealCnt_t[k] <= stock[k]
  /\ Serving /\ at # "arm" => \A k \in Kinds : MealCnt[k] <= stock[k]
  /\ at = "arm" => \A k \in Kinds : MealCnt[k] <= stock[k] + (IF k = MealID THEN 1 ELSE 0)

IInv == MoneyInv /\ AskedOK
=============================================================================
