----------------------------- MODULE PowerFail ------------------------------
(***************************************************************************)
(* An outage and the start after it, for the customer's money: what        *)
(* PVD_IRQHandler and the main loop's SaveUserData leave in the backup     *)
(* registers, the coin interrupt that counts the hopper's coins in one of  *)
(* them (RTC_BKP_DR13, which also holds erro_record), and hardfawreInit    *)
(* with the alarms that follow it.                                         *)
(*                                                                         *)
(* A sale is reduced to what these need of it; Sale has it in full, and    *)
(* the cart and the table of meals across an outage are in Stock.  After   *)
(* the voltage interrupt the program runs on until the power is gone.      *)
(***************************************************************************)
EXTENDS Integers

CONSTANTS
  Price,       \* of a meal
  LowCoins,    \* coins below which the start stops (50)
  Coins,       \* coins in the hopper when it is filled
  MaxPay,      \* bound: coins a customer puts in
  MaxCart,     \* bound: meals in a sale
  HopperFull,  \* bound: coins the hopper takes
  MaxOutages   \* bound: outages

ASSUME PowerAssumption ==
  /\ Price \in Nat \ {0} /\ LowCoins \in Nat /\ Coins \in Nat \ {0} /\ MaxPay \in Nat
  /\ MaxCart \in Nat /\ HopperFull \in Nat /\ MaxOutages \in Nat

VARIABLES
  Current,     \* "coins", "data", "check": the start; "alarm", "poll": AbnormalHandle and
               \* PollAbnormalHandle; "idle", "pay", "refund", "meal", or "off"
  erro_record, \* errors, a bit for each
  erro_flag,   \* the error that waits for the administrator
  polling,     \* 1: AbnormalHandle is called by PollAbnormalHandle
  PayAlready, PayShould, MoneyBack, Cancle,
  CoinTotoal,  \* what the program takes for the number of coins
  DR11, DR12, DR13,  \* registers of PayAlready, of MoneyBack, and of erro_record and CoinTotoal
  saving,      \* "no", "done", or the register the main loop's SaveUserData writes next
  held,        \* the value it writes there; in a refund, the coins already given
  dying,       \* 1: the voltage is low
  hopper,      \* coins in the hopper
  outages,     \* counts up to its bound
  due,         \* ghost: credit at the last warning, and coins put in after it
  balance      \* ghost: coins put in, and put in again by the registers that outages leave, less
               \* coins given out and meals at their price

money  == <<PayAlready, PayShould, MoneyBack, Cancle>>
regs   == <<DR11, DR12, DR13>>
errors == <<erro_record, erro_flag, polling>>
save   == <<saving, held>>
ghosts == <<due, balance>>
vars   == <<Current, errors, money, CoinTotoal, regs, save, dying, hopper, outages, ghosts>>

outage_erro         == 1
coinhooperset_erro  == 5
coinhooperset_empty == 6
SendUR6Erro         == 27
Errors              == 1..29   \* up to MealNoAway
Bit(e)        == 2^e
Has(n, e)     == (n \div Bit(e)) % 2 = 1
Set(n, e)     == IF Has(n, e) THEN n ELSE n + Bit(e)
Without(n, e) == IF Has(n, e) THEN n - Bit(e) ELSE n

Init ==
  /\ Current = "coins" /\ erro_record = 0 /\ erro_flag = 0 /\ polling = 0
  /\ PayAlready = 0 /\ PayShould = 0 /\ MoneyBack = 0 /\ Cancle = 0
  /\ CoinTotoal = 0 /\ DR11 = 0 /\ DR12 = 0 /\ DR13 = 0
  /\ saving = "no" /\ held = 0 /\ dying = 0 /\ hopper = Coins
  /\ outages = 0 /\ due = 0 /\ balance = 0

(* ClearUserBuffer, for the money. *)
ClearUserBuffer == PayAlready' = 0 /\ PayShould' = 0

-----------------------------------------------------------------------------
(* A sale; none is begun once the voltage is low. *)

(* WaitPayMoney that gave up a customer who paid nothing stays in its state,   *)
(* with CurrentPoint 0: it does nothing, and the menu is shown.               *)
Paying == Current = "pay" /\ PayShould > 0
AtMenu == Current = "idle" \/ (Current = "pay" /\ PayShould = 0 /\ saving = "no")

Choose ==
  /\ AtMenu /\ dying = 0
  /\ \E n \in 1..MaxCart : PayShould' = n * Price
  /\ Current' = "pay" /\ saving' = "no" /\ held' = 0
  /\ UNCHANGED <<errors, PayAlready, MoneyBack, Cancle, CoinTotoal, regs, dying, hopper, outages, ghosts>>

(* The customer leaves the choice of meals: nothing was put in, nothing is    *)
(* given back.                                                                *)
LeaveMenu ==
  /\ AtMenu /\ ClearUserBuffer /\ Current' = "idle"
  /\ UNCHANGED <<errors, MoneyBack, Cancle, CoinTotoal, regs, save, dying, hopper, outages, ghosts>>

(* SaveUserData, as the main loop calls it: a value is loaded, then written. *)
SaveUserData ==
  /\ Current \in {"pay", "meal"}
  /\ \/ saving = "no"   /\ saving' = "DR13" /\ held' = erro_record /\ UNCHANGED regs
     \/ saving = "DR13" /\ saving' = "DR11" /\ held' = PayAlready  /\ DR13' = held /\ UNCHANGED <<DR11, DR12>>
     \/ saving = "DR11" /\ saving' = "DR12" /\ held' = MoneyBack   /\ DR11' = held /\ UNCHANGED <<DR12, DR13>>
     \/ saving = "DR12" /\ saving' = "done" /\ held' = 0           /\ DR12' = held /\ UNCHANGED <<DR11, DR13>>
  /\ UNCHANGED <<Current, errors, money, CoinTotoal, dying, hopper, outages, ghosts>>

(* Mutant: the counter is taken to be as wide as an int. *)
WideCoins(n) == CoinTotoal' = n /\ DR13' = n /\ UNCHANGED <<DR11, DR12>>

WriteCoins(n) == CoinTotoal' = n % 65536 /\ DR13' = n % 65536 /\ UNCHANGED <<DR11, DR12>>

(* EXTI15_10_IRQHandler for a coin of the customer. *)
CoinIn ==
  /\ Paying /\ PayAlready < MaxPay /\ hopper < HopperFull
  /\ PayAlready' = PayAlready + 1 /\ due' = due + dying /\ balance' = balance + 1 + dying
  /\ hopper' = hopper + 1 /\ WriteCoins(CoinTotoal + 1)
  /\ UNCHANGED <<Current, errors, PayShould, MoneyBack, Cancle, save, dying, outages>>

(* What WaitPayMoney and WaitMeal do follows the data saved in the same pass. *)
Saved == saving = "done" /\ saving' = "no" /\ UNCHANGED held

Settle ==
  /\ Paying /\ Saved /\ PayAlready >= PayShould
  /\ MoneyBack' = PayAlready - PayShould /\ Cancle' = 0 /\ Current' = "refund"
  /\ UNCHANGED <<errors, PayAlready, PayShould, CoinTotoal, regs, dying, hopper, outages, ghosts>>

WaitMore ==
  /\ Current = "pay" /\ Saved /\ (Paying => PayAlready < PayShould)
  /\ UNCHANGED <<Current, errors, money, CoinTotoal, regs, dying, hopper, outages, ghosts>>

(* The cancel key, handled before the data are saved. *)
CancelPayment ==
  /\ Paying /\ saving = "no"
  /\ MoneyBack' = PayAlready /\ ClearUserBuffer /\ Cancle' = 1 /\ Current' = "refund"
  /\ UNCHANGED <<errors, CoinTotoal, regs, save, dying, hopper, outages, ghosts>>

(* WaitPayMoney finds that the time is over. *)
PayTimeout ==
  /\ Paying /\ Saved
  /\ MoneyBack' = PayAlready /\ ClearUserBuffer
  /\ Current' = IF PayAlready > 0 THEN "refund" ELSE "pay"
  /\ UNCHANGED <<errors, Cancle, CoinTotoal, regs, dying, hopper, outages, ghosts>>

(* A coin of SendOutN_Coin, with the interrupt that counts it; MoneyBack is    *)
(* written when the function returns.                                         *)
SendOutN_Coin ==
  /\ Current = "refund" /\ MoneyBack > 0
  /\ \/ /\ hopper > 0 /\ hopper' = hopper - 1 /\ WriteCoins(CoinTotoal - 1) /\ balance' = balance - 1
        /\ IF held + 1 = MoneyBack THEN MoneyBack' = 0 /\ held' = 0
                                   ELSE held' = held + 1 /\ UNCHANGED MoneyBack
        /\ UNCHANGED erro_record
     \/ /\ hopper = 0 /\ MoneyBack' = MoneyBack - held /\ held' = 0
        /\ erro_record' = Set(erro_record, coinhooperset_empty)
        /\ UNCHANGED <<hopper, CoinTotoal, regs, balance>>
  /\ UNCHANGED <<Current, erro_flag, polling, PayAlready, PayShould, Cancle, saving, dying, outages, due>>

Refill ==
  /\ hopper = 0 /\ hopper' = Coins
  /\ UNCHANGED <<Current, errors, money, CoinTotoal, regs, save, dying, outages, ghosts>>

AfterPayOut ==
  /\ Current = "refund" /\ MoneyBack = 0
  /\ \/ Cancle = 0 /\ Current' = "meal" /\ balance' = balance - PayShould /\ UNCHANGED <<Cancle, polling>>
     \/ /\ Cancle = 1 /\ erro_record > 16 /\ Current' = "poll" /\ polling' = 1
        /\ UNCHANGED <<Cancle, balance>>
     \/ /\ Cancle = 1 /\ erro_record <= 16 /\ Current' = "idle" /\ Cancle' = 0
        /\ UNCHANGED <<polling, balance>>
  /\ UNCHANGED <<erro_record, erro_flag, PayAlready, PayShould, MoneyBack, CoinTotoal, regs, save, dying, hopper, outages, due>>

MealsTaken ==
  /\ Current = "meal" /\ Saved
  /\ ClearUserBuffer /\ MoneyBack' = 0 /\ Current' = "idle"
  /\ UNCHANGED <<errors, Cancle, CoinTotoal, regs, dying, hopper, outages, ghosts>>

(* The arm fails with meals still to come, and their price is paid back. *)
ArmError ==
  /\ Current = "meal" /\ Saved
  /\ \E n \in 1..MaxCart :
       n * Price <= PayShould /\ MoneyBack' = n * Price /\ balance' = balance + n * Price
  /\ erro_record' = Set(erro_record, SendUR6Erro) /\ Cancle' = 1 /\ Current' = "refund"
  /\ UNCHANGED <<erro_flag, polling, PayAlready, PayShould, CoinTotoal, regs, dying, hopper, outages, due>>

-----------------------------------------------------------------------------
(* Alarms. *)

(* PollAbnormalHandle comes to bit e next. *)
Highest(e) == Has(erro_record, e) /\ \A f \in Errors : f > e => ~Has(erro_record, f)

PollAbnormalHandle ==
  /\ Current = "poll"
  /\ \/ \E e \in Errors :
          /\ Highest(e) /\ erro_flag' = e /\ UNCHANGED polling
          /\ \/ (e = outage_erro => MoneyBack > 0) /\ Current' = "alarm" /\ UNCHANGED erro_record
             \/ e = outage_erro /\ MoneyBack = 0 /\ erro_record' = Without(erro_record, e) /\ UNCHANGED Current
     \/ /\ \A e \in Errors : ~Has(erro_record, e)
        /\ Current' = "idle" /\ polling' = 0 /\ UNCHANGED <<erro_record, erro_flag>>
  /\ UNCHANGED <<money, CoinTotoal, regs, save, dying, hopper, outages, ghosts>>

(* Mutant: the start checks the coins again after the alarm. *)
ResumeCheck == IF polling = 1 THEN "poll" ELSE "check"

(* Where AbnormalHandle returns to. *)
Resume == IF polling = 1 THEN "poll" ELSE "idle"

(* Mutant: an error of the arm is not one of them. *)
SevereLate(e) == e > SendUR6Erro

(* The errors after which the sale's data are cleared. *)
Severe(e) == e >= 16

(* The administrator clears the error (record_clear), and AbnormalHandle ends. *)
AdminClears ==
  /\ Current = "alarm" /\ erro_flag' = 0 /\ Current' = Resume
  /\ erro_record' = Without(erro_record, erro_flag) /\ DR13' = Without(erro_record, erro_flag)
  /\ IF Severe(erro_flag) THEN ClearUserBuffer /\ DR11' = 0 /\ DR12' = MoneyBack
                        ELSE UNCHANGED <<PayAlready, PayShould, DR11, DR12>>
  /\ UNCHANGED <<polling, MoneyBack, Cancle, CoinTotoal, save, dying, hopper, outages, ghosts>>

(* The administrator counts the coins (coins_in). *)
AdminSetsCoins ==
  /\ Current = "idle" /\ CoinTotoal # hopper /\ WriteCoins(hopper)
  /\ UNCHANGED <<Current, errors, money, save, dying, hopper, outages, ghosts>>

-----------------------------------------------------------------------------
(* Outage and start. *)

(* The voltage interrupt: the error is recorded, the data are saved. *)
Warning(errs, credit, back) ==
  /\ Current # "off" /\ dying = 0 /\ outages < MaxOutages
  /\ dying' = 1 /\ outages' = outages + 1
  /\ erro_record' = Set(erro_record, outage_erro)
  /\ DR13' = errs /\ DR11' = credit /\ DR12' = back
  /\ due' = PayAlready /\ balance' = balance + PayAlready
  /\ UNCHANGED <<Current, erro_flag, polling, money, CoinTotoal, save, hopper>>

(* Mutant: only the errors are saved. *)
SavesErrors == Warning(Set(erro_record, outage_erro), DR11, DR12)

PVD_IRQHandler == Warning(Set(erro_record, outage_erro), PayAlready, MoneyBack)

PowerGone ==
  /\ dying = 1 /\ dying' = 0 /\ Current' = "off"
  /\ erro_record' = 0 /\ erro_flag' = 0 /\ polling' = 0 /\ ClearUserBuffer /\ MoneyBack' = 0 /\ Cancle' = 0
  /\ CoinTotoal' = 0 /\ saving' = "no" /\ held' = 0
  /\ UNCHANGED <<regs, hopper, outages, ghosts>>

PowerBack ==
  /\ Current = "off" /\ Current' = "coins"
  /\ UNCHANGED <<errors, money, CoinTotoal, regs, save, dying, hopper, outages, ghosts>>

ReadCoins ==
  /\ Current = "coins" /\ Current' = "data" /\ CoinTotoal' = DR13 % 65536
  /\ UNCHANGED <<errors, money, regs, save, dying, hopper, outages, ghosts>>

(* ReadUserData; then, with no error recorded, the data are cleared, and       *)
(* otherwise PowerupAbnormalHandle looks at bit 0 alone: AbnormalHandle(0)     *)
(* finds erro_flag = 0 and ends at once.  PayShould is set again before it is  *)
(* read.                                                                      *)
ReadUserData ==
  /\ Current = "data" /\ Current' = "check" /\ MoneyBack' = DR12
  /\ IF DR13 = 0 THEN ClearUserBuffer ELSE PayAlready' = DR11 /\ UNCHANGED PayShould
  /\ erro_record' = Without(DR13, 0) /\ DR13' = Without(DR13, 0)
  /\ UNCHANGED <<erro_flag, polling, Cancle, CoinTotoal, DR11, DR12, save, dying, hopper, outages, ghosts>>

CheckCoins ==
  /\ Current = "check"
  /\ \/ /\ CoinTotoal < LowCoins \/ hopper = 0
        /\ Current' = "alarm" /\ erro_flag' = coinhooperset_erro
        /\ erro_record' = Set(erro_record, coinhooperset_erro)
     \/ CoinTotoal >= LowCoins /\ hopper > 0 /\ Current' = "idle" /\ UNCHANGED <<erro_flag, erro_record>>
  /\ UNCHANGED <<polling, money, CoinTotoal, regs, save, dying, hopper, outages, ghosts>>

Start == PowerBack \/ ReadCoins \/ ReadUserData \/ CheckCoins

Step == \/ Choose \/ LeaveMenu \/ SaveUserData \/ CoinIn \/ Settle \/ WaitMore
        \/ CancelPayment \/ PayTimeout
        \/ SendOutN_Coin \/ Refill \/ AfterPayOut \/ MealsTaken \/ ArmError
        \/ PollAbnormalHandle \/ AdminClears \/ AdminSetsCoins \/ PowerGone \/ Start

Next == Step \/ PVD_IRQHandler

Spec == Init /\ [][Next]_vars

(* The power goes and comes back, the start runs, and the administrator is     *)
(* there when an alarm calls him.                                             *)
FairSpec == /\ Spec /\ WF_vars(PowerGone) /\ WF_vars(Start)
            /\ WF_vars(AdminClears) /\ WF_vars(PollAbnormalHandle)

-----------------------------------------------------------------------------
Word == {n \in Nat : n < 65536}  \* a uint16_t

(* The variables hold what the code can put into them. *)
TypeOK ==
  /\ Current \in {"coins", "data", "check", "alarm", "poll", "idle", "pay", "refund", "meal", "off"}
  /\ erro_record \in Nat /\ erro_flag \in {0} \cup Errors /\ polling \in {0, 1}
  /\ PayAlready \in 0..MaxPay /\ PayShould \in 0..(MaxCart * Price) /\ Cancle \in {0, 1}
  /\ MoneyBack \in Nat /\ CoinTotoal \in Word
  /\ DR11 \in 0..MaxPay /\ DR12 \in Nat /\ DR13 \in Nat
  /\ saving \in {"no", "DR13", "DR11", "DR12", "done"} /\ held \in Nat
  /\ dying \in {0, 1} /\ hopper \in Nat /\ outages \in 0..MaxOutages
  /\ due \in Nat /\ balance \in Int

(* What is left of an outage is no credit from an earlier sale: it is at most   *)
(* what the customer had put in when the voltage fell, and what he put in then. *)
NoCreditFromNowhere == Current = "off" => DR11 <= due

(* The owner loses nothing but what outages cost him, and each of them at most   *)
(* what the customer had put in when the voltage fell, and what he put in then:  *)
(* no coin and no meal is given twice for credit left from a refund, from a sale *)
(* the arm broke off, or from a save that the interrupt cut.                   *)
OutageCostsOnce == balance >= 0

(* A start comes to the menu, whatever it reads in the registers.             *)
StartEnds == Current \in {"off", "coins", "data", "check"} ~> Current = "idle"

(* The start that reads the mark of an outage and money still to be paid back   *)
(* raises the alarm of an outage.                                             *)
OutageIsReported ==
  [][Current = "data" /\ Current' = "check" /\ Has(DR13, outage_erro) /\ DR12 > 0
       => erro_flag' = outage_erro]_vars
=============================================================================
