---------------------------- MODULE PowerProofs -----------------------------
(***************************************************************************)
(* Theorems about PowerFail, for every price, hopper and number of         *)
(* outages.  For NoCreditFromNowhere the argument is in CreditInv: once    *)
(* the voltage is low, neither the credit in RAM nor the one saved exceeds *)
(* what is due, and a value of PayAlready that the main loop has loaded    *)
(* but not yet written is no more than PayAlready still is.  The types     *)
(* need HeldInv: no refund gives more coins than it owes.  For             *)
(* OutageCostsOnce, OwnerInv bounds the balance from below by what the     *)
(* program can still give out, in each of its states: the register between *)
(* outage and start, PayAlready while somebody may pay with it, what a     *)
(* refund still owes.  A credit that was paid back and not cleared may be  *)
(* left out of that sum because the mark of the arm's error, which no      *)
(* other error hides, sends the program to the alarm that clears it.       *)
(***************************************************************************)
EXTENDS PowerFail, FiniteSetTheorems, FunctionTheorems, TLAPS

Numbers == PayAlready \in Nat /\ DR11 \in Nat /\ due \in Nat /\ dying \in {0, 1}

OffInv    == Current = "off" => dying = 0 /\ DR11 <= due
DyingInv  == dying = 1 => PayAlready <= due /\ DR11 <= due
LoadedInv == saving = "DR11" => Current \in {"pay", "meal"} /\ held \in Nat /\ held <= PayAlready

CreditInv == Numbers /\ OffInv /\ DyingInv /\ LoadedInv

(* Steps that leave the credit, the registers and SaveUserData alone, and do   *)
(* not end the program.                                                       *)
LEMMA OtherStep ==
  ASSUME CreditInv,
         UNCHANGED <<PayAlready, DR11, due, dying, held>>,
         saving' = saving \/ saving' # "DR11",
         Current' # "off",
         saving = "DR11" => saving' # "DR11"
  PROVE  CreditInv'
  BY DEF CreditInv, Numbers, OffInv, DyingInv, LoadedInv

(* Steps that clear the credit, with nothing loaded. *)
LEMMA ClearStep ==
  ASSUME CreditInv,
         PayAlready' = 0, DR11' \in {0, DR11}, due' = due, dying' = dying,
         saving' # "DR11", Current' # "off"
  PROVE  CreditInv'
  BY DEF CreditInv, Numbers, OffInv, DyingInv, LoadedInv

LEMMA NotLoaded ==
  ASSUME CreditInv, Current \notin {"pay", "meal"}
  PROVE  saving # "DR11"
  BY DEF CreditInv, LoadedInv

(* The steps of a sale. *)
LEMMA SaleStep ==
  ASSUME CreditInv,
         \/ Choose \/ LeaveMenu \/ SaveUserData \/ CoinIn \/ Settle \/ WaitMore
         \/ CancelPayment \/ PayTimeout \/ SendOutN_Coin \/ Refill
         \/ AfterPayOut \/ MealsTaken \/ ArmError
  PROVE  CreditInv'
<1>1. CASE Choose
  BY <1>1, OtherStep DEF Choose, ghosts, regs, CreditInv, Numbers, OffInv, DyingInv, LoadedInv
<1>2. CASE LeaveMenu
  BY <1>2, NotLoaded, ClearStep DEF LeaveMenu, ghosts, AtMenu, ClearUserBuffer, regs, save
<1>3. CASE SaveUserData
  BY <1>3 DEF SaveUserData, ghosts, regs, money, CreditInv, Numbers, OffInv, DyingInv, LoadedInv
<1>4. CASE CoinIn
  BY <1>4 DEF CoinIn, Paying, WriteCoins, save, CreditInv, Numbers, OffInv, DyingInv, LoadedInv
<1>5. CASE Settle
  BY <1>5, OtherStep DEF Settle, ghosts, Saved, regs
<1>6. CASE WaitMore
  BY <1>6, OtherStep DEF WaitMore, ghosts, Saved, regs, money
<1>7. CASE CancelPayment
  BY <1>7, ClearStep DEF CancelPayment, ghosts, ClearUserBuffer, regs, save
<1>8. CASE PayTimeout
  BY <1>8, ClearStep DEF PayTimeout, ghosts, Saved, ClearUserBuffer, regs
<1>9. CASE SendOutN_Coin
  BY <1>9, NotLoaded DEF SendOutN_Coin, WriteCoins, regs, CreditInv, Numbers, OffInv, DyingInv, LoadedInv
<1>10. CASE Refill
  BY <1>10 DEF Refill, ghosts, regs, money, save, CreditInv, Numbers, OffInv, DyingInv, LoadedInv
<1>11. CASE AfterPayOut
  BY <1>11, NotLoaded, OtherStep DEF AfterPayOut, regs, save
<1>12. CASE MealsTaken
  BY <1>12, ClearStep DEF MealsTaken, ghosts, Saved, ClearUserBuffer, regs
<1>13. CASE ArmError
  BY <1>13, OtherStep DEF ArmError, Saved, regs
<1> QED BY <1>1, <1>2, <1>3, <1>4, <1>5, <1>6, <1>7, <1>8, <1>9, <1>10, <1>11, <1>12, <1>13

(* Alarms, the outage and the start. *)
LEMMA OutageStep ==
  ASSUME CreditInv,
         \/ PollAbnormalHandle \/ AdminClears \/ AdminSetsCoins \/ PowerGone \/ Start
         \/ PVD_IRQHandler
  PROVE  CreditInv'
<1>1. CASE PollAbnormalHandle
  BY <1>1, NotLoaded, OtherStep DEF PollAbnormalHandle, ghosts, money, regs, save
<1>2. CASE AdminClears
  <2>1. saving' # "DR11" /\ Current' # "off" /\ UNCHANGED <<due, dying, held>>
    BY <1>2, NotLoaded DEF AdminClears, ghosts, Resume, save
  <2>2. CASE Severe(erro_flag)
    BY <1>2, <2>1, <2>2, ClearStep DEF AdminClears, ghosts, ClearUserBuffer
  <2>3. CASE ~Severe(erro_flag)
    BY <1>2, <2>1, <2>3, NotLoaded, OtherStep DEF AdminClears, ghosts
  <2> QED BY <2>2, <2>3
<1>3. CASE AdminSetsCoins
  BY <1>3, NotLoaded, OtherStep DEF AdminSetsCoins, ghosts, WriteCoins, money, save
<1>4. CASE PowerGone
  BY <1>4 DEF PowerGone, ghosts, ClearUserBuffer, regs, CreditInv, Numbers, OffInv, DyingInv, LoadedInv
<1>5. CASE PowerBack
  BY <1>5, NotLoaded, OtherStep DEF PowerBack, ghosts, money, regs, save
<1>6. CASE ReadCoins
  BY <1>6, NotLoaded, OtherStep DEF ReadCoins, ghosts, money, regs, save
<1>7. CASE ReadUserData
  <2>1. Current' = "check" /\ saving' # "DR11" /\ UNCHANGED <<DR11, due, dying>> /\ PayAlready' \in {0, DR11}
    BY <1>7, NotLoaded DEF ReadUserData, ghosts, ClearUserBuffer, save
  <2> QED BY <2>1 DEF CreditInv, Numbers, OffInv, DyingInv, LoadedInv
<1>8. CASE CheckCoins
  BY <1>8, NotLoaded, OtherStep DEF CheckCoins, ghosts, money, regs, save
<1>9. CASE PVD_IRQHandler
  BY <1>9 DEF PVD_IRQHandler, Warning, money, save, CreditInv, Numbers, OffInv, DyingInv, LoadedInv
<1> QED BY <1>1, <1>2, <1>3, <1>4, <1>5, <1>6, <1>7, <1>8, <1>9 DEF Start

LEMMA CreditAlways == Spec => []CreditInv
<1>1. Init => CreditInv
  BY DEF Init, CreditInv, Numbers, OffInv, DyingInv, LoadedInv
<1>2. CreditInv /\ [Next]_vars => CreditInv'
  <2>1. CASE UNCHANGED vars
    BY <2>1 DEF vars, ghosts, money, regs, save, CreditInv, Numbers, OffInv, DyingInv, LoadedInv
  <2> QED BY <2>1, SaleStep, OutageStep DEF Next, Step
<1> QED BY <1>1, <1>2, PTL DEF Spec

(* The backup registers hold no credit that nobody paid: SaveUserData of the    *)
(* main loop and of the voltage interrupt may cut each other, alarms and a      *)
(* second outage during the start may come in any order, and what is left when  *)
(* the power is gone is at most what the customer had put in (bsp.c,            *)
(* stm32f4xx_it.c).                                                           *)
THEOREM NothingLeftOver == Spec => []NoCreditFromNowhere
<1>1. CreditInv => NoCreditFromNowhere
  BY DEF CreditInv, OffInv, NoCreditFromNowhere
<1> QED BY <1>1, CreditAlways, PTL

-----------------------------------------------------------------------------
(* The registers as numbers. *)

(* 2^e is a whole number and not 0: it counts the subsets of a set of e elements. *)
LEMMA BitType == \A e \in Nat : Bit(e) \in Nat \ {0}
<1> SUFFICES ASSUME NEW e \in Nat PROVE 2^e \in Nat \ {0}
  BY DEF Bit
<1>1. IsFiniteSet(1..e) /\ Cardinality(1..e) = e
  BY FS_Interval
<1>2. IsFiniteSet(SUBSET (1..e)) /\ Cardinality(SUBSET (1..e)) = 2^e
  BY <1>1, FS_SUBSET
<1>3. 2^e \in Nat
  BY <1>2, FS_CardinalityType
<1>4. 2^e # 0
  <2>1. SUBSET (1..e) # {} BY {} \in SUBSET (1..e)
  <2> QED BY <1>2, <2>1, FS_EmptySet
<1> QED BY <1>3, <1>4

(* Setting and clearing a bit leaves a whole number. *)
LEMMA BitsType ==
  ASSUME NEW n \in Nat, NEW e \in Nat
  PROVE  Set(n, e) \in Nat /\ Without(n, e) \in Nat
<1>1. Bit(e) \in Nat \ {0} BY BitType
<1>2. Set(n, e) \in Nat BY <1>1 DEF Set
<1>3. Without(n, e) \in Nat BY <1>1 DEF Without, Has
<1> QED BY <1>2, <1>3

(* TypeOK by variables: the program, the money, the registers and the outage. *)
LoopType  == /\ Current \in {"coins", "data", "check", "alarm", "poll", "idle", "pay",
                             "refund", "meal", "off"}
             /\ erro_record \in Nat /\ erro_flag \in {0} \cup Errors /\ polling \in {0, 1}
MoneyType == /\ PayAlready \in 0..MaxPay /\ PayShould \in 0..(MaxCart * Price)
             /\ Cancle \in {0, 1} /\ MoneyBack \in Nat
RegsType  == /\ CoinTotoal \in Word /\ DR11 \in 0..MaxPay /\ DR12 \in Nat /\ DR13 \in Nat
             /\ saving \in {"no", "DR13", "DR11", "DR12", "done"} /\ held \in Nat
WorldType == /\ dying \in {0, 1} /\ hopper \in Nat /\ outages \in 0..MaxOutages
             /\ due \in Nat /\ balance \in Int

LEMMA TypeParts == TypeOK <=> LoopType /\ MoneyType /\ RegsType /\ WorldType
  BY DEF TypeOK, LoopType, MoneyType, RegsType, WorldType

LEMMA TypePartsNext == TypeOK' <=> LoopType' /\ MoneyType' /\ RegsType' /\ WorldType'
  BY DEF TypeOK, LoopType, MoneyType, RegsType, WorldType

(* In a refund held counts the coins already given, fewer than there are to give;   *)
(* otherwise it is 0 unless SaveUserData has loaded a value.                       *)
HeldInv == /\ Current = "refund" => saving = "no" /\ (held < MoneyBack \/ held = 0)
           /\ Current # "refund" /\ saving \in {"no", "done"} => held = 0
           /\ saving # "no" => Current \in {"pay", "meal"}
           /\ saving = "DR11" => held <= MaxPay

TInv == TypeOK /\ HeldInv

(* Steps that leave the registers and SaveUserData alone, outside a refund. *)
LEMMA HeldSame ==
  ASSUME HeldInv, UNCHANGED save, Current # "refund", Current' # "refund",
         saving # "no" => Current' \in {"pay", "meal"}
  PROVE  HeldInv'
BY DEF HeldInv, save

(* The number of coins is cut to 16 bits. *)
LEMMA WordType == ASSUME NEW n \in Int PROVE n % 65536 \in Word /\ n % 65536 \in Nat
<1>1. n % 65536 < 65536 /\ n % 65536 \in Nat OBVIOUS
<1> QED BY <1>1 DEF Word

LEMMA WordIsInt == \A n \in Word : n \in Int
BY DEF Word

LEMMA CoinsType == ASSUME RegsType, NEW n \in Int, WriteCoins(n), UNCHANGED save PROVE RegsType'
<1>1. CoinTotoal' \in Word /\ DR13' \in Nat BY WordType DEF WriteCoins
<1> QED BY <1>1 DEF RegsType, WriteCoins, save

(* A sum of prices is one. *)
LEMMA Prices == \A n \in 0..MaxCart : n * Price \in 0..(MaxCart * Price)
<1> SUFFICES ASSUME NEW n \in 0..MaxCart PROVE n * Price \in 0..(MaxCart * Price)
  OBVIOUS
<1>1. n \in Nat /\ MaxCart \in Nat /\ Price \in Nat /\ MaxCart - n \in Nat
  BY PowerAssumption
<1>2. (MaxCart - n) * Price \in Nat /\ n * Price \in Nat BY <1>1
<1>3. MaxCart * Price = (MaxCart - n) * Price + n * Price BY <1>1
<1> QED BY <1>1, <1>2, <1>3

(* The steps of a sale keep the types. *)
LEMMA SaleTyped ==
  ASSUME TInv,
         \/ Choose \/ LeaveMenu \/ SaveUserData \/ CoinIn \/ Settle \/ WaitMore
         \/ CancelPayment \/ PayTimeout \/ SendOutN_Coin \/ Refill
         \/ AfterPayOut \/ MealsTaken \/ ArmError
  PROVE  TInv'
<1>0. LoopType /\ MoneyType /\ RegsType /\ WorldType /\ HeldInv BY TypeParts DEF TInv
<1>1. coinhooperset_empty \in Nat /\ SendUR6Erro \in Nat
  BY DEF coinhooperset_empty, SendUR6Erro
<1>2. \A e \in Nat : Set(erro_record, e) \in Nat BY <1>0, BitsType DEF LoopType
<1>3. MaxPay \in Nat /\ MaxCart \in Nat /\ Price \in Nat BY PowerAssumption
<1> USE DEF errors, money, regs, save, ghosts
<1>5. CASE Choose
  <2> USE <1>5 DEF Choose
  <2>1. LoopType' /\ RegsType' /\ WorldType' BY <1>0 DEF LoopType, RegsType, WorldType
  <2>2. MoneyType' BY <1>0, Prices DEF MoneyType
  <2>3. HeldInv' BY <1>0 DEF HeldInv
  <2> QED BY <2>1, <2>2, <2>3, TypePartsNext DEF TInv
<1>6. CASE LeaveMenu
  <2> USE <1>6 DEF LeaveMenu, ClearUserBuffer
  <2>1. LoopType' /\ RegsType' /\ WorldType' BY <1>0 DEF LoopType, RegsType, WorldType
  <2>2. MoneyType' BY <1>0, <1>3, Prices DEF MoneyType
  <2>3. HeldInv' BY <1>0 DEF HeldInv, AtMenu
  <2> QED BY <2>1, <2>2, <2>3, TypePartsNext DEF TInv
<1>7. CASE SaveUserData
  <2> USE <1>7 DEF SaveUserData
  <2>1. LoopType' /\ MoneyType' /\ WorldType' BY <1>0 DEF LoopType, MoneyType, WorldType
  <2>2. RegsType' BY <1>0 DEF RegsType, LoopType, MoneyType, HeldInv
  <2>3. HeldInv' BY <1>0 DEF HeldInv, MoneyType
  <2> QED BY <2>1, <2>2, <2>3, TypePartsNext DEF TInv
<1>8. CASE CoinIn
  <2> USE <1>8 DEF CoinIn
  <2>1. LoopType' BY <1>0 DEF LoopType
  <2>2. MoneyType' BY <1>0, <1>3 DEF MoneyType
  <2>3. RegsType'
    <3>1. CoinTotoal + 1 \in Int BY <1>0, WordIsInt DEF RegsType
    <3> QED BY <1>0, <3>1, CoinsType
  <2>4. WorldType' BY <1>0 DEF WorldType
  <2>5. HeldInv' BY <1>0, HeldSame DEF HeldInv, Paying
  <2> QED BY <2>1, <2>2, <2>3, <2>4, <2>5, TypePartsNext DEF TInv
<1>9. CASE Settle
  <2> USE <1>9 DEF Settle, Saved
  <2>1. LoopType' /\ RegsType' /\ WorldType' BY <1>0 DEF LoopType, RegsType, WorldType
  <2>2. MoneyType' BY <1>0, <1>3, Prices DEF MoneyType
  <2>3. HeldInv' BY <1>0 DEF HeldInv, Paying
  <2> QED BY <2>1, <2>2, <2>3, TypePartsNext DEF TInv
<1>10. CASE WaitMore
  <2> USE <1>10 DEF WaitMore, Saved
  <2>1. LoopType' /\ RegsType' /\ WorldType' BY <1>0 DEF LoopType, RegsType, WorldType
  <2>2. MoneyType' BY <1>0 DEF MoneyType
  <2>3. HeldInv' BY <1>0 DEF HeldInv
  <2> QED BY <2>1, <2>2, <2>3, TypePartsNext DEF TInv
<1>11. CASE CancelPayment
  <2> USE <1>11 DEF CancelPayment, ClearUserBuffer
  <2>1. LoopType' /\ RegsType' /\ WorldType' BY <1>0 DEF LoopType, RegsType, WorldType
  <2>2. MoneyType' BY <1>0, <1>3, Prices DEF MoneyType
  <2>3. HeldInv' BY <1>0 DEF HeldInv, Paying
  <2> QED BY <2>1, <2>2, <2>3, TypePartsNext DEF TInv
<1>12. CASE PayTimeout
  <2> USE <1>12 DEF PayTimeout, Saved, ClearUserBuffer
  <2>1. LoopType' /\ RegsType' /\ WorldType' BY <1>0 DEF LoopType, RegsType, WorldType
  <2>2. MoneyType' BY <1>0, <1>3, Prices DEF MoneyType
  <2>3. HeldInv' BY <1>0 DEF HeldInv, Paying
  <2> QED BY <2>1, <2>2, <2>3, TypePartsNext DEF TInv
<1>13. CASE SendOutN_Coin
  <2> USE <1>13 DEF SendOutN_Coin
  <2>1. LoopType' BY <1>0, <1>1, <1>2 DEF LoopType
  <2>2. held \in Nat /\ held <= MoneyBack /\ saving = "no" /\ Current' = "refund"
    BY <1>0 DEF HeldInv, RegsType, MoneyType
  <2>3. MoneyType' BY <1>0, <2>2 DEF MoneyType
  <2>4. RegsType'
    <3>1. CoinTotoal - 1 \in Int BY <1>0, WordIsInt DEF RegsType
    <3> QED BY <1>0, <2>2, <3>1, WordType DEF RegsType, WriteCoins
  <2>5. WorldType' BY <1>0 DEF WorldType
  <2>6. HeldInv' BY <1>0, <2>2 DEF HeldInv, MoneyType
  <2> QED BY <2>1, <2>3, <2>4, <2>5, <2>6, TypePartsNext DEF TInv
<1>14. CASE Refill
  <2> USE <1>14 DEF Refill
  <2>1. LoopType' /\ MoneyType' /\ RegsType' BY <1>0 DEF LoopType, MoneyType, RegsType
  <2>2. WorldType' BY <1>0, PowerAssumption DEF WorldType
  <2>3. HeldInv' BY <1>0 DEF HeldInv
  <2> QED BY <2>1, <2>2, <2>3, TypePartsNext DEF TInv
<1>15. CASE AfterPayOut
  <2> USE <1>15 DEF AfterPayOut
  <2>1. LoopType' /\ RegsType' BY <1>0 DEF LoopType, RegsType
  <2>2. MoneyType' BY <1>0 DEF MoneyType
  <2>3. HeldInv' BY <1>0 DEF HeldInv, RegsType
  <2>4. WorldType'
    <3>1. PayShould \in Int BY <1>0, <1>3, Prices DEF MoneyType
    <3> QED BY <1>0, <3>1 DEF WorldType
  <2> QED BY <2>1, <2>2, <2>3, <2>4, TypePartsNext DEF TInv
<1>16. CASE MealsTaken
  <2> USE <1>16 DEF MealsTaken, Saved, ClearUserBuffer
  <2>1. LoopType' /\ RegsType' /\ WorldType' BY <1>0 DEF LoopType, RegsType, WorldType
  <2>2. MoneyType' BY <1>0, <1>3, Prices DEF MoneyType
  <2>3. HeldInv' BY <1>0 DEF HeldInv
  <2> QED BY <2>1, <2>2, <2>3, TypePartsNext DEF TInv
<1>17. CASE ArmError
  <2> USE <1>17 DEF ArmError, Saved
  <2>1. LoopType' BY <1>0, <1>1, <1>2 DEF LoopType
  <2>2. RegsType' BY <1>0 DEF RegsType
  <2>3. MoneyType' BY <1>0, <1>3, Prices DEF MoneyType
  <2>4. WorldType'
    <3>1. balance' \in Int BY <1>0, <1>3, Prices DEF WorldType
    <3> QED BY <1>0, <3>1 DEF WorldType
  <2>5. HeldInv' BY <1>0 DEF HeldInv
  <2> QED BY <2>1, <2>2, <2>3, <2>4, <2>5, TypePartsNext DEF TInv
<1> QED BY <1>5, <1>6, <1>7, <1>8, <1>9, <1>10, <1>11, <1>12, <1>13, <1>14, <1>15, <1>16, <1>17

(* So do alarms, the outage and the start. *)
LEMMA OutageTyped ==
  ASSUME TInv,
         \/ PollAbnormalHandle \/ AdminClears \/ AdminSetsCoins \/ PowerGone \/ Start
         \/ PVD_IRQHandler
  PROVE  TInv'
<1>0. LoopType /\ MoneyType /\ RegsType /\ WorldType /\ HeldInv BY TypeParts DEF TInv
<1>1. Errors \subseteq Nat /\ coinhooperset_erro \in Errors /\ outage_erro \in Nat
  BY DEF Errors, coinhooperset_erro, outage_erro
<1>2. \A e \in Nat : Set(erro_record, e) \in Nat /\ Without(erro_record, e) \in Nat
  BY <1>0, BitsType DEF LoopType
<1>3. MaxPay \in Nat /\ MaxCart \in Nat /\ Price \in Nat BY PowerAssumption
<1>5. 0 \in 0..MaxPay /\ 0 \in 0..(MaxCart * Price) BY <1>3, Prices
<1>6. 0 \in Word BY DEF Word
<1> USE DEF errors, money, regs, save, ghosts
<1>7. CASE PollAbnormalHandle
  <2> USE <1>7 DEF PollAbnormalHandle
  <2>1. LoopType' BY <1>0, <1>1, <1>2 DEF LoopType
  <2>2. MoneyType' BY <1>0 DEF MoneyType
  <2>3. RegsType' BY <1>0 DEF RegsType
  <2>4. WorldType' BY <1>0 DEF WorldType
  <2>5. HeldInv' BY <1>0 DEF HeldInv
  <2> QED BY <2>1, <2>2, <2>3, <2>4, <2>5, TypePartsNext DEF TInv
<1>8. CASE AdminClears
  <2> USE <1>8 DEF AdminClears, ClearUserBuffer
  <2>1. Without(erro_record, erro_flag) \in Nat
    <3>1. erro_flag \in Nat BY <1>0, <1>1 DEF LoopType
    <3> QED BY <3>1, <1>2
  <2>2. LoopType' BY <1>0, <2>1 DEF LoopType, Resume
  <2>3. MoneyType' BY <1>0, <1>5 DEF MoneyType
  <2>4. RegsType' BY <1>0, <1>5, <2>1 DEF RegsType, MoneyType
  <2>5. WorldType' BY <1>0 DEF WorldType
  <2>6. HeldInv' BY <1>0 DEF HeldInv, Resume
  <2> QED BY <2>2, <2>3, <2>4, <2>5, <2>6, TypePartsNext DEF TInv
<1>9. CASE AdminSetsCoins
  <2> USE <1>9 DEF AdminSetsCoins
  <2>1. LoopType' BY <1>0 DEF LoopType
  <2>2. MoneyType' BY <1>0 DEF MoneyType
  <2>3. RegsType'
    <3>1. hopper \in Int BY <1>0 DEF WorldType
    <3> QED BY <1>0, <3>1, CoinsType
  <2>4. WorldType' BY <1>0 DEF WorldType
  <2>5. HeldInv' BY <1>0 DEF HeldInv
  <2> QED BY <2>1, <2>2, <2>3, <2>4, <2>5, TypePartsNext DEF TInv
<1>10. CASE PowerGone
  <2> USE <1>10 DEF PowerGone, ClearUserBuffer
  <2>1. LoopType' BY <1>0 DEF LoopType
  <2>2. MoneyType' BY <1>0, <1>5 DEF MoneyType
  <2>3. RegsType' BY <1>0, <1>6 DEF RegsType
  <2>4. WorldType' BY <1>0 DEF WorldType
  <2>5. HeldInv' BY <1>0 DEF HeldInv
  <2> QED BY <2>1, <2>2, <2>3, <2>4, <2>5, TypePartsNext DEF TInv
<1>11. CASE PowerBack
  <2> USE <1>11 DEF PowerBack
  <2>1. LoopType' BY <1>0 DEF LoopType
  <2>2. MoneyType' BY <1>0 DEF MoneyType
  <2>3. RegsType' BY <1>0 DEF RegsType
  <2>4. WorldType' BY <1>0 DEF WorldType
  <2>5. HeldInv' BY <1>0 DEF HeldInv
  <2> QED BY <2>1, <2>2, <2>3, <2>4, <2>5, TypePartsNext DEF TInv
<1>12. CASE ReadCoins
  <2> USE <1>12 DEF ReadCoins
  <2>1. LoopType' BY <1>0 DEF LoopType
  <2>2. MoneyType' BY <1>0 DEF MoneyType
  <2>3. RegsType'
    <3>1. DR13 % 65536 \in Word BY <1>0, WordType DEF RegsType
    <3> QED BY <1>0, <3>1 DEF RegsType
  <2>4. WorldType' BY <1>0 DEF WorldType
  <2>5. HeldInv' BY <1>0 DEF HeldInv
  <2> QED BY <2>1, <2>2, <2>3, <2>4, <2>5, TypePartsNext DEF TInv
<1>13. CASE ReadUserData
  <2> USE <1>13 DEF ReadUserData, ClearUserBuffer
  <2>1. Without(DR13, 0) \in Nat BY <1>0, BitsType DEF RegsType
  <2>2. LoopType' BY <1>0, <2>1 DEF LoopType
  <2>3. MoneyType' BY <1>0, <1>5 DEF MoneyType, RegsType
  <2>4. RegsType' BY <1>0, <2>1 DEF RegsType
  <2>5. WorldType' BY <1>0 DEF WorldType
  <2>6. HeldInv' BY <1>0 DEF HeldInv
  <2> QED BY <2>2, <2>3, <2>4, <2>5, <2>6, TypePartsNext DEF TInv
<1>14. CASE CheckCoins
  <2> USE <1>14 DEF CheckCoins
  <2>1. coinhooperset_erro \in Nat BY <1>1
  <2>2. LoopType' BY <1>0, <1>1, <1>2, <2>1 DEF LoopType
  <2>3. MoneyType' BY <1>0 DEF MoneyType
  <2>4. RegsType' BY <1>0 DEF RegsType
  <2>5. WorldType' BY <1>0 DEF WorldType
  <2>6. HeldInv' BY <1>0 DEF HeldInv
  <2> QED BY <2>2, <2>3, <2>4, <2>5, <2>6, TypePartsNext DEF TInv
<1>15. CASE PVD_IRQHandler
  <2> USE <1>15 DEF PVD_IRQHandler, Warning
  <2>1. LoopType' BY <1>0, <1>1, <1>2 DEF LoopType
  <2>2. MoneyType' BY <1>0 DEF MoneyType
  <2>3. RegsType' BY <1>0, <1>1, <1>2 DEF RegsType, MoneyType
  <2>4. WorldType' BY <1>0, PowerAssumption DEF WorldType, MoneyType
  <2>5. HeldInv' BY <1>0 DEF HeldInv
  <2> QED BY <2>1, <2>2, <2>3, <2>4, <2>5, TypePartsNext DEF TInv
<1> QED BY <1>7, <1>8, <1>9, <1>10, <1>11, <1>12, <1>13, <1>14, <1>15 DEF Start

LEMMA TypedAlways == Spec => []TInv
<1>1. Init => TInv
  <2> SUFFICES ASSUME Init PROVE TInv OBVIOUS
  <2>1. MaxPay \in Nat /\ 0 \in 0..(MaxCart * Price) /\ Coins \in Nat /\ MaxOutages \in Nat
    BY PowerAssumption, Prices
  <2>2. 0 \in Word BY DEF Word
  <2>3. LoopType BY DEF Init, LoopType
  <2>4. MoneyType BY <2>1 DEF Init, MoneyType
  <2>5. RegsType BY <2>1, <2>2 DEF Init, RegsType
  <2>6. WorldType BY <2>1 DEF Init, WorldType
  <2>7. HeldInv BY DEF Init, HeldInv
  <2> QED BY <2>3, <2>4, <2>5, <2>6, <2>7, TypeParts DEF TInv
<1>2. TInv /\ [Next]_vars => TInv'
  <2> SUFFICES ASSUME TInv, [Next]_vars PROVE TInv' OBVIOUS
  <2>1. CASE UNCHANGED vars
    <3>0. LoopType /\ MoneyType /\ RegsType /\ WorldType /\ HeldInv BY TypeParts DEF TInv
    <3> USE <2>1 DEF vars, errors, money, regs, save, ghosts
    <3>1. LoopType' BY <3>0 DEF LoopType
    <3>2. MoneyType' BY <3>0 DEF MoneyType
    <3>3. RegsType' BY <3>0 DEF RegsType
    <3>4. WorldType' BY <3>0 DEF WorldType
    <3>5. HeldInv' BY <3>0 DEF HeldInv
    <3> QED BY <3>1, <3>2, <3>3, <3>4, <3>5, TypePartsNext DEF TInv
  <2> QED BY <2>1, SaleTyped, OutageTyped DEF Next, Step
<1> QED BY <1>1, <1>2, PTL DEF Spec

(* For every price and hopper, and as many outages as one likes, cutting in      *)
(* wherever they do: the counter of coins stays a uint16_t though the hopper and *)
(* the administrator change it, no refund gives more coins than it owes, so that *)
(* MoneyBack never falls below 0 (HeldInv), and what is saved of the credit is a sum somebody     *)
(* could have put in (stm32f4xx_it.c, bsp.c, Payment.c).                       *)
THEOREM Typing == Spec => []TypeOK
<1>1. TInv => TypeOK BY DEF TInv
<1> QED BY <1>1, TypedAlways, PTL

-----------------------------------------------------------------------------
(* One element more doubles the number of subsets. *)
LEMMA Doubling == ASSUME NEW n \in Nat PROVE 2^n \in Nat /\ 2^(n + 1) = 2 * 2^n
<1> DEFINE S == SUBSET (1..n)
           T == {s \in SUBSET (1..(n + 1)) : n + 1 \in s}
           f == [s \in S |-> s \cup {n + 1}]
<1>1. /\ IsFiniteSet(S) /\ Cardinality(S) = 2^n
      /\ IsFiniteSet(SUBSET (1..(n + 1))) /\ Cardinality(SUBSET (1..(n + 1))) = 2^(n + 1)
  <2>1. IsFiniteSet(1..n) /\ Cardinality(1..n) = n BY FS_Interval
  <2>2. IsFiniteSet(1..(n + 1)) /\ Cardinality(1..(n + 1)) = n + 1 BY FS_Interval
  <2> QED BY <2>1, <2>2, FS_SUBSET
<1>2. SUBSET (1..(n + 1)) = S \cup T /\ S \cap T = {}
  <2>1. 1..(n + 1) = (1..n) \cup {n + 1} /\ n + 1 \notin 1..n OBVIOUS
  <2> QED BY <2>1
<1>3. f \in Bijection(S, T)
  <2>1. 1..(n + 1) = (1..n) \cup {n + 1} /\ n + 1 \notin 1..n OBVIOUS
  <2>2. f \in [S -> T] BY <2>1
  <2>3. ASSUME NEW s \in S, NEW r \in S, f[s] = f[r] PROVE s = r
    <3>1. n + 1 \notin s /\ n + 1 \notin r BY <2>1
    <3>2. s \cup {n + 1} = r \cup {n + 1} BY <2>3
    <3> QED BY <3>1, <3>2
  <2>4. ASSUME NEW t \in T PROVE \E s \in S : f[s] = t
    <3>1. t \ {n + 1} \in S BY <2>1
    <3>2. f[t \ {n + 1}] = t BY <3>1
    <3> QED BY <3>1, <3>2
  <2> HIDE DEF f, S, T
  <2>5. f \in Injection(S, T) BY <2>2, <2>3 DEF Injection, IsInjective
  <2>6. f \in Surjection(S, T) BY <2>2, <2>4 DEF Surjection
  <2> QED BY <2>5, <2>6 DEF Bijection
<1>4. IsFiniteSet(T) /\ Cardinality(T) = 2^n
  BY <1>1, <1>3, FS_Bijection DEF ExistsBijection
<1>5. Cardinality(S \cup T) = 2^n + 2^n - 0 /\ 2^n \in Nat
  <2>1. Cardinality(S) \in Nat BY <1>1, FS_CardinalityType
  <2>2. Cardinality(S \cup T) = Cardinality(S) + Cardinality(T) - Cardinality(S \cap T)
    BY <1>1, <1>4, FS_Union
  <2>3. Cardinality(S \cap T) = 0 BY <1>2, FS_EmptySet
  <2> QED BY <2>1, <2>2, <2>3, <1>1, <1>4
<1>6. 2^(n + 1) = Cardinality(S \cup T) BY <1>1, <1>2, Zenon
<1>7. 2^n + 2^n - 0 = 2 * 2^n BY <1>5
<1> QED BY <1>5, <1>6, <1>7, Zenon

(* The marks of an outage, of an empty hopper and of the arm. *)
LEMMA Marks == Bit(1) = 2 /\ Bit(6) = 64 /\ Bit(27) = 134217728
<1> DEFINE p(n) == 2^n
<1>1. \A n \in Nat : p(n) \in Nat /\ p(n + 1) = 2 * p(n) BY Doubling
<1>2. p(0) = 1
  <2>1. IsFiniteSet({}) /\ Cardinality({}) = 0 BY FS_EmptySet
  <2>2. Cardinality(SUBSET {}) = p(0) BY <2>1, FS_SUBSET
  <2>3. SUBSET {} = {{}} OBVIOUS
  <2>4. Cardinality({{}}) = 1 BY FS_Singleton
  <2> QED BY <2>2, <2>3, <2>4
<1> HIDE DEF p
<1>3. p(1) = 2 /\ p(2) = 4 /\ p(3) = 8 /\ p(4) = 16 /\ p(5) = 32 /\ p(6) = 64
  <2>1. p(0 + 1) = 2 * p(0) /\ p(1 + 1) = 2 * p(1) /\ p(2 + 1) = 2 * p(2) /\ p(3 + 1) = 2 * p(3)
        /\ p(4 + 1) = 2 * p(4) /\ p(5 + 1) = 2 * p(5)
    BY <1>1
  <2> QED BY <2>1, <1>2
<1>4. p(7) = 128 /\ p(8) = 256 /\ p(9) = 512 /\ p(10) = 1024 /\ p(11) = 2048 /\ p(12) = 4096
  <2>1. p(6 + 1) = 2 * p(6) /\ p(7 + 1) = 2 * p(7) /\ p(8 + 1) = 2 * p(8) /\ p(9 + 1) = 2 * p(9)
        /\ p(10 + 1) = 2 * p(10) /\ p(11 + 1) = 2 * p(11)
    BY <1>1
  <2> QED BY <2>1, <1>3
<1>5. p(13) = 8192 /\ p(14) = 16384 /\ p(15) = 32768 /\ p(16) = 65536 /\ p(17) = 131072
      /\ p(18) = 262144 /\ p(19) = 524288 /\ p(20) = 1048576
  <2>1. p(12 + 1) = 2 * p(12) /\ p(13 + 1) = 2 * p(13) /\ p(14 + 1) = 2 * p(14)
        /\ p(15 + 1) = 2 * p(15) /\ p(16 + 1) = 2 * p(16) /\ p(17 + 1) = 2 * p(17)
        /\ p(18 + 1) = 2 * p(18) /\ p(19 + 1) = 2 * p(19)
    BY <1>1
  <2> QED BY <2>1, <1>4
<1>6. p(21) = 2097152 /\ p(22) = 4194304 /\ p(23) = 8388608 /\ p(24) = 16777216
      /\ p(25) = 33554432 /\ p(26) = 67108864 /\ p(27) = 134217728
  <2>1. p(20 + 1) = 2 * p(20) /\ p(21 + 1) = 2 * p(21) /\ p(22 + 1) = 2 * p(22)
        /\ p(23 + 1) = 2 * p(23) /\ p(24 + 1) = 2 * p(24) /\ p(25 + 1) = 2 * p(25)
        /\ p(26 + 1) = 2 * p(26)
    BY <1>1
  <2> QED BY <2>1, <1>5
<1> QED BY <1>3, <1>6 DEF p, Bit

(* The mark of the arm, once set, stays when another is, and is above the marks   *)
(* of the coins.                                                              *)
ArmMarked(n) == Has(n, SendUR6Erro)

LEMMA ArmMark ==
  ASSUME NEW n \in Nat
  PROVE  /\ ArmMarked(Set(n, SendUR6Erro))
         /\ ArmMarked(n) => /\ n > 16 /\ ArmMarked(Set(n, outage_erro))
                            /\ ArmMarked(Set(n, coinhooperset_empty))
<1> USE Marks DEF ArmMarked, Has, Set, SendUR6Erro, outage_erro, coinhooperset_empty
<1>1. ArmMarked(Set(n, SendUR6Erro)) OBVIOUS
<1>2. ArmMarked(n) => n > 16 OBVIOUS
<1>3. ArmMarked(n) => ArmMarked(Set(n, outage_erro)) OBVIOUS
<1>4. ArmMarked(n) => ArmMarked(Set(n, coinhooperset_empty)) OBVIOUS
<1> QED BY <1>1, <1>2, <1>3, <1>4

(* What an outage under way may still cost. *)
Reserve == IF dying = 1 THEN due ELSE 0

(* The balance covers what the program can still give out for the credit it has in *)
(* a register, in PayAlready, or in a refund under way.                            *)
BalanceInv ==
  /\ balance >= Reserve
  /\ Current \in {"off", "coins", "data"} => balance >= Reserve + DR11
  /\ Current \in {"check", "idle", "pay"} \/ (Current = "alarm" /\ polling = 0)
       => balance >= Reserve + PayAlready
  /\ Current = "refund" =>
       balance >= Reserve + (MoneyBack - held) + IF Cancle = 0 THEN PayShould ELSE 0

(* A credit that was paid back and not cleared yet waits for the alarm of the arm. *)
StaleInv ==
  /\ Current = "refund" /\ Cancle = 1 /\ PayAlready # 0 => ArmMarked(erro_record)
  /\ Current = "poll" /\ PayAlready # 0 => ArmMarked(erro_record)
  /\ Current = "alarm" /\ polling = 1 /\ PayAlready # 0 => Severe(erro_flag)
  /\ (Current = "poll" => polling = 1) /\ (polling = 1 => Current \in {"poll", "alarm"})
  /\ Current \in {"off", "coins", "data"} => PayAlready = 0

OwnerInv == BalanceInv /\ StaleInv

(* What is known of the state a step starts in. *)
Known == /\ TInv /\ CreditInv /\ OwnerInv
         /\ erro_record \in Nat /\ polling \in {0, 1} /\ Cancle \in {0, 1} /\ dying \in {0, 1}
         /\ PayAlready \in Nat /\ PayShould \in Nat /\ MoneyBack \in Nat /\ held \in Nat
         /\ DR11 \in Nat /\ due \in Nat /\ balance \in Int

LEMMA Knowing == ASSUME TInv, CreditInv, OwnerInv PROVE Known
<1>1. LoopType /\ MoneyType /\ RegsType /\ WorldType BY TypeParts DEF TInv
<1>2. \A n \in 0..MaxPay : n \in Nat BY PowerAssumption
<1>3. \A n \in 0..(MaxCart * Price) : n \in Nat BY PowerAssumption
<1>4. erro_record \in Nat /\ polling \in {0, 1} BY <1>1 DEF LoopType
<1>5. Cancle \in {0, 1} /\ MoneyBack \in Nat /\ PayAlready \in Nat /\ PayShould \in Nat
  BY <1>1, <1>2, <1>3 DEF MoneyType
<1>6. held \in Nat /\ DR11 \in Nat BY <1>1, <1>2 DEF RegsType
<1>7. dying \in {0, 1} /\ due \in Nat /\ balance \in Int BY <1>1 DEF WorldType
<1> QED BY <1>4, <1>5, <1>6, <1>7 DEF Known

(* The steps of a sale keep the balance. *)
LEMMA SaleKeepsBalance ==
  ASSUME Known,
         \/ Choose \/ LeaveMenu \/ SaveUserData \/ CoinIn \/ Settle \/ WaitMore
         \/ CancelPayment \/ PayTimeout \/ SendOutN_Coin \/ Refill
         \/ AfterPayOut \/ MealsTaken \/ ArmError
  PROVE  OwnerInv'
<1>0. HeldInv BY DEF Known, TInv
<1> USE DEF errors, money, regs, save, ghosts, OwnerInv, BalanceInv, StaleInv, Reserve, Known
<1>1. CASE Choose BY <1>1 DEF Choose, AtMenu
<1>2. CASE LeaveMenu BY <1>2 DEF LeaveMenu, AtMenu, ClearUserBuffer
<1>3. CASE SaveUserData BY <1>3 DEF SaveUserData
<1>4. CASE CoinIn BY <1>4 DEF CoinIn, Paying, WriteCoins
<1>5. CASE Settle
  <2>1. held = 0 BY <1>0, <1>5 DEF Settle, Saved, Paying, HeldInv
  <2> QED BY <1>5, <2>1 DEF Settle, Saved, Paying
<1>6. CASE WaitMore BY <1>6 DEF WaitMore, Saved
<1>7. CASE CancelPayment
  <2>1. held = 0 BY <1>0, <1>7 DEF CancelPayment, Paying, HeldInv
  <2> QED BY <1>7, <2>1 DEF CancelPayment, Paying, ClearUserBuffer
<1>8. CASE PayTimeout
  <2>1. held = 0 BY <1>0, <1>8 DEF PayTimeout, Saved, Paying, HeldInv
  <2> QED BY <1>8, <2>1 DEF PayTimeout, Saved, Paying, ClearUserBuffer
<1>9. CASE SendOutN_Coin
  <2>1. held < MoneyBack BY <1>0, <1>9 DEF SendOutN_Coin, HeldInv
  <2>2. ArmMarked(erro_record) => ArmMarked(erro_record') BY <1>9, ArmMark DEF SendOutN_Coin
  <2> QED BY <1>9, <2>1, <2>2 DEF SendOutN_Coin, WriteCoins
<1>10. CASE Refill BY <1>10 DEF Refill
<1>11. CASE AfterPayOut
  <2>1. held = 0 BY <1>0, <1>11 DEF AfterPayOut, HeldInv
  <2>2. ArmMarked(erro_record) => erro_record > 16 BY ArmMark
  <2> QED BY <1>11, <2>1, <2>2 DEF AfterPayOut
<1>12. CASE MealsTaken BY <1>12 DEF MealsTaken, Saved, ClearUserBuffer
<1>13. CASE ArmError
  <2>1. held = 0 BY <1>0, <1>13 DEF ArmError, Saved, HeldInv
  <2>2. ArmMarked(erro_record') BY <1>13, ArmMark DEF ArmError
  <2>3. \A n \in 1..MaxCart : n * Price \in Nat BY PowerAssumption
  <2> QED BY <1>13, <2>1, <2>2, <2>3 DEF ArmError, Saved
<1> QED BY <1>1, <1>2, <1>3, <1>4, <1>5, <1>6, <1>7, <1>8, <1>9, <1>10, <1>11, <1>12, <1>13

(* So do alarms, the outage and the start. *)
LEMMA OutageKeepsBalance ==
  ASSUME Known,
         \/ PollAbnormalHandle \/ AdminClears \/ AdminSetsCoins \/ PowerGone \/ Start
         \/ PVD_IRQHandler
  PROVE  OwnerInv'
<1> USE DEF errors, money, regs, save, ghosts, OwnerInv, BalanceInv, StaleInv, Reserve, Known
<1>1. CASE PollAbnormalHandle
  <2>0. SendUR6Erro \in Errors /\ SendUR6Erro > outage_erro /\ SendUR6Erro >= 16 /\ Errors \subseteq Nat
    BY DEF SendUR6Erro, outage_erro, Errors
  <2>1. CASE \E e \in Errors : Highest(e) /\ erro_flag' = e /\ UNCHANGED <<polling, erro_record>>
                                /\ Current' = "alarm"
    <3>1. ArmMarked(erro_record) => Severe(erro_flag')
      BY <2>0, <2>1 DEF Highest, ArmMarked, Severe
    <3> QED BY <1>1, <2>1, <3>1 DEF PollAbnormalHandle
  <2>2. CASE Highest(outage_erro) /\ UNCHANGED <<polling, Current>>
    <3>1. ~ArmMarked(erro_record) BY <2>0, <2>2 DEF Highest, ArmMarked
    <3> QED BY <1>1, <2>2, <3>1 DEF PollAbnormalHandle
  <2>3. CASE (\A e \in Errors : ~Has(erro_record, e)) /\ Current' = "idle" /\ polling' = 0
    <3>1. ~ArmMarked(erro_record) BY <2>0, <2>3 DEF ArmMarked
    <3> QED BY <1>1, <2>3, <3>1 DEF PollAbnormalHandle
  <2> QED BY <1>1, <2>1, <2>2, <2>3 DEF PollAbnormalHandle
<1>2. CASE AdminClears BY <1>2 DEF AdminClears, Resume, ClearUserBuffer
<1>3. CASE AdminSetsCoins BY <1>3 DEF AdminSetsCoins, WriteCoins
<1>4. CASE PowerGone
  <2>1. DR11 <= due BY <1>4 DEF PowerGone, CreditInv, DyingInv
  <2> QED BY <1>4, <2>1 DEF PowerGone, ClearUserBuffer
<1>5. CASE PowerBack BY <1>5 DEF PowerBack
<1>6. CASE ReadCoins BY <1>6 DEF ReadCoins
<1>7. CASE ReadUserData BY <1>7 DEF ReadUserData, ClearUserBuffer
<1>8. CASE CheckCoins BY <1>8 DEF CheckCoins
<1>9. CASE PVD_IRQHandler
  <2>1. ArmMarked(erro_record) => ArmMarked(erro_record') BY <1>9, ArmMark DEF PVD_IRQHandler, Warning
  <2> QED BY <1>9, <2>1 DEF PVD_IRQHandler, Warning
<1> QED BY <1>1, <1>2, <1>3, <1>4, <1>5, <1>6, <1>7, <1>8, <1>9 DEF Start

(* Whatever outages cut, and with the stale credit of a broken-off sale, the torn  *)
(* save of the main loop and the register that counts coins and keeps the errors   *)
(* at once: each outage costs the owner at most what the customer had put in when  *)
(* the voltage fell and after it, and nothing else is given out that was not paid  *)
(* (bsp.c, Payment.c, stm32f4xx_it.c).                                         *)
THEOREM OutageCosts == Spec => []OutageCostsOnce
<1>1. Init => OwnerInv
  BY DEF Init, OwnerInv, BalanceInv, StaleInv, Reserve
<1>2. TInv /\ CreditInv /\ OwnerInv /\ [Next]_vars => OwnerInv'
  <2> SUFFICES ASSUME TInv, CreditInv, OwnerInv, [Next]_vars PROVE OwnerInv' OBVIOUS
  <2>1. CASE UNCHANGED vars
    BY <2>1 DEF vars, errors, money, regs, save, ghosts, OwnerInv, BalanceInv, StaleInv, Reserve
  <2> QED BY <2>1, Knowing, SaleKeepsBalance, OutageKeepsBalance DEF Next, Step
<1>3. TInv /\ CreditInv /\ OwnerInv => OutageCostsOnce
  <2> SUFFICES ASSUME TInv, CreditInv, OwnerInv PROVE balance >= 0 BY DEF OutageCostsOnce
  <2> QED BY Knowing DEF Known, OwnerInv, BalanceInv, Reserve
<1> QED BY <1>1, <1>2, <1>3, TypedAlways, CreditAlways, PTL DEF Spec
=============================================================================
