# A verification model of the meal vending machine

The program in `src/` runs a vending machine for boxed meals on an STM32F4: a
serial touch screen, a coin acceptor, a bill validator, two kinds of card
readers, a coin hopper for change, an arm that fetches meals from shelves, and
a server to which sales are reported.  It has no operating system.  One main
loop calls everything, some calls take seconds or minutes, and interrupts
(coins, notes, screen, arm, timers, supply voltage) change the same global
variables whenever they come.  Nearly all mistakes one can make in such a
program are about *when* something changes a global, which is what these
modules are about.

## The system and what of it is modelled

| component | state it keeps | operations | modelled by |
|---|---|---|---|
| main loop (`test_lcd.c`) | `Current` | idle, wait for money, pay out, deliver, upload, handle errors | `Sale` |
| payment (`bsp.c`) | `CurrentPoint`, `UserAct.Pay*`, `MoneyBack`, `Cancle` | `WaitPayMoney`, `OpenCashSystem`, `CloseCashSystem` | `Sale` |
| screen commands (`serialscreen.c`) | `UserAct.Meal*`, `DispMeal`, page, `CurFloor` | `ChangeVariableValues`, `PutIntoShopCart`, `SettleAccounts`, `ClearUserBuffer` | `Sale` (customer), `Stock` (filling in meals), `PowerFail` (errors, coins) |
| screen link (`uart3.c`, `DealSeriAceptData`) | ring buffer, parser | receive, take out, parse, clear | `ScreenFifo` (bytes), `Sale` (whole commands) |
| coin acceptor (`coin.c`, EXTI line 12) | power, edge count | credit a coin | `Sale` |
| bill validator (`bill.c`, `uart4.c`) | `BillDataBuffer` | report, read, clear | `Sale`, without its serial protocol |
| coin hopper (`Mini_hopper.c`) | coins, empty sensor | `SendOutN_Coin` | `Sale` |
| timers 3, 4, 7 (`stm32f4xx_it.c`) | `WaitTime`, enabled bits | tick, expire | `Sale` |
| delivery (`WaitMeal`) | counts, arm flags | choose a meal, command the arm, wait for it, count | `Sale` (counts), `Delivery` (arm), `Stock` (`FindMeal`) |
| arm link (`protocol.c`, `uart6.c`, timer 5) | `machinerec`, `Usart6*`, `LinkTime` | commands with answers, refusals and limits; reports | `Delivery` |
| stock (`MsgHandle.c`, `FindMeal`, `WriteMeal`) | `DefineMeal`, `FloorMeal`, the table in flash | enter, place, find, count out, erase and program | `Stock`; a count per kind in `Sale` |
| error handling (`bsp.c`) | `erro_record`, `erro_flag` | poll, wait for the administrator, clear | `Sale`, `PowerFail` (the bits and their register) |
| power failure and start (`PVD_IRQHandler`, `SaveUserData`, `hardfawreInit`, `ReadUserData`) | backup registers DR4 to DR17, flash | save, restore, check, report | `PowerFail` (money), `Stock` (meals), `Upload` (records) |
| reports (`network_handle.c`, `uart5.c`) | `F_RX1_Right`, serial numbers | report, wait for the answer | `Upload` |
| SD records (`sd.c`) | a file for each day, `Index` | append, read, send again, mark | `Upload` |
| card readers (`szt_gpboc.c`) | answer buffers | read, deduct, reverse | outcome only, in `Sale` |
| printer, voice, LED, clock, EEPROM | - | output | no: nothing is decided on them |
| vendor samples, `Libraries`, `filesys`, `lwip_v1.3.2` | - | - | no: not this program |

How they interact: the main loop calls `DealSeriAceptData` once a pass, which
executes at most a few screen commands, and then one case of its switch.
`GpbocDeduct`, `SztDeduct` and `AbnormalHandle` call `DealSeriAceptData` too
while they wait.  The coin interrupt increments `PayAlready`, which the main
loop increments for notes.  The UART4 interrupt writes `BillDataBuffer`, which
the main loop reads and clears, and which `OpenCashSystem` and
`CloseCashSystem` overwrite.  Timers 3, 4 and 7 share the one countdown
`WaitTime`; timer 3 clears all of the customer's data when it is over, timer 4
changes the page, timer 7 only closes itself and leaves the rest to
`WaitPayMoney`.

What makes each component correct, and what is hard about it, is listed hazard
by hazard in `PROJECT.json`.  The most important ones: a coin or a note that
arrives while the main loop adds up money; countdowns that expire while the
main loop is somewhere else; a cancel key pressed twice; money that arrives
after the settlement; a cart that asks for more than there is; a refund that
the hopper cannot pay at once; an arm that fails in the middle of a sale; an
outage between any two steps, with half a write of flash or half a save of the
registers behind it; an answer of the server that belongs to another report.

## Modules

* `Sale` - the core: one action for every command, state and interrupt.
  `at` says where the main loop is: reading the screen (`deal`), at the switch
  (`switch`), or inside a call that interrupts may split: `ReadBills` (`read`),
  the `+=` on `PayAlready` (`add`), the wait for a card (`card`), the check of
  the countdown at the end of `WaitPayMoney` (`tail`), the three seconds before
  `CloseCashSystem` (`close`), the arm (`arm`), the administrator (`abnormal`).
  Names are the program's; `MealCnt[k]` stands for `MealCnt_1st` ... and so on.
  Four history variables count the money: `inserted`, `refunded`, `delivered`
  (the value of meals handed out) and `kept` (money that was taken and belongs
  to no sale any more).
* `SaleContract` - what the customer is promised: credit grows by what is
  inserted, a sale or a cancellation turns it into change and meals, change is
  paid before meals are handed out, a failed meal is refunded with all that
  follow it, nothing is sold while something is owed.
* `Delivery` - `WaitMeal` and the arm.  `Place` is the loop the program is in:
  waiting for the answer to a command (`coord`, `getmeal`, `link`, `initlink`,
  `initcmd`), for a report (`goal`, `door`, `away`, `initwait`), or in the main
  loop (`idle`).  `machinerec` is the set of flags of that record that are 1;
  `Usart6Buff`, `Usart6Index` and `Usart6DataFlag` are the receive buffer, whose
  content is a report, nothing, or junk.  The arm is external: it takes one
  command at a time, goes through the stages of an errand and reports each.
  What it sends is received by the interrupt in one or two pieces, with
  anything in between.
* `DeliveryContract` - what the rest of the program takes `WaitMeal` to
  promise, in particular the actions `SendArm`, `Delivered` and `ArmError` of
  `Sale`: one meal at a time, which comes out if and only if it is counted.
* `ScreenFifo` - the bytes of the screen: `USART3_IRQHandler` between any two
  steps of the main loop, `USART3_GetChar` with the load, the store and the
  fetch apart, the parser with a `checkout` that was never set, and
  `UART3_ClrRxBuf`, which clears the bytes and leaves their number.  A byte is
  its number among all bytes ever sent, so that a byte taken twice or out of
  order is seen.
* `Stock` - where the meals are.  `FloorMeal` and `DefineMeal` are the program's
  tables, `flash` the copy that survives, `shelf` what really lies there.  One
  action for each of the technician's keys, for `FindMeal` with the counting out
  that follows it, and for the two halves of `WriteMeal`; an outage leaves any
  part of what was being erased or programmed.
* `Upload` - reports and records.  `up` and `down` are the requests and answers
  on their way, `rx` the answer the interrupt left, `files` the records of each
  day; `SendtoServce` with its own calendar (`Before`) and with the `Index` of
  `Fread`.  The power may fail anywhere.
* `PowerFail` - the customer's money across an outage: `SaveUserData` of the main
  loop value by value, the voltage interrupt that does the same in between, the
  register DR13 that the errors and the number of coins share, and the start.
* `SaleInv` - the inductive invariant `IInv` of `Sale` and the assumption
  `Orderly`; `DeliveryInv` - the inductive invariant `ArmInv` of `Delivery` and the
  assumptions `Plain` and `Alive` about the arm.
* `SaleProofs`, `LedgerProofs`, `ContractProofs`, `DeliveryProofs`,
  `ScreenFifoProofs`, `StockProofs`, `UploadProofs`, `PowerProofs` - the theorems.
* `MCSale` - small instances.

### The steps that lose money

`kept` is changed by a handful of actions and each is a step of the code in
which money is lost or taken without credit: a coin between load and store of
`PayAlready +=` (`AddBill`); a note that overwrites an unread one (`BillIn`),
that comes between `ReadBill` and the `memset` of `ReadBills` (`BillsRead`), or
that is in the buffer when the cash system is opened or closed
(`SetCashSystem`); a coin after the settlement (`CoinIn`); a refund of more
than 255 coins that the hopper cannot finish (`PayOut`); a card that was
charged although the payment failed (`CardFails`).  `Ledger` says that there are
no others.

### Habits

The program's screen lets a customer do things in an order the program does
not expect.  They are parameters (`Habits`) so that each can be studied alone:

* `doubletap`: a second key before the first frame is handled;
* `browse`: the menu while a refund is still running;
* `dawdle`: a countdown that expires on a meal's page;
* `fiddle`: a changed count on the account page between the check of the sum
  and the settlement, two passes of the main loop.

With all of them `Ledger`, `NoGiveaway`, `CartInStock`, `BillMatchesCart` and
`ClearIsSafe` fail: for instance a second touch of cancel forgets a refund, and
the menu touched during a refund leaves `MoneyBack` behind for the next sale.
Without any of them (`Orderly`, which also asks that the stock of a kind is too
small for the 8-bit product in `GetMealPrice` to overflow) all of them are
proved.  `TypeOK` is proved for every customer.

### Abstractions

* In `Sale` a meal's place on the shelves is left out, its kind is kept.
* A card payment succeeds, fails without a charge or fails after one; the
  cancel key of the card page is one of the reasons to fail.  `GpbocDeduct` ends
  without a `return` after twenty tries (`szt_gpboc.c:2912`); the register its
  caller reads then holds the type of the last answer or 0, never the 1 that
  means success, so the model counts it as a failure.
* A tick of an enabled timer may come at any time: the model allows ticks to be
  arbitrarily fast or slow compared with the main loop.
* The delivery page has no keys a customer can use before the sale is over;
  the keys of each page (`OnPage`) are those the screen project was made for, and
  the names of the addresses in `serialscreen.h` show.
* Errors are the empty hopper and one error of the arm: the code treats the
  others like one of these two (below or above `0x10`).
* The serial transmission of a command or a page takes no time; `delay_ms`
  matters only where an interrupt can use it (`close`).
* In `Delivery` a new command replaces one the arm has not looked at; what the
  receiver answers to a report (`SendAck`, `SendNack`) has no effect on the arm;
  a mixture of two reports in the buffer matches none; the stages of an errand
  take longer than a pass of the loop that waits for them (`Prompt`).  The
  reports that start with `E` compare bytes with numbers instead of digits
  (`protocol.c:203`) and match nothing, so they are among the reports `other`.

* In `ScreenFifo` the length a frame gives is a value of the frame, and what an
  unset `checkout` or length holds is one of `Garbage`.  `Paced` keeps the
  customer from touching more keys than the buffer holds: it has no check for
  that, and with more the frames overwrite each other.
* In `Stock` people put on a shelf what they enter for it, and prices, which lie
  in another place, are left out.  A shelf confirmed with the floor number 0
  writes the entry in front of the table, which is taken to change nothing.
  Shelves that people changed and whose entry an outage kept out of flash
  (`unsaved`) are excepted from what is claimed of the tables: nothing the
  program does could know of them.
* In `Upload` an answer has the three codes the program tells apart: taken,
  serial number repeated, anything else.  A report by `DataUpload(Failed)` from
  an alarm is one like any other.  A month has as many days as every other.
* In `PowerFail` a sale is what the registers need of it; the time after the
  warning is as long as the supply lasts, and no sale is begun in it.

### What the arm may do

`Faults` says how far the arm departs from what `WaitMeal` expects: it answers
after the limit (`late`), refuses commands it could obey (`refuses`), sends
status reports at any time (`chatty`), reports while it is given a command
(`crosses`), does not get hold of a meal (`misses`), reports that a meal was left
at the door (`slow`, which is the customer's doing), falls silent (`dead`).
`DeliveryContract` is implemented when there is at most `misses`.  An arm that may
also fall silent (`dead`) breaks it, since the meal may have come out before:
its price is paid back then, `RefundedNotHanded`.  What still holds is that an
acknowledgement is never taken for another command's and that a meal is counted
only on a report about it.  These two runs therefore say nothing of an arm that
is late, refuses, crosses or is slow: each of these faults breaks the two
properties, in the model and, as far as the code shows, in the machine: flags
and answers are not cleared when a delivery begins, so what came late for one
meal is taken for the next; the buffer holds one report and hides an answer that
follows it; a command is sent once more when it is given up.

Four properties hold with all faults at once, and are checked with them: the
types, `MealsAccounted`, `WaitMealReturns`, and `OneMealEach`: however often a
command is sent again, whatever is acknowledged or reported late, and although a
command of a delivery that was given up may still wait for the arm to read it,
no call of `WaitMeal` brings a second meal.
Some of this needs several meals.  With `crosses`, for instance,
`ErrandIsThisMeal` fails only at the fourth: a report hides the acknowledgement
for the second meal, which is given up while the arm drives to it; the place of
the third is refused three times and sent once more when it is given up; the
arm obeys that one when it is back, and this acknowledgement is taken for the
fourth meal's.

## Runs

| run | customer or arm | checks | result |
|---|---|---|---|
| `sale_orderly` | orderly | `TypeOK`, `IInv`, `Ledger`, `NoGiveaway`, `CartInStock`, `BillMatchesCart`, `ClearIsSafe`, refinement of `SaleContract` | hold |
| `sale_live` | orderly | `AlwaysResponsive`, `RefundCompletes`, `SaleEnds`, `CashWaitEnds` | hold |
| `sale_cancel_twice` | `doubletap` | `RefundNotDropped` | violated |
| `delivery_orderly` | `misses` | `RefundedNotHanded`, refinement of `DeliveryContract` | hold |
| `delivery_silent` | `misses`, `dead` | `ArmInv`, `ErrandIsThisMeal`, `CountedWasReported` | hold |
| `delivery_returns` | all faults | `TypeOK`, `MealsAccounted`, `OneMealEach`, `WaitMealReturns` | hold |
| `screen_fifo` | - | `TypeOK`, `NothingReadTwice`, `CommandIsFrame`, `UnsetNeedsClear`, `Drained` | hold |
| `stock_orderly` | technicians between sales | `TypeOK`, `NotOverstated`, `ArmFindsMeal`, `CartCanBeFound`, `SaleEnds` | hold |
| `upload_orderly` | - | `TypeOK`, `YesIsAnswered`, `TwiceAtMost`, `NewestFileSent`, `MachineRests` | hold |
| `upload_week` | - | `OfflineWeekSent` | violated |
| `outage_credit` | - | `TypeOK`, `NoCreditFromNowhere`, `OutageCostsOnce`, `StartEnds` | hold |
| `outage_unreported` | - | `OutageIsReported` | violated |

Bounds of `sale_orderly`: two kinds with stocks 2 and 1 and prices 1 and 2, the
other two sold out; notes of 2; three coins' worth of money in all; a hopper
that starts with one coin, so that it runs empty in the middle of a refund;
countdowns of two ticks and, for the delivery page, one; a byte of one bit for
the hopper's result, so that a refund can be truncated; 8 values for a char,
more than any price.  This is enough for under-, exact and overpayment by coins,
notes and cards, several sales one after the other with what the last one left
behind, a failed meal after a delivered one, every timeout, and every interrupt
at every place.  It says nothing of a price raised between the check and the
settlement (`fiddle`) nor of a product that overflows its char.  The graph has
2.2 million states.  `sale_live` has one meal
that costs 2, so that it can be paid in part, and two bits for the hopper's
result, so that a refund is not cut short by truncation.

The runs of `Delivery` have four and five meals one after the other, so that what
one delivery leaves behind can meet later ones, and one meal for all faults
with liveness.  All that holds in them but the liveness is proved for any number
of meals (below), which matters: what the run of an arm with more faults shows for three
meals can fail at the fourth.  The limits are one to three ticks: the model
compares `LinkTime` only with the limit of the present loop, and without `late` a
limit passes only when nothing is on its way.  Reports are cut after their
first, third or fifth byte (`Splits`).

`screen_fifo` has a buffer of 11 slots for frames of 9 bytes, so that both indices
turn around in the middle of a frame and the buffer is full with two bytes of
the next frame in it, and 27 bytes, three frames.  `Garbage` is 11, a length no
frame has.  `stock_orderly` has two shelves of two columns, two kinds and one
meal in a full column: two shelves can hold the same kind or different ones, a
shelf can change its kind, a write can be torn between and within shelves, and
the search passes over an empty shelf and an empty column.  One technician's
visit and one outage come at any point; the meals of one visit are sold before,
between and after.  It does not check deadlock: when the visits are used up and
all meals are sold nobody can do anything more.  `upload_orderly` has months of
two days, so that each day is at the end of a month or follows one, two meals,
one touch of the key, one outage and a window of two files; `upload_week` has
one month of four days.  Both allow one request on its way (`Late` = 0).
`outage_credit` has sales of one or two meals of price 2 paid with up to three
coins, a hopper that starts at the number of coins below which a start stops,
and two outages, the second possible during the start after the first.  Its
ghost `balance` adds the coins put in and, at a low voltage and for coins after
it, the credit that the register will give once more; it takes off coins paid
out, and meals at their price as soon as the program turns to them, which the
part the arm fails to bring gives back.  The graph has 4.2 million states.

Fairness of `Sale` (`FairSpec`): the main loop always takes a next step, since nothing in
it waits for an event without an end except the steps modelled as such; an
enabled timer ticks; a technician refills an empty hopper and an administrator
clears a reported error in the end.  The customer is never fair: the
liveness properties hold for one who goes away.  `CashWaitEnds` is about
customers who never choose a card; with one who does it fails (see below).

Fairness of `Delivery`: timer 5 ticks, the interrupt receives what was sent, and
each loop of the program acts on what it finds; the arm is not fair.  The check
of the limit has a fairness condition of its own, because each pass of a loop
makes it: reports that keep coming do not keep the loop from it.

The other modules are fair to the main loop only: it calls `DealSeriAceptData`
again and again (`ScreenFifo`), takes each next step of a sale, a write or the
start (`Stock`), leaves each wait for the server when its time is over
(`Upload`), and in `PowerFail` the power that fell goes, comes back, and an
administrator answers an alarm.  Neither customers, technicians, the server nor
the network are fair.

### What the violations show

1. `RefundNotDropped` - `serialscreen.c:1146` promises the money back in coins.
   The cancel key handled twice runs the same case twice; the second time
   `PayAlready` is already cleared and overwrites `MoneyBack`.
2. `OfflineWeekSent` - `test_lcd.c:38` and `sd.c:429` promise that the reports of
   seven days are sent after a time without network.  `Fread` does not set
   `Index` back between files (`sd.c:350`), so the records at the head of an older
   file are passed over, and a window that reaches into the month before looks
   for its days in this one (`sd.c:444`).  What is left of the promise is
   `NewestFileSent`: the newest file that exists in the window is sent completely.
3. `OutageIsReported` - `bsp.c:584` says that the start decides whether there was
   an outage and shows the money still owed.  It tests bit 0, an outage is bit 1.

Six more disagreements are known and not among the runs; each is stated as a
property of its module, and TLC finds it violated:

* `bill.c:182` calls the note buffer safe because only the interrupt changes it;
  the line above clears it in the main loop: `NoteSurvivesRead` of `Sale` fails,
  with the constants of `sale_orderly`.
* `bsp.c:222` promises a refund after the timeout.  Timer 7 closes itself during
  the wait for a card, and the countdown set again after it is never counted
  down: `AbandonedIsRefunded` of `Sale` fails, with those of `sale_live`.
* `bsp.c:394` says that case 5 follows when the customer has taken the meal.
  After a report that a meal was left `WaitMeal` goes on at once, and the report
  that it was taken is found by the next delivery: `CountedWasReported` fails
  with `Faults = {"slow"}`.
* `protocol.c:559` says that 0 means sending the place of the meal failed.  On the
  third refusal the command is sent once more (`protocol.c:589`) before 0 is
  returned, and the arm may obey that one: `NotSentNotDone` of `Delivery` fails
  with `Faults = {"refuses"}` and the other constants of `delivery_returns`.  With
  `Faults = {"crosses"}` it fails too: a report that comes in first hides the
  acknowledgement.
* `protocol.c:794` is a limit of 60 s for an arm that does not answer at the
  start; `OrderSendLink` sets the time back to 0 each time.  `InitEnds` of
  `Delivery` fails with `Faults = {"dead", "late"}`.
* `uart3.c:107` says that no interrupt is allowed during an operation on the ring
  buffer; the call that would forbid it is commented out.  `LenIsCount` of
  `ScreenFifo` fails: each increment that is lost leaves one byte behind.

## Proofs

`SaleProofs` proves `Typing`: `Spec => []TypeOK`, from `SaleAssumption` alone.
`TypeOK` needs one more conjunct to be inductive, `ArmOK` (while the arm moves
the cart still holds the meal it fetches).

`LedgerProofs` proves `Inductive`: `Orderly => (Spec => []MoneyInv)`, with one lemma
for each group of actions (screen, rest of the loop, payment, serving,
interrupts, people).  `Ledger` alone is not inductive.  Its step for a refund
after an arm error needs that the cart's value is what is owed; the one for
timer 3 that there is no money in when it clears the data (`PageOK`, `CashOK`,
`ClearedOK`); the one for a settlement that the sum asked is the value of the
cart (`CartOK`), which rests on the 8-bit product not overflowing; the ones for
frames that a frame still belongs to the page shown (`TapsOK`); and all of them
on where the main loop can be in which state (`PlaceOK`, `PointOK`, `PaidOK`).
From `MoneyInv` follow `LedgerHolds`, `NothingGivenAway`, `TimerClearsSafely` and
`BillIsRight`.

`ContractProofs` adds `AskedOK` (`IInv` is both): the cart, and the count on a
meal's page before it becomes part of the cart, stay within the stock, except
for the meal on the arm.  `CartIsInStock` follows.  `SaleKeepsContract` is the
refinement of `SaleContract`: `Received` (what is credited or inserted and not
yet credited), `Owed`, `MealsOwed` and `Given` are the contract's variables, and
there is one lemma for each group of actions that says which step of the
contract each action is, or that it changes none of them.

`DeliveryProofs` proves `Typing` and `Accounted` of `Delivery` from
`DeliveryAssumption`, for every arm (any `Faults`), every choice of limits,
retries and points where a report may be cut, and any number of meals.  For
`Accounted` the invariant is `TypeOK`, `Busy` (a loop that fetches a meal has
one) and `MealsAccounted` itself; `EndsAccount` is the step in which a delivery
ends, `SameAccount` every other.  `OneMealOnly` (`OneMealEach`), for every arm too,
needs `OnceInv`: a meal that the arm could still be sent to, by the loop that
repeats its command, by a command it has not read or by its present errand, has
not come out.

The rest of `DeliveryProofs` assumes `Plain`, an arm with at most `misses` and `dead`.
The invariant `ArmInv` says how the program's loop, the arm's stage, the command
and the one message that the program has not looked at (`Unread`: on the line,
half in the buffer, or in it) fit together: in the loop of a command either the
arm still has it and nothing is unread, or its acknowledgement is unread or up
(`OrderOK`); elsewhere each loop has the few pairs of stage and message of `Sends`
(`ArmOK`).  A limit passes only for an arm that is off (`LimitOK`), which is what
fails for a late one; the buffer is empty when an answer comes (`BufferOK`), which
is what fails when a report crosses a command; no flag stays up but `relative`
(`FlagsOK`).  `RightErrand` and `CountedOnReport` follow.  With
`Alive`, at most `misses`, the arm is never off, so no limit passes at all but the
one of the start, and `DeliveryKeepsContract` shows for each step which one of
`DeliveryContract` it is; `RefundIsRight` follows from that.

`ScreenFifoProofs` proves the type invariant and all three safety properties of
`ScreenFifo`, for every size of the buffer, every `Garbage` and any number of
bytes.  The invariant says where the next byte to be taken lies and that each
slot between the indices holds its byte or was cleared, and it bounds the length
by what waits, also while the main loop holds a loaded length (`held`): an
increment in between can only be lost, never counted twice.  For `CommandIsFrame`
it says how far into its frame each place of the parser is.

`StockProofs` proves, under `Hasty = 0` (a technician opens the pages when no cart is
filled), `NotOverstated` and `ArmFindsMeal`, then `TypeOK` and `CartCanBeFound`, for any
number of shelves, kinds, visits and outages and any finite set of columns.  The
invariant `StockInv` says of each place of the main loop which of the tables may be
ahead of the shelves: while the arm is away, the meal it is after is on the shelf
and in no table.  `TypeInv` says that no column is ever counted down through 0, and
`CartInv` that the cart asks for no more of a kind than the table of shelves and
the meal the arm is after make up.  Both need facts about
sums (`SumType`, `SumMore`, `SumZero`, `SumChange`): `SumFunction` is a recursive function
over the subsets of its domain, and each fact about it is shown of a smallest
subset for which it would fail (`SmallestSet`), which takes the place of induction.

`UploadProofs` proves `TypeOK` and `TwiceAtMost` for every server and network, and
`YesIsAnswered` if no answer comes after the next request (`Late = 0`).  The
invariant follows a serial number from the report to the record, the request,
the answer and `rx`.  `NewestIsSent` (`NewestFileSent`) holds for any calendar, any
number of files opened, late answers or not, and wherever midnight falls.  Its
invariant `SentInv` is about the day the start began with, which no variable
remembers: there is such a day `s` that the file open is the one counted back from
`s`, that the files before it are done, and that `Index` counts from 0 in the first
one that is not empty.  `MidnightNewest` says why a later day does no harm: no file
is of a day still to come (`Dated`), so the newest file seen from the next day is
the newest seen from this one, and from the first of a month there is none.
`BackFacts` unfolds the recursive function that counts the days.

`PowerProofs` proves `NoCreditFromNowhere`: what `SaveUserData` has loaded and not yet
written is never more than the credit of the customer who is paying, and the
register is overwritten before he is gone.  It proves `TypeOK` too, whose point is
that a refund interrupted anywhere gives no more coins than it owes (`HeldInv`).
`OutageCosts` (`OutageCostsOnce`) follows from `OwnerInv`: in each state of the
program the balance covers what it can still give out (`BalanceInv`), the
register between outage and start, `PayAlready` while somebody may pay with it,
what a refund still owes, and while the voltage is low the register besides.  The
step that needs more is the way back to the menu after a refund for the arm's
error, when `PayAlready` still holds a credit that was paid back: `StaleInv` says
that the arm's bit is set in `erro_record` then, so that the alarms, which start
from the highest bit, come to it and clear the credit.  The bits of the register
are powers 2^e, of which the prover knows nothing: that they are natural numbers
and double is shown by counting the subsets of a set (`Doubling`, `Marks`), and
`ArmMark` that no other error disturbs the arm's bit.

Every invariant and every action property that a passing run checks is a theorem
above, the ones of orderly customers, technicians, arms and answers under the
assumption the run's constants state.  Only model-checked are the liveness
properties, which are out of the prover's reach, and what the three runs that
expect a violation refute.

## Not modelled

* The serial protocols of the validator and of the two card readers
  (`szt_gpboc.c`).  Their other ends are devices of which the repository has no
  description but the bytes; what a sale sees of them is in `Sale`: a note, a
  payment, a failure, a failure after the card was charged.
* Prices, passwords, the clock's setting and the temperature: values that are
  stored and shown.
* The sign-in, the status and parameter reports: they are sent and waited for by
  the function `Upload` models, and nothing is decided on their answers but
  whether an alarm is raised.
* Printer, voice, LED, clock, EEPROM: output.
* `Libraries`, `filesys`, `lwip_v1.3.2` and the samples of the board's vendor, nine
  tenths of the lines of the repository: third-party code, of which the program
  uses registers, FatFs calls and nothing of lwIP.

## Plan

1. The readers' repeats and reversals as a module of their own, once the devices'
   answers are described.
