------------------------------ MODULE Delivery ------------------------------
(***************************************************************************)
(* How a meal is fetched: WaitMeal (bsp.c) with the commands it gives to   *)
(* the arm (OrderSendCoord, OrderGetMeal of protocol.c), the link check of *)
(* the main loop (OrderSendLink), OnlymachieInit, with which the program   *)
(* starts, the interrupt that receives what the arm sends (uart6.c), and   *)
(* manageusart6data, which reads its reports.                              *)
(*                                                                         *)
(* The arm is another computer.  It is modelled from the protocol that     *)
(* protocol.c describes; Faults says what it may do beyond that.           *)
(***************************************************************************)
EXTENDS Integers

CONSTANTS
  LinkWait,   \* ticks a command waits for its answer (1)
  LinkPoll,   \* ticks after which the main loop asks for the arm (5)
  GoalWait,   \* ticks for the way to the meal (10)
  DoorWait,   \* ticks for the way to the door (120)
  AwayWait,   \* ticks for the customer to take the meal (180)
  InitWait,   \* ticks for the arm to reach its first position (60)
  Retries,    \* refusals after which a command is given up (3)
  Splits,     \* bound: where the reading of a report can cut it in two
  MaxMeals,   \* bound: meals ever asked for
  Faults      \* which of ArmFaults there are

(* "late": an answer or report may come after the program's limit for it;   *)
(* "refuses": any command may be refused; "chatty": temperature, door and    *)
(* fault reports, which raise no flag WaitMeal looks at, come at any time;   *)
(* "crosses": a report may be on its way when a command is given;            *)
(* "misses": the arm may not get hold of the meal; "slow": the customer may  *)
(* leave a meal at the door for 20 s; "dead": the arm may fall silent.       *)
ArmFaults == {"late", "refuses", "chatty", "crosses", "misses", "slow", "dead"}

ASSUME DeliveryAssumption ==
  /\ {LinkWait, LinkPoll, GoalWait, DoorWait, AwayWait, InitWait, MaxMeals} \subseteq Nat
  /\ Retries \in Nat \ {0} /\ Splits \subseteq 1..5 /\ Faults \subseteq ArmFaults

VARIABLES
  Place,          \* the loop the program is in
  LinkTime,       \* counted up by timer 5
  RetryFre,       \* refusals of the command given
  machinerec,     \* the flags that are 1
  Usart6Buff,     \* what the receive buffer holds
  Usart6Index,
  Usart6DataFlag,
  order,          \* the command the arm has not yet looked at, and its meal
  coming,         \* what the arm sends, and how many bytes of it are to come
  arm,            \* what the arm does ...
  job,            \* ... and for which meal
  meal,           \* meals asked for so far; the last is the present one
  handed,         \* ghost: meals that reached the door
  reported,       \* ghost: meals the arm reported taken, or left for 20 s
  counted,        \* ghost: meals WaitMeal counted as delivered
  failed          \* ghost: meals it returned takemeal_erro for

uart  == <<Usart6Buff, Usart6Index, Usart6DataFlag>>
robot == <<order, coming, arm, job>>
fate  == <<handed, reported>>
vars  == <<Place, LinkTime, RetryFre, machinerec, uart, robot, meal, fate, counted, failed>>

Answers  == {"ack", "nack"}
Reports  == {"goal", "todoor", "mealaway", "mealnoaway", "enablegetmeal", "relative"}
Flags    == Answers \cup Reports
Commands == {"link", "init", "coord", "getmeal"}
Meals    == 1..MaxMeals
Nothing  == <<"none", 0>>
Silent   == <<"none", 0>>

(* The loops of the program: five wait for the answer to a command, four for *)
(* a report, "idle" is the main loop.                                         *)
Ordering  == {"initlink", "initcmd", "link", "coord", "getmeal"}
Awaiting  == {"initwait", "goal", "door", "away"}
Starting  == {"initlink", "initcmd", "initwait"}
Fetching  == {"coord", "goal", "getmeal", "door", "away"}
Places    == Ordering \cup Awaiting \cup {"idle"}
Awaited   == [initwait |-> {"relative"}, goal |-> {"goal"},
              door |-> {"todoor", "enablegetmeal"}, away |-> {"mealaway", "mealnoaway"}]
CommandAt == [initlink |-> "link", initcmd |-> "init", link |-> "link",
              coord |-> "coord", getmeal |-> "getmeal"]

(* LinkTime beyond which the program gives up waiting (or, idle, asks for the arm). *)
Limit == [p \in Places |->
            IF p \in Ordering THEN LinkWait
            ELSE IF p = "idle" THEN LinkPoll - 1
            ELSE IF p = "initwait" THEN InitWait - 1
            ELSE IF p = "goal" THEN GoalWait
            ELSE IF p = "door" THEN DoorWait ELSE AwayWait]

Init ==
  /\ Place = "initlink" /\ LinkTime = 0 /\ RetryFre = 0
  /\ machinerec = {}
  /\ Usart6Buff = "none" /\ Usart6Index = 0 /\ Usart6DataFlag = 0
  /\ order = <<"link", 0>> /\ coming = Silent /\ arm = "home" /\ job = 0
  /\ meal = 0
  /\ handed = {} /\ reported = {} /\ counted = {} /\ failed = {}

(* Mistakes one could make in the helpers below, with which the runs must fail: *)
(* a buffer index that never returns to 0, or not when the buffer is read, a    *)
(* limit that is over when it is reached, flags left up when they have been     *)
(* acted on, an acknowledgement left up, an error that is not reported, and a   *)
(* wait that any report restarts.                                               *)
UnboundedIndex(n) == Usart6Index + n
IndexStays    == /\ Usart6DataFlag' = 0 /\ UNCHANGED Usart6Index
                 /\ Usart6Buff' = IF Usart6DataFlag = 1 THEN "none" ELSE Usart6Buff
OverEarly     == LinkTime >= Limit[Place]
StaysUp(flags) == machinerec \cup ({Usart6Buff} \cap Reports)
AckStaysUp    == machinerec
LeaveSilently == /\ Place' = "idle" /\ LinkTime' = 0 /\ RetryFre' = 0
                 /\ UNCHANGED <<order, failed>>
ReportRestarts ==
  /\ Place \in Awaiting /\ Usart6DataFlag = 1 /\ Usart6Buff \notin Awaited[Place]
  /\ LinkTime' = 0
  /\ Usart6DataFlag' = 0 /\ Usart6Index' = 0 /\ Usart6Buff' = "none"
  /\ UNCHANGED <<Place, RetryFre, machinerec, robot, meal, fate, counted, failed>>

-----------------------------------------------------------------------------
(* The arm (external).  It looks at one command at a time: a command that     *)
(* finds an earlier one still unread takes its place.                         *)

Says(m) == coming = Silent /\ coming' = <<m, IF m \in Answers THEN 1 ELSE 6>>
ArmOnly == UNCHANGED <<Place, LinkTime, RetryFre, machinerec, uart, meal, counted, failed>>

(* The errands the arm can begin where it is. *)
Able(cmd) ==
  \/ cmd = "link"
  \/ cmd = "init"    /\ arm \notin {"door", "left"}
  \/ cmd = "coord"   /\ arm \in {"home", "goal", "returning"}
  \/ cmd = "getmeal" /\ arm = "goal"

Accept ==
  /\ order # Nothing /\ arm # "off" /\ Able(order[1])
  /\ Says("ack")
  /\ order' = Nothing
  /\ arm' = [link |-> arm, init |-> "returning", coord |-> "moving",
             getmeal |-> "fetching"][order[1]]
  /\ job' = IF order[1] = "coord" THEN order[2] ELSE job
  /\ UNCHANGED fate /\ ArmOnly

Refuse ==
  /\ order # Nothing /\ arm # "off"
  /\ ~Able(order[1]) \/ "refuses" \in Faults
  /\ Says("nack")
  /\ order' = Nothing
  /\ UNCHANGED <<arm, job, fate>> /\ ArmOnly

(* The program has seen what came last: the stages of an errand take seconds, *)
(* a pass of the loops of WaitMeal and of the Order functions microseconds.    *)
(* The main loop makes no such promise: it also waits for hoppers and cards.   *)
Prompt == /\ Place \in Ordering => machinerec \cap Answers = {}
          /\ Place \in Awaiting => Usart6DataFlag = 0 /\ machinerec \cap Awaited[Place] = {}

(* A stage of its errand ends, and it reports that. *)
Stage(from, report, to) ==
  /\ arm = from /\ Prompt /\ arm' = to
  /\ Place \in Ordering => "crosses" \in Faults
  /\ Says(report)
  /\ UNCHANGED <<order, job>> /\ ArmOnly

ReachGoal == Stage("moving", "goal", "goal") /\ UNCHANGED fate
ReachDoor == /\ Stage("fetching", "todoor", "door")
             /\ handed' = handed \cup {job} /\ UNCHANGED reported
MissMeal  == /\ "misses" \in Faults
             /\ Stage("fetching", "enablegetmeal", "returning") /\ UNCHANGED fate
LeaveMeal == /\ "slow" \in Faults
             /\ Stage("door", "mealnoaway", "left")
             /\ reported' = reported \cup {job} /\ UNCHANGED handed
TakeMeal  == /\ \E at \in {"door", "left"} : Stage(at, "mealaway", "returning")
             /\ reported' = reported \cup {job} /\ UNCHANGED handed
ReachHome == Stage("returning", "relative", "home") /\ UNCHANGED fate
Chatter   == /\ "chatty" \in Faults /\ arm # "off"
             /\ Says("other") /\ UNCHANGED <<order, arm, job, fate>> /\ ArmOnly
Die       == /\ "dead" \in Faults /\ arm # "off" /\ arm' = "off"
             /\ UNCHANGED <<order, coming, job, fate>> /\ ArmOnly

Arm == \/ Accept \/ Refuse \/ ReachGoal \/ ReachDoor \/ MissMeal \/ LeaveMeal
       \/ TakeMeal \/ ReachHome \/ Chatter \/ Die

-----------------------------------------------------------------------------
(* USART6_IRQHandler.  Bytes go to Usart6Buff from Usart6Index on, and the    *)
(* index returns to 0 after the seventh.  An answer is recognised only as the *)
(* first byte of the buffer, a report by its last two bytes, which must lie   *)
(* side by side.  What is left of a report that was read into, or written     *)
(* over, is "junk": manageusart6data finds no report in it.                   *)

Advance(n) == (Usart6Index + n) % 7

ReceiveAnswer ==
  /\ coming[1] \in Answers
  /\ coming' = Silent
  /\ IF Usart6Index = 0
       THEN /\ machinerec' = (machinerec \ Answers) \cup {coming[1]}
            /\ Usart6Buff' = IF Usart6Buff = "none" THEN "none" ELSE "junk"
            /\ UNCHANGED <<Usart6Index, Usart6DataFlag>>
       ELSE /\ Usart6Index' = Advance(1)
            /\ UNCHANGED <<machinerec, Usart6Buff, Usart6DataFlag>>
  /\ UNCHANGED <<Place, LinkTime, RetryFre, order, arm, job, meal, fate, counted, failed>>

(* The first n bytes of a report; the program may run before the others come. *)
ReceivePart(n) ==
  /\ coming[2] = 6
  /\ coming' = <<coming[1], 6 - n>>
  /\ Usart6Index' = Advance(n)
  /\ Usart6Buff' = IF Usart6Index = 6 /\ n = 1 THEN Usart6Buff ELSE "junk"
  /\ UNCHANGED <<Usart6DataFlag, machinerec>>
  /\ UNCHANGED <<Place, LinkTime, RetryFre, order, arm, job, meal, fate, counted, failed>>

(* Its last bytes, or all of it. *)
ReceiveRest ==
  LET n    == coming[2]
      last == Advance(n - 1)
  IN /\ coming # Silent /\ coming[1] \notin Answers
     /\ coming' = Silent
     /\ Usart6Buff' = IF Usart6Index = 6 - n THEN coming[1] ELSE "junk"
     /\ Usart6Index' = Advance(n)
     /\ Usart6DataFlag' = IF last # 0 THEN 1 ELSE Usart6DataFlag
     /\ UNCHANGED machinerec
     /\ UNCHANGED <<Place, LinkTime, RetryFre, order, arm, job, meal, fate, counted, failed>>

USART6_IRQHandler == ReceiveAnswer \/ (\E n \in Splits : ReceivePart(n)) \/ ReceiveRest

(* What the program waits for at its present place is on its way.  Only a     *)
(* late arm lets the limit pass then.                                         *)
OnItsWay ==
  \/ coming # Silent \/ (Place \in Awaiting /\ Usart6DataFlag = 1)
  \/ Place \in Ordering /\ ((order # Nothing /\ arm # "off") \/ machinerec \cap Answers # {})
  \/ <<Place, arm>> \in {<<"initwait", "returning">>, <<"goal", "moving">>,
                         <<"door", "fetching">>, <<"away", "door">>}

(* TIM5_IRQHandler.  LinkTime stops where the program can no longer tell it   *)
(* from larger values.                                                        *)
TIM5_IRQHandler ==
  /\ LinkTime <= Limit[Place]
  /\ LinkTime < Limit[Place] \/ Place = "idle" \/ "late" \in Faults \/ ~OnItsWay
  /\ LinkTime' = LinkTime + 1
  /\ UNCHANGED <<Place, RetryFre, machinerec, uart, robot, meal, fate, counted, failed>>

-----------------------------------------------------------------------------
(* manageusart6data: the flag of the report in the buffer, if it is one.      *)
Raised == machinerec \cup (IF Usart6DataFlag = 1 THEN {Usart6Buff} \cap Reports ELSE {})
Read   == /\ Usart6DataFlag' = 0
          /\ IF Usart6DataFlag = 1 THEN Usart6Buff' = "none" /\ Usart6Index' = 0
                                   ELSE UNCHANGED <<Usart6Buff, Usart6Index>>

(* No report crosses the command that is given now, unless the arm does that. *)
Uncrossed == coming = Silent \/ "crosses" \in Faults

(* A command is sent, and its loop entered. *)
Send(p, m) == order' = <<CommandAt[p], IF p \in Fetching THEN m ELSE 0>>
Give(p, m) == Place' = p /\ LinkTime' = 0 /\ RetryFre' = 0 /\ Send(p, m)
Back(p) == Place' = p /\ LinkTime' = 0 /\ RetryFre' = 0 /\ UNCHANGED order

(* Back to the main loop without a reset of LinkTime, which may then be enough *)
(* for the next question to the arm.                                           *)
Leave == /\ Place' = "idle" /\ RetryFre' = 0 /\ UNCHANGED order
         /\ LinkTime' = IF LinkTime > Limit["idle"] THEN Limit["idle"] + 1 ELSE LinkTime

(* WaitMeal returns takemeal_erro. *)
GiveUp == Leave /\ failed' = failed \cup {meal}

(* The limit of the present loop is over. *)
Over == LinkTime > Limit[Place]
AckSeen == machinerec \ Answers

(* The Order functions: their loop finds the acknowledgement, ... *)
Acked ==
  /\ Place \in Ordering /\ "ack" \in machinerec
  /\ machinerec' = AckSeen \ (IF Place = "coord" THEN {"relative"} ELSE {})
  /\ \/ Place = "initlink" /\ Give("initcmd", meal)
     \/ Place = "initcmd"  /\ Back("initwait")
     \/ Place = "link"     /\ Back("idle")
     \/ Place = "coord"    /\ Back("goal")
     \/ Place = "getmeal"  /\ Back("door")
  /\ UNCHANGED <<uart, coming, arm, job, meal, fate, counted, failed>>

(* Mutant: a delivery whose command is not answered in time begins again. *)
RetriesErrand ==
  /\ Place \in Ordering /\ "ack" \notin machinerec /\ Over
  /\ \/ Place \in Starting /\ Give("initlink", meal)
     \/ Place = "link" /\ Back("idle")
     \/ Place \in Fetching /\ Give("coord", meal)
  /\ UNCHANGED <<machinerec, uart, coming, arm, job, meal, fate, counted, failed>>

(* ... or its time over, ... *)
Unanswered ==
  /\ Place \in Ordering /\ "ack" \notin machinerec /\ Over
  /\ \/ Place \in Starting /\ Give("initlink", meal) /\ UNCHANGED failed
     \/ Place = "link" /\ Back("idle") /\ UNCHANGED failed
     \/ Place \in Fetching /\ Back("idle") /\ failed' = failed \cup {meal}
  /\ UNCHANGED <<machinerec, uart, coming, arm, job, meal, fate, counted>>

(* ... or a refusal: the command is sent again, even if that was the last one *)
(* it takes.                                                                  *)
Nacked ==
  /\ Place \in Ordering /\ "ack" \notin machinerec /\ ~Over
  /\ "nack" \in machinerec
  /\ machinerec' = AckSeen
  /\ IF RetryFre + 1 < Retries
       THEN /\ RetryFre' = RetryFre + 1
            /\ Send(Place, meal)
            /\ UNCHANGED <<Place, LinkTime, failed>>
       ELSE IF Place \in Starting THEN Give("initlink", meal) /\ UNCHANGED failed
       ELSE /\ Place' = "idle" /\ LinkTime' = 0 /\ RetryFre' = 0
            /\ Send(Place, meal)
            /\ failed' = IF Place \in Fetching THEN failed \cup {meal} ELSE failed
  /\ UNCHANGED <<uart, coming, arm, job, meal, fate, counted>>

-----------------------------------------------------------------------------
(* The main loop.  Each pass reads the report there is; it may then ask for   *)
(* the arm, or call WaitMeal, which sends the place of the meal.              *)
Idle ==
  /\ Place = "idle" /\ Usart6DataFlag = 1
  /\ machinerec' = Raised /\ Read
  /\ UNCHANGED <<Place, LinkTime, RetryFre, robot, meal, fate, counted, failed>>

AskLink ==
  /\ Place = "idle" /\ Over /\ Uncrossed
  /\ machinerec' = Raised /\ Read
  /\ Give("link", meal)
  /\ UNCHANGED <<coming, arm, job, meal, fate, counted, failed>>

WaitMeal ==
  /\ Place = "idle" /\ meal < MaxMeals /\ Uncrossed
  /\ machinerec' = Raised /\ Read
  /\ meal' = meal + 1
  /\ Give("coord", meal')
  /\ UNCHANGED <<coming, arm, job, fate, counted, failed>>

(* The loops that wait for a report read what there is, then look at their    *)
(* flags.                                                                     *)
Down(flags)   == Raised \ flags
Poll(p, flag) == Place = p /\ flag \in Raised /\ machinerec' = Down({flag}) /\ Read
Others        == UNCHANGED <<coming, arm, job, meal, fate>>

InitDone ==
  /\ Place = "initwait" /\ "relative" \in Raised
  /\ machinerec' = Raised /\ Read
  /\ Leave
  /\ Others /\ UNCHANGED <<counted, failed>>

AtGoal ==
  /\ Poll("goal", "goal")
  /\ Give("getmeal", meal)
  /\ Others /\ UNCHANGED <<counted, failed>>

AtDoor ==
  /\ Poll("door", "todoor")
  /\ Back("away")
  /\ Others /\ UNCHANGED <<counted, failed>>

NoMeal ==
  /\ "todoor" \notin Raised
  /\ Poll("door", "enablegetmeal")
  /\ GiveUp
  /\ Others /\ UNCHANGED counted

(* The meal was taken, or is still there after 20 s: both are cleared.        *)
Away ==
  /\ Place = "away" /\ {"mealaway", "mealnoaway"} \cap Raised # {}
  /\ machinerec' = Down({"mealaway", "mealnoaway"}) /\ Read
  /\ Back("idle") /\ counted' = counted \cup {meal}
  /\ Others /\ UNCHANGED failed

(* None of the flags is up: the loop goes round. *)
KeepWaiting ==
  /\ Place \in Awaiting /\ Usart6DataFlag = 1
  /\ Raised \cap Awaited[Place] = {}
  /\ machinerec' = Raised /\ Read
  /\ UNCHANGED <<Place, LinkTime, RetryFre, robot, meal, fate, counted, failed>>

(* The limit has passed; it is looked at before the report is. *)
TimeOut ==
  /\ Place \in Awaiting /\ Over
  /\ \/ Place = "initwait" /\ Leave /\ UNCHANGED failed
     \/ Place = "goal" /\ Back("idle") /\ failed' = failed \cup {meal}
     \/ Place \in {"door", "away"} /\ GiveUp
  /\ UNCHANGED <<machinerec, uart, coming, arm, job, meal, fate, counted>>

Program == \/ Acked \/ Unanswered \/ Nacked
           \/ Idle \/ AskLink \/ WaitMeal
           \/ InitDone \/ AtGoal \/ AtDoor \/ NoMeal \/ Away \/ KeepWaiting \/ TimeOut

Next == Arm \/ USART6_IRQHandler \/ TIM5_IRQHandler \/ Program

Spec == Init /\ [][Next]_vars

(* The interrupts come, and each loop looks at its conditions again and again: *)
(* a report that keeps coming does not keep it from looking at its limit.      *)
Fairness == /\ WF_vars(USART6_IRQHandler) /\ WF_vars(TIM5_IRQHandler)
            /\ WF_vars(Acked) /\ WF_vars(Unanswered) /\ WF_vars(Nacked)
            /\ WF_vars(Idle) /\ WF_vars(AskLink) /\ WF_vars(TimeOut)
            /\ WF_vars(InitDone \/ AtGoal \/ AtDoor \/ NoMeal \/ Away \/ KeepWaiting)

FairSpec == Spec /\ Fairness

-----------------------------------------------------------------------------
(* The variables hold what the code can put into them. *)
TypeOK ==
  /\ Place \in Places
  /\ LinkTime \in 0..(Limit[Place] + 1)
  /\ RetryFre \in 0..(Retries - 1)
  /\ machinerec \subseteq Flags
  /\ Usart6Buff \in Reports \cup {"none", "junk", "other"}
  /\ Usart6Index \in 0..6 /\ Usart6DataFlag \in {0, 1}
  /\ order \in (Commands \X (0..meal)) \cup {Nothing}
  /\ coming \in ((Flags \cup {"other"}) \X (1..6)) \cup {Silent}
  /\ arm \in {"home", "moving", "goal", "fetching", "door", "left", "returning", "off"}
  /\ meal \in 0..MaxMeals /\ job \in 0..meal
  /\ {handed, reported, counted, failed} \subseteq SUBSET (0..meal)

(* The price of a meal WaitMeal gives up is paid back (test_lcd.c), so that    *)
(* meal must not come out: neither before nor, when the arm still has the      *)
(* command, after the error.                                                   *)
RefundedNotHanded == failed \cap handed = {}

(* A command is acknowledged by the arm, not by what it said to an earlier     *)
(* one: once the place of a meal is acknowledged, that meal is the arm's job.  *)
ErrandIsThisMeal == Place \in Fetching \ {"coord"} => job = meal

(* A meal is counted because the arm reported what became of that meal.        *)
CountedWasReported == counted \subseteq reported

(* Each call of WaitMeal brings one meal at most: none is fetched again for a    *)
(* command sent again after a refusal, an acknowledgement or a report that came  *)
(* late or crossed a command, or a command of an earlier call still unread.     *)
OneMealEach == arm = "fetching" => job \notin handed

(* A command the program gives up as not sent is not carried out by the arm:   *)
(* OrderSendCoord returns 0 only when sending the place of the meal failed.  It *)
(* does not hold for an arm that refuses, which may obey the command sent last. *)
NotSentNotDone == arm = "moving" => job \notin failed

(* Whatever the arm does, every meal asked for is counted or paid back, and     *)
(* none is both.                                                                *)
MealsAccounted == /\ counted \cap failed = {}
                  /\ counted \cup failed = 1..(IF Place \in Fetching THEN meal - 1 ELSE meal)

(* What Sale relies on: between the request for a meal and its answer the meal *)
(* comes out if and only if it is counted.                                     *)
Contract == INSTANCE DeliveryContract WITH busy <- Place \in Fetching
MeetsContract == Contract!Spec

(* Each loop of WaitMeal and of OrderSendLink has a limit, so the program      *)
(* comes back to the main loop whatever the arm does.                          *)
WaitMealReturns == (Place \in Fetching \cup {"link"}) ~> (Place = "idle")

(* OnlymachieInit ends: it has a limit of 60 s for a silent arm.               *)
InitEnds == <>(Place \notin Starting)
=============================================================================
