---------------------------- MODULE SaleContract ----------------------------
(***************************************************************************)
(* What the machine promises about one sale, without its screen, timers or *)
(* main loop.  Money is credited while the machine sells; one step turns   *)
(* the credit into change and meals, or into change alone; the change is   *)
(* paid first, then the meals come out one by one; a meal that fails turns *)
(* every meal still owed into change.  Nothing is sold while anything is   *)
(* owed.                                                                   *)
(***************************************************************************)
EXTENDS Integers

CONSTANTS
  Worth,  \* the values one meal can have
  ByteMod \* the hopper driver reports the coins left to pay modulo this

VARIABLES
  credit, \* money taken for the sale that is being made
  owed,   \* coins to pay out
  meals,  \* value of the meals to hand out
  given   \* value of all coins and meals ever handed out

vars == <<credit, owed, meals, given>>

Init == credit = 0 /\ owed = 0 /\ meals = 0 /\ given = 0

(* Money comes in; it can also be lost before it is counted. *)
Take ==
  /\ owed = 0 /\ meals = 0
  /\ credit' \in Nat
  /\ UNCHANGED <<owed, meals, given>>

(* The credit buys p worth of meals, the rest (less what was not counted) is owed. *)
Sell(p) ==
  /\ owed = 0 /\ meals = 0 /\ p <= credit
  /\ owed' \in 0..(credit - p)
  /\ meals' = p
  /\ credit' = 0
  /\ UNCHANGED given

PayCoins(n) ==
  /\ n <= owed
  /\ owed' = (owed - n) % ByteMod
  /\ given' = given + n
  /\ UNCHANGED <<credit, meals>>

HandOut(p) ==
  /\ owed = 0 /\ p <= meals
  /\ meals' = meals - p
  /\ given' = given + p
  /\ UNCHANGED <<credit, owed>>

Fail ==
  /\ owed = 0
  /\ owed' = meals /\ meals' = 0
  /\ UNCHANGED <<credit, given>>

Next ==
  \/ Take
  \/ \E p \in 0..credit : Sell(p)
  \/ \E n \in 0..owed : PayCoins(n)
  \/ \E p \in Worth : HandOut(p)
  \/ Fail

Spec == Init /\ [][Next]_vars
=============================================================================
