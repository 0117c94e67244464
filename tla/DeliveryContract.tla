-------------------------- MODULE DeliveryContract --------------------------
(***************************************************************************)
(* What the rest of the program takes WaitMeal to promise: one meal at a   *)
(* time is asked for; it comes out, if it does, while it is asked for; it  *)
(* is counted when it came out and given up, and paid back, when it did    *)
(* not.                                                                    *)
(***************************************************************************)
EXTENDS Naturals

CONSTANT MaxMeals   \* bound: meals ever asked for

VARIABLES busy, meal, handed, counted, failed

Init == /\ busy = FALSE /\ meal = 0
        /\ handed = {} /\ counted = {} /\ failed = {}

Ask == /\ ~busy /\ meal < MaxMeals
       /\ busy' = TRUE /\ meal' = meal + 1
       /\ UNCHANGED <<handed, counted, failed>>

HandOver == /\ busy /\ meal \notin handed
            /\ handed' = handed \cup {meal}
            /\ UNCHANGED <<busy, meal, counted, failed>>

Count == /\ busy /\ meal \in handed
         /\ busy' = FALSE /\ counted' = counted \cup {meal}
         /\ UNCHANGED <<meal, handed, failed>>

GiveUp == /\ busy /\ meal \notin handed
          /\ busy' = FALSE /\ failed' = failed \cup {meal}
          /\ UNCHANGED <<meal, handed, counted>>

Next == Ask \/ HandOver \/ Count \/ GiveUp

Spec == Init /\ [][Next]_<<busy, meal, handed, counted, failed>>
=============================================================================
