---------------------------- MODULE DeliveryInv ----------------------------
(***************************************************************************)
(* The inductive invariant behind the safety of Delivery, for an arm that  *)
(* may miss a meal or fall silent and does nothing else it should not:     *)
(* what the arm has said and the program has not read yet fits the loop    *)
(* the program is in, and where the arm is fits both.                      *)
(***************************************************************************)
EXTENDS Delivery

(* Which departures of the arm the safety properties survive: a meal missed and *)
(* an arm that falls silent; what counts on the meals themselves, only the first. *)
Plain == Faults \subseteq {"misses", "dead"}
Alive == Faults \subseteq {"misses"}

(* The message the program has not looked at: on the line, or in the buffer. *)
Unread == IF coming # Silent THEN coming[1]
          ELSE IF Usart6DataFlag = 1 THEN Usart6Buff ELSE "none"

(* One message at a time: none, an answer, a report of which the buffer holds *)
(* the first bytes, or a report in the buffer.                                *)
BufferOK ==
  \/ /\ coming = Silent \/ coming = <<"ack", 1>>
     /\ Usart6DataFlag = 0 /\ Usart6Index = 0 /\ Usart6Buff = "none"
  \/ /\ coming[1] \in Reports /\ coming = <<coming[1], 6 - Usart6Index>>
     /\ Usart6DataFlag = 0 /\ Usart6Index \in 0..5
  \/ /\ coming = Silent
     /\ Usart6DataFlag = 1 /\ Usart6Index = 6 /\ Usart6Buff \in Reports

(* Of the flags only an acknowledgement and the report of a finished way home  *)
(* ever stay up, the first only while it is waited for.                        *)
FlagsOK == /\ machinerec \subseteq {"ack", "relative"}
           /\ Place \notin Ordering => "ack" \notin machinerec

(* Where the arm can be before it obeys the command of a loop, and after. *)
Ready == [initlink |-> {"home"}, initcmd |-> {"home"}, link |-> {"home", "returning"},
          coord |-> {"home", "returning"}, getmeal |-> {"goal"}]
Obeys == [initlink |-> {"home"}, initcmd |-> {"returning"}, link |-> {"home", "returning"},
          coord |-> {"moving"}, getmeal |-> {"fetching"}]

(* In the loop of a command that command is with the arm, or else its answer is  *)
(* on the line or has arrived; elsewhere a living arm has no command.            *)
OrderOK ==
  /\ Place \in Ordering =>
       \/ /\ order = <<CommandAt[Place], IF Place \in Fetching THEN meal ELSE 0>>
          /\ Unread = "none" /\ "ack" \notin machinerec
          /\ arm \in Ready[Place] \cup {"off"}
       \/ /\ order = Nothing
          /\ \/ Unread = "ack" /\ "ack" \notin machinerec
             \/ Unread = "none" /\ "ack" \in machinerec
          /\ arm \in Obeys[Place] \cup {"off"}
  /\ Place \notin Ordering => order = Nothing \/ arm = "off"

(* In a loop that waits for a report the arm is on its way, or has sent it. *)
Sends == [initwait |-> {<<"returning", "none">>, <<"home", "relative">>},
          idle     |-> {<<"returning", "none">>, <<"home", "none">>, <<"home", "relative">>},
          goal     |-> {<<"moving", "none">>, <<"goal", "goal">>},
          door     |-> {<<"fetching", "none">>, <<"door", "todoor">>,
                        <<"returning", "enablegetmeal">>},
          away     |-> {<<"door", "none">>, <<"returning", "mealaway">>}]
ArmOK == Place \notin Ordering =>
           \E s \in Sends[Place] : Unread = s[2] /\ (arm = s[1] \/ arm = "off")

(* From the acknowledged place of a meal to its end that meal is the arm's job. *)
JobOK == Place \in Fetching =>
           job = meal \/ (Place = "coord" /\ order # Nothing)

(* A limit passes only for an arm that has fallen silent. *)
LimitOK == LinkTime > Limit[Place] /\ Place \notin {"idle", "initwait"} =>
             /\ arm = "off" /\ Unread = "none" /\ "ack" \notin machinerec

(* Whether the present meal has come out, and been taken, is known from the loop *)
(* and from what the arm has said.                                               *)
HandedOK ==
  /\ Place \in {"coord", "goal", "getmeal"} => meal \notin handed
  /\ Place = "door" => (meal \in handed <=> Unread = "todoor")
  /\ Place = "away" => meal \in handed
  /\ Place = "away" /\ Unread = "mealaway" => meal \in reported

ArmInv == /\ BufferOK /\ FlagsOK /\ OrderOK /\ ArmOK /\ JobOK /\ LimitOK /\ HandedOK
          /\ CountedWasReported
=============================================================================
