------------------------------- MODULE Upload -------------------------------
(***************************************************************************)
(* The reports of the meals taken out: the request to the server and the   *)
(* wait for its answer (network_handle.c), the receiving interrupt of      *)
(* uart5.c, the record every report leaves in the file of its day on the   *)
(* SD card, and SendtoServce, which at each start and on the technician's  *)
(* key sends again what the server did not take (sd.c).                    *)
(*                                                                         *)
(* The power may fail at any point.  Requests and answers are lost, and    *)
(* answered late.  The server is not in this repository: it is modelled by *)
(* what the answers the code tells apart say about it.                     *)
(***************************************************************************)
EXTENDS Integers, Sequences

CONSTANTS
  Window,      \* files that SendtoServce opens (7)
  DaysIn,      \* days of a month
  Months,      \* months of a year (12)
  Late,        \* 1: an answer may come after the next request was sent
  MaxMeals,    \* bound: meals taken out
  MaxSyncs,    \* bound: times the technician touches the key
  MaxOutages   \* bound: times the power fails

ASSUME UploadAssumption ==
  /\ Window \in Nat /\ DaysIn \in Nat \ {0, 1} /\ Months \in Nat \ {0}
  /\ Late \in {0, 1} /\ MaxMeals \in Nat /\ MaxSyncs \in Nat /\ MaxOutages \in Nat

VARIABLES
  at,        \* "idle", "report", "write", "day", "read", "resend" or "off"
  files,     \* of each day the records in its file, none when there is no file
  f_name,    \* the day whose file is used
  Index,     \* records passed by Fread
  opened,    \* files SendtoServce has opened
  today, TimeDate,   \* the day of the clock, and as it was last read
  now,       \* counts the seconds at which serial numbers were read
  report,    \* the last request: meal and serial number
  flag,      \* "y" or "n": the mark its record will have
  rx,        \* F_RX1_Right with the code in rx1Buf: "none" when it is not set
  up, down,  \* requests and answers on their way
  server,    \* meals the server knows, with the serial number of each report
  meals, syncs, outages,   \* count up to their bounds
  refused,   \* ghost: meals of which the server refused a report
  sent,      \* ghost: serial number of the first report of each meal
  caughtUp   \* ghost: 1 when a start sent all it found, and nothing was reported since

card  == <<files, f_name, Index, opened>>
clock == <<today, TimeDate, now>>
link  == <<rx, up, down, server, refused>>
count == <<meals, syncs, outages>>
vars  == <<at, card, clock, report, flag, link, count, sent, caughtUp>>

Dates == [Month : 1..Months, Date : 1..DaysIn]
Codes == {"ok", "dup", "refused"}

Init ==
  /\ at = "day" /\ files = [d \in Dates |-> <<>>] /\ Index = 0 /\ opened = 0
  /\ today = [Month |-> 1, Date |-> 1] /\ TimeDate = today /\ f_name = today
  /\ now = 0 /\ report = [meal |-> 0, serial |-> 0] /\ flag = "n"
  /\ rx = "none" /\ up = {} /\ down = {} /\ server = {} /\ refused = {}
  /\ meals = 0 /\ syncs = 0 /\ outages = 0
  /\ sent = [m \in 1..MaxMeals |-> 0] /\ caughtUp = 1

-----------------------------------------------------------------------------
(* Requests and answers. *)

(* CmdDataSend: what came before is forgotten. *)
KeepsAnswer == rx
Forget == "none"
CmdDataSend(r) ==
  /\ rx' = Forget /\ report' = r
  /\ up' = IF Late = 1 THEN up \union {r} ELSE {r}
  /\ down' = IF Late = 1 THEN down ELSE {}
  /\ UNCHANGED <<server, refused>>

ServerAnswers ==
  /\ \E r \in up :
       /\ up' = up \ {r}
       /\ \/ /\ \A e \in server : e.serial # r.serial
             /\ server' = server \union {r} /\ UNCHANGED refused
             /\ down' = down \union {[serial |-> r.serial, code |-> "ok"]}
          \/ /\ \E e \in server : e.serial = r.serial
             /\ down' = down \union {[serial |-> r.serial, code |-> "dup"]}
             /\ UNCHANGED <<server, refused>>
          \/ /\ refused' = refused \union {r.meal}
             /\ down' = down \union {[serial |-> r.serial, code |-> "refused"]}
             /\ UNCHANGED server
  /\ UNCHANGED <<at, card, clock, report, flag, rx, count, sent, caughtUp>>

Lose ==
  /\ \/ \E r \in up : up' = up \ {r} /\ UNCHANGED down
     \/ \E a \in down : down' = down \ {a} /\ UNCHANGED up
  /\ UNCHANGED <<at, card, clock, report, flag, rx, server, refused, count, sent, caughtUp>>

UART5_IRQHandler ==
  /\ at # "off"
  /\ \E a \in down : rx' = a.code /\ down' = down \ {a}
  /\ UNCHANGED <<at, card, clock, report, flag, up, server, refused, count, sent, caughtUp>>

(* What the answer says, and that there is none: an error counts as taken. *)
Failed(code) == code \in {"none", "dup"}

-----------------------------------------------------------------------------
(* The report of a meal, and its record. *)

DataUpload ==
  /\ at = "idle" /\ meals < MaxMeals
  /\ at' = "report" /\ f_name' = TimeDate /\ TimeDate' = today
  /\ now' = now + 1 /\ meals' = meals + 1
  /\ CmdDataSend([meal |-> meals + 1, serial |-> now + 1])
  /\ sent' = [sent EXCEPT ![meals + 1] = now + 1] /\ caughtUp' = 0
  /\ UNCHANGED <<files, Index, opened, today, flag, syncs, outages>>

(* TakeMealsFun after the wait; a wait in vain takes seconds. *)
TakeMealsFun ==
  /\ at = "report" /\ at' = "write"
  /\ flag' = IF Failed(rx) THEN "n" ELSE "y"
  /\ now' = IF rx = "none" THEN now + 1 ELSE now
  /\ rx' = "none"
  /\ UNCHANGED <<card, today, TimeDate, report, up, down, server, refused, count, sent, caughtUp>>

(* Sd_Write reads the serial number of the record from the clock again. *)
Sd_Write ==
  /\ at = "write" /\ at' = "idle"
  /\ now' \in {now, now + 1} /\ TimeDate' = today
  /\ files' = [files EXCEPT ![f_name] =
                 Append(@, [meal |-> report.meal, serial |-> now', flag |-> flag])]
  /\ UNCHANGED <<f_name, Index, opened, today, report, flag, link, count, sent, caughtUp>>

-----------------------------------------------------------------------------
(* SendtoServce: the files of the days before today, and their records. *)

(* The day before, as SendtoServce counts it: it stays in its month. *)
Last(d)   == [Month |-> IF d.Month = 1 THEN Months ELSE d.Month, Date |-> DaysIn]
DayLess(d)  == [d EXCEPT !.Date = @ - 1]
Before(d) == LET e == IF d.Date = 1 THEN Last(d) ELSE d IN [e EXCEPT !.Date = @ - 1]

OpenFile ==
  /\ at = "day" /\ opened < Window
  /\ at' = "read" /\ f_name' = TimeDate /\ TimeDate' = Before(TimeDate)
  /\ opened' = opened + 1
  /\ UNCHANGED <<files, Index, today, now, report, flag, link, count, sent, caughtUp>>

(* All are read; the main loop reads the clock. *)
Served ==
  /\ at = "day" /\ opened = Window
  /\ at' = "idle" /\ opened' = 0 /\ TimeDate' = today
  /\ UNCHANGED <<files, f_name, Index, today, now, report, flag, link, count, sent, caughtUp>>

NotPassed == UNCHANGED Index
Passed   == Index' = Index + 1
PastLast == Index + 1 >= Len(files[f_name])
PastEnd  == Index + 1 > Len(files[f_name])
Here     == files[f_name][Index + 1]
NewSerial(r) == [meal |-> r.meal, serial |-> now + 1]
TakeMealsFun1(r) == [meal |-> r.meal, serial |-> r.serial]

Fread ==
  /\ at = "read"
  /\ \/ files[f_name] = <<>> /\ at' = "day" /\ UNCHANGED <<Index, report, link>>
     \/ files[f_name] # <<>> /\ PastEnd /\ Passed /\ at' = "day" /\ UNCHANGED <<report, link>>
     \/ ~PastEnd /\ Here.flag = "y" /\ Passed /\ at' = "read" /\ UNCHANGED <<report, link>>
     \/ ~PastEnd /\ Here.flag = "n" /\ Passed /\ at' = "resend" /\ CmdDataSend(TakeMealsFun1(Here))
  /\ UNCHANGED <<files, f_name, opened, clock, flag, count, sent, caughtUp>>

(* The record is marked, or the rest of the file is left. *)
ReadDatatoBuffer ==
  /\ at = "resend" /\ rx' = "none"
  /\ IF Failed(rx)
     THEN at' = "day" /\ caughtUp' = 0 /\ UNCHANGED files
     ELSE at' = "read" /\ files' = [files EXCEPT ![f_name][Index].flag = "y"] /\ UNCHANGED caughtUp
  /\ UNCHANGED <<f_name, Index, opened, clock, report, flag, up, down, server, refused, count, sent>>

(* The technician's key; only a start sets Index back. *)
Sync ==
  /\ at = "idle" /\ syncs < MaxSyncs
  /\ at' = "day" /\ syncs' = syncs + 1 /\ TimeDate' = today /\ caughtUp' = 0
  /\ UNCHANGED <<card, today, now, report, flag, link, meals, outages, sent>>

Outage ==
  /\ at # "off" /\ outages < MaxOutages
  /\ at' = "off" /\ outages' = outages + 1
  /\ Index' = 0 /\ opened' = 0 /\ rx' = "none" /\ down' = {}
  /\ UNCHANGED <<files, f_name, clock, report, flag, up, server, refused, meals, syncs, sent, caughtUp>>

Start ==
  /\ at = "off" /\ at' = "day" /\ TimeDate' = today /\ caughtUp' = 1
  /\ UNCHANGED <<card, today, now, report, flag, link, count, sent>>

(* Midnight, and the idle main loop reading the clock (StateSend). *)
Midnight ==
  /\ \/ /\ today.Date < DaysIn /\ today' = [today EXCEPT !.Date = @ + 1]
     \/ /\ today.Date = DaysIn /\ today.Month < Months
        /\ today' = [Month |-> today.Month + 1, Date |-> 1]
  /\ UNCHANGED <<at, card, TimeDate, now, report, flag, link, count, sent, caughtUp>>
StateSend ==
  /\ at = "idle" /\ TimeDate' = today
  /\ UNCHANGED <<at, card, today, now, report, flag, link, count, sent, caughtUp>>

Main == TakeMealsFun \/ Sd_Write \/ OpenFile \/ Served \/ Fread \/ ReadDatatoBuffer \/ Start
Next == Main \/ DataUpload \/ Sync \/ Midnight \/ StateSend \/ Outage
        \/ ServerAnswers \/ Lose \/ UART5_IRQHandler

Spec     == Init /\ [][Next]_vars
FairSpec == Spec /\ WF_vars(Main)

-----------------------------------------------------------------------------
(* Every day is one of the calendar, every record is of a meal. *)
Records == [meal : 1..MaxMeals, serial : Nat, flag : {"y", "n"}]
TypeOK ==
  /\ at \in {"idle", "report", "write", "day", "read", "resend", "off"}
  /\ files \in [Dates -> Seq(Records)] /\ f_name \in Dates
  /\ Index \in Nat /\ opened \in 0..Window
  /\ today \in Dates /\ TimeDate \in Dates /\ now \in Nat
  /\ report \in [meal : 0..MaxMeals, serial : Nat] /\ flag \in {"y", "n"}
  /\ rx \in Codes \union {"none"} /\ up \subseteq [meal : 1..MaxMeals, serial : Nat]
  /\ down \subseteq [serial : Nat, code : Codes]
  /\ server \subseteq [meal : 1..MaxMeals, serial : Nat] /\ refused \subseteq 1..MaxMeals
  /\ meals \in 0..MaxMeals /\ syncs \in 0..MaxSyncs /\ outages \in 0..MaxOutages
  /\ sent \in [1..MaxMeals -> Nat] /\ caughtUp \in {0, 1}

Places == UNION {{<<d, n>> : n \in DOMAIN files[d]} : d \in Dates}
Rec(p) == files[p[1]][p[2]]

(* A record marked "y" is of a meal the server answered for: it knows the     *)
(* meal, or refused it.                                                       *)
Answered(m)   == m \in refused \/ \E e \in server : e.meal = m
YesIsAnswered == \A p \in Places : Rec(p).flag = "y" => Answered(Rec(p).meal)

(* However often a meal is reported, whatever is lost and whenever the power  *)
(* fails, the server counts it twice at most: under the serial number of its  *)
(* first report and under that of its record, of which there is one.          *)
TwiceAtMost ==
  /\ \A p, q \in Places : Rec(p).meal = Rec(q).meal => p = q
  /\ \A e \in server : \/ e.serial = sent[e.meal]
                       \/ \E p \in Places : Rec(p).meal = e.meal /\ Rec(p).serial = e.serial

(* After a start to which the server answered throughout, the newest of the   *)
(* files it opens holds no report that is still to be sent.                   *)
BackTo(d) == LET Back[n \in 0..Window] == IF n = 0 THEN d ELSE Before(Back[n - 1]) IN Back
Newest(d) == \E n \in 0..(Window - 1) :
               /\ BackTo(today)[n] = d /\ files[d] # <<>>
               /\ \A m \in 0..(n - 1) : files[BackTo(today)[m]] = <<>>
NewestFileSent ==
  at = "idle" /\ caughtUp = 1 =>
    \A d \in Dates : Newest(d) => \A n \in DOMAIN files[d] : files[d][n].flag = "y"

(* Whatever the server does, the machine comes back to its customers. *)
MachineRests == (at # "idle") ~> (at = "idle")

(* What test_lcd.c:38 says of SendtoServce, that it sends the data of the     *)
(* last seven days: after such a start none of them is still to be sent.      *)
Day(d) == DaysIn * d.Month + d.Date
OfflineWeekSent ==
  at = "idle" /\ caughtUp = 1 =>
    \A d \in Dates : Day(today) - Day(d) \in 0..(Window - 1) =>
      \A n \in DOMAIN files[d] : files[d][n].flag = "y"
=============================================================================
