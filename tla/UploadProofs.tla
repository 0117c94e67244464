---------------------------- MODULE UploadProofs ----------------------------
(***************************************************************************)
(* Theorems about Upload, for any number of meals, days, outages and       *)
(* visits of the technician, and any calendar.                             *)
(***************************************************************************)
EXTENDS Upload, SequenceTheorems, WellFoundedInduction, TLAPS

Nums(d)    == 1..Len(files[d])
Held(m, s) == \E d \in Dates : \E n \in Nums(d) : files[d][n].meal = m /\ files[d][n].serial = s

(* A report the server may dedup: the first of its meal, or its record's. *)
Known(r) == r.serial = sent[r.meal] \/ Held(r.meal, r.serial)

Single  == \A c, d \in Dates : \A k \in Nums(c), n \in Nums(d) :
             files[c][k].meal = files[d][n].meal => c = d /\ k = n
Past    == /\ \A d \in Dates : \A n \in Nums(d) : files[d][n].meal <= meals
           /\ \A r \in server \union up : r.meal <= meals
Pending == at \in {"report", "write"} =>
             /\ meals >= 1 /\ report.meal = meals
             /\ \A d \in Dates : \A n \in Nums(d) : files[d][n].meal # meals
Reading == /\ at = "resend" => Index \in Nums(f_name) /\ files[f_name][Index].meal = report.meal
           /\ at = "read" => Index \in Nat

AllKnown == \A r \in server \union up : Known(r)

(* What keeps the records apart and the server's dedup at work. *)
OneInv == TypeOK /\ Single /\ Past /\ Pending /\ Reading /\ AllKnown

(* What an answer in time says: it is about the last report. *)
Takes(code) == code \in {"ok", "refused"}
Own     == \A r \in up : r.meal = report.meal
Heard   == /\ Takes(rx) => Answered(report.meal)
           /\ \A a \in down : Takes(a.code) => Answered(report.meal)
Flagged == at = "write" /\ flag = "y" => Answered(report.meal)
Marked  == \A d \in Dates : \A n \in Nums(d) : files[d][n].flag = "y" => Answered(files[d][n].meal)
YesInv  == Own /\ Heard /\ Flagged /\ Marked

-----------------------------------------------------------------------------
(* The calendar and the files. *)

LEMMA DateFacts ==
  ASSUME NEW d \in Dates
  PROVE  Before(d) \in Dates
  BY UploadAssumption DEF Before, Last, Dates

LEMMA MidnightFacts ==
  ASSUME today \in Dates, Midnight
  PROVE  today' \in Dates
  <1>1. CASE today.Date < DaysIn /\ today' = [today EXCEPT !.Date = @ + 1]
    BY <1>1, UploadAssumption DEF Dates
  <1>2. CASE /\ today.Date = DaysIn /\ today.Month < Months
             /\ today' = [Month |-> today.Month + 1, Date |-> 1]
    BY <1>2, UploadAssumption DEF Dates
  <1> QED
    BY <1>1, <1>2 DEF Midnight

(* Sd_Write adds one record and keeps the others. *)
LEMMA Written ==
  ASSUME TypeOK, Pending, Sd_Write
  PROVE  \E s \in Nat :
    /\ now' = s
    /\ files' \in [Dates -> Seq(Records)]
    /\ \A d \in Dates \ {f_name} : files'[d] = files[d]
    /\ Len(files'[f_name]) = Len(files[f_name]) + 1
    /\ \A n \in Nums(f_name) : files'[f_name][n] = files[f_name][n]
    /\ files'[f_name][Len(files[f_name]) + 1]
         = [meal |-> report.meal, serial |-> s, flag |-> flag]
  <1> DEFINE r == [meal |-> report.meal, serial |-> now', flag |-> flag]
  <1>1. now' \in Nat /\ files' = [files EXCEPT ![f_name] = Append(files[f_name], r)]
    BY DEF Sd_Write, TypeOK
  <1>2. r \in Records
    BY <1>1 DEF TypeOK, Pending, Records, Sd_Write
  <1>3. files \in [Dates -> Seq(Records)] /\ f_name \in Dates /\ files[f_name] \in Seq(Records)
    BY DEF TypeOK
  <1> HIDE DEF r
  <1>4. /\ Append(files[f_name], r) \in Seq(Records)
        /\ Len(Append(files[f_name], r)) = Len(files[f_name]) + 1
        /\ \A n \in Nums(f_name) : Append(files[f_name], r)[n] = files[f_name][n]
        /\ Append(files[f_name], r)[Len(files[f_name]) + 1] = r
    BY <1>2, <1>3 DEF Nums
  <1>5. /\ files' \in [Dates -> Seq(Records)]
        /\ files'[f_name] = Append(files[f_name], r)
        /\ \A d \in Dates \ {f_name} : files'[d] = files[d]
    BY <1>1, <1>3, <1>4
  <1> QED
    BY <1>1, <1>4, <1>5 DEF r

(* ReadDatatoBuffer changes the mark of the record it sent, to "y". *)
LEMMA Marks ==
  ASSUME TypeOK, Reading, ReadDatatoBuffer, at' = "read"
  PROVE  /\ files' \in [Dates -> Seq(Records)]
         /\ \A d \in Dates : Len(files'[d]) = Len(files[d])
         /\ \A d \in Dates : \A n \in Nums(d) :
              /\ files'[d][n].meal = files[d][n].meal
              /\ files'[d][n].serial = files[d][n].serial
              /\ files'[d][n].flag = IF d = f_name /\ n = Index THEN "y" ELSE files[d][n].flag
  <1> DEFINE r == [files[f_name][Index] EXCEPT !.flag = "y"]
             t == [files[f_name] EXCEPT ![Index] = r]
  <1>1. files \in [Dates -> Seq(Records)] /\ f_name \in Dates /\ files[f_name] \in Seq(Records)
    BY DEF TypeOK
  <1>2. Index \in Nums(f_name) /\ files' = [files EXCEPT ![f_name] = t]
    BY DEF ReadDatatoBuffer, Reading
  <1>3. files[f_name][Index] \in Records
    BY <1>1, <1>2, ElementOfSeq DEF Nums
  <1>4. /\ r \in Records /\ r.flag = "y"
        /\ r.meal = files[f_name][Index].meal /\ r.serial = files[f_name][Index].serial
    BY <1>3 DEF Records
  <1> HIDE DEF r
  <1>5. /\ t \in Seq(Records) /\ Len(t) = Len(files[f_name])
        /\ \A n \in Nums(f_name) : t[n] = IF n = Index THEN r ELSE files[f_name][n]
    BY <1>1, <1>2, <1>4, ExceptSeq DEF Nums
  <1> HIDE DEF t
  <1>6. /\ files' \in [Dates -> Seq(Records)] /\ files'[f_name] = t
        /\ \A d \in Dates : d # f_name => files'[d] = files[d]
    BY <1>1, <1>2, <1>5
  <1> QED
    BY <1>1, <1>4, <1>5, <1>6 DEF Nums

(* Fread finds a record where it does not stop. *)
LEMMA HereFacts ==
  ASSUME TypeOK, ~PastEnd
  PROVE  /\ Index + 1 \in Nums(f_name) /\ Here \in Records /\ TakeMealsFun1(Here) \in [meal : 1..MaxMeals, serial : Nat]
         /\ TakeMealsFun1(Here).meal = files[f_name][Index + 1].meal
         /\ TakeMealsFun1(Here).serial = files[f_name][Index + 1].serial
  <1>1. files[f_name] \in Seq(Records) /\ Index \in Nat /\ f_name \in Dates
    BY DEF TypeOK
  <1>2. Index + 1 \in 1..Len(files[f_name])
    BY <1>1, LenProperties DEF PastEnd
  <1>3. Here \in Records
    BY <1>1, <1>2, ElementOfSeq DEF Here
  <1> QED
    BY <1>2, <1>3 DEF TakeMealsFun1, Here, Records, Nums

-----------------------------------------------------------------------------
(* The first invariant, action by action. *)

LEMMA OneInit ==
  ASSUME Init
  PROVE  OneInv
  <1>1. [Month |-> 1, Date |-> 1] \in Dates
    BY UploadAssumption DEF Dates
  <1>2. files \in [Dates -> Seq(Records)] /\ \A d \in Dates : Nums(d) = {}
    BY DEF Init, Nums
  <1>3. TypeOK
    BY <1>1, <1>2, UploadAssumption DEF Init, TypeOK, Codes
  <1> QED
    BY <1>2, <1>3 DEF Init, OneInv, Single, Past, Pending, Reading, AllKnown

LEMMA OneDataUpload ==
  ASSUME OneInv, DataUpload
  PROVE  OneInv'
  <1> DEFINE r == [meal |-> meals + 1, serial |-> now + 1]
  <1> USE DEF OneInv
  <1>1. /\ at' = "report" /\ files' = files /\ meals' = meals + 1 /\ meals + 1 \in 1..MaxMeals
        /\ server' = server /\ report' = r /\ up' \subseteq up \union {r} /\ down' \subseteq down
        /\ sent' = [sent EXCEPT ![meals + 1] = now + 1] /\ sent' \in [1..MaxMeals -> Nat]
        /\ rx' = "none"
    BY UploadAssumption DEF DataUpload, CmdDataSend, Forget, TypeOK
  <1>2. TypeOK'
    <2>1. r \in [meal : 1..MaxMeals, serial : Nat] /\ now + 1 \in Nat
      BY <1>1 DEF TypeOK
    <2>2. up' \subseteq [meal : 1..MaxMeals, serial : Nat] /\ down' \subseteq [serial : Nat, code : Codes]
      BY <1>1, <2>1 DEF TypeOK
    <2>3. report' \in [meal : 0..MaxMeals, serial : Nat]
      BY <1>1, <2>1
    <2>4. /\ f_name' \in Dates /\ TimeDate' \in Dates /\ today' \in Dates /\ now' \in Nat
          /\ Index' = Index /\ opened' = opened /\ flag' = flag /\ refused' = refused
          /\ syncs' = syncs /\ outages' = outages /\ caughtUp' = 0 /\ meals' \in 0..MaxMeals
      BY <1>1, <2>1 DEF TypeOK, DataUpload, CmdDataSend
    <2> QED
      BY <1>1, <2>2, <2>3, <2>4 DEF TypeOK
  <1>3. Single' /\ Reading'
    BY <1>1 DEF Single, Reading, Nums
  <1>4. Past' /\ Pending'
    <2>1. \A d \in Dates : \A n \in Nums(d) : files[d][n].meal \in 1..MaxMeals
      <3> SUFFICES ASSUME NEW d \in Dates, NEW n \in Nums(d)
                   PROVE  files[d][n].meal \in 1..MaxMeals
        OBVIOUS
      <3>1. files[d] \in Seq(Records)
        BY DEF TypeOK
      <3>2. files[d][n] \in Records
        BY <3>1, ElementOfSeq DEF Nums
      <3> QED
        BY <3>2 DEF Records
    <2>2. \A q \in server \union up : q.meal \in 1..MaxMeals
      BY DEF TypeOK
    <2>3. meals \in Nat
      BY DEF TypeOK
    <2>4. \A d \in Dates : \A n \in Nums(d) : files[d][n].meal <= meals + 1 /\ files[d][n].meal # meals + 1
      BY <2>1, <2>3 DEF Past
    <2>5. \A q \in server \union up : q.meal <= meals + 1
      BY <2>2, <2>3 DEF Past
    <2>6. \A q \in server' \union up' : q.meal <= meals + 1
      BY <1>1, <2>3, <2>5
    <2> QED
      BY <1>1, <2>3, <2>4, <2>6 DEF Past, Pending, Nums
  <1>5. AllKnown'
    <2> SUFFICES ASSUME NEW q \in server' \union up'
                 PROVE  Known(q)'
      BY DEF AllKnown
    <2>1. CASE q = r
      BY <1>1, <2>1 DEF Known, TypeOK
    <2>2. CASE q \in server \union up
      <3>1. q.meal \in 1..MaxMeals /\ q.meal <= meals /\ Known(q) /\ meals \in Nat
        BY <2>2 DEF TypeOK, Past, AllKnown
      <3>2. sent'[q.meal] = sent[q.meal]
        BY <1>1, <3>1 DEF TypeOK
      <3> QED
        BY <1>1, <3>1, <3>2 DEF Known, Held, Nums
    <2> QED
      BY <1>1, <2>1, <2>2
  <1> QED
    BY <1>2, <1>3, <1>4, <1>5

LEMMA OneSdWrite ==
  ASSUME OneInv, Sd_Write
  PROVE  OneInv'
  <1> USE DEF OneInv
  <1>1. PICK s \in Nat :
          /\ now' = s
          /\ files' \in [Dates -> Seq(Records)]
          /\ \A d \in Dates \ {f_name} : files'[d] = files[d]
          /\ Len(files'[f_name]) = Len(files[f_name]) + 1
          /\ \A n \in Nums(f_name) : files'[f_name][n] = files[f_name][n]
          /\ files'[f_name][Len(files[f_name]) + 1]
               = [meal |-> report.meal, serial |-> s, flag |-> flag]
    BY Written
  <1>2. /\ at = "write" /\ at' = "idle" /\ f_name' = f_name /\ f_name \in Dates
        /\ meals' = meals /\ server' = server /\ up' = up /\ sent' = sent /\ report' = report
        /\ meals \in Nat
    BY DEF Sd_Write, TypeOK, link, count
  <1>3. TypeOK'
    BY <1>1, <1>2 DEF TypeOK, Sd_Write, link, count, Dates
  <1>4. \A d \in Dates : \A n \in Nums(d)' :
          \/ n \in Nums(d) /\ files'[d][n] = files[d][n]
          \/ /\ d = f_name /\ n = Len(files[f_name]) + 1 /\ n \notin Nums(d)
             /\ files'[d][n].meal = meals
    <2> SUFFICES ASSUME NEW d \in Dates, NEW n \in Nums(d)'
                 PROVE  \/ n \in Nums(d) /\ files'[d][n] = files[d][n]
                        \/ /\ d = f_name /\ n = Len(files[f_name]) + 1 /\ n \notin Nums(d)
                           /\ files'[d][n].meal = meals
      OBVIOUS
    <2>1. CASE d # f_name
      BY <1>1, <2>1 DEF Nums
    <2>2. CASE d = f_name
      <3>1. Len(files[f_name]) \in Nat
        BY <1>2 DEF TypeOK
      <3>2. n \in Nums(f_name) \/ n = Len(files[f_name]) + 1
        BY <1>1, <2>2, <3>1 DEF Nums
      <3> QED
        BY <1>1, <1>2, <2>2, <3>1, <3>2 DEF Nums, Pending
    <2> QED
      BY <2>1, <2>2
  <1>5. \A d \in Dates : \A n \in Nums(d) : n \in Nums(d)' /\ files'[d][n] = files[d][n]
    <2> SUFFICES ASSUME NEW d \in Dates, NEW n \in Nums(d)
                 PROVE  n \in Nums(d)' /\ files'[d][n] = files[d][n]
      OBVIOUS
    <2>1. Len(files[d]) \in Nat
      BY DEF TypeOK
    <2> QED
      BY <1>1, <2>1 DEF Nums
  <1>6. Single'
    <2> SUFFICES ASSUME NEW c \in Dates, NEW d \in Dates, NEW k \in Nums(c)', NEW n \in Nums(d)',
                        files'[c][k].meal = files'[d][n].meal
                 PROVE  c = d /\ k = n
      BY DEF Single
    <2> QED
      BY <1>2, <1>4 DEF Single, Pending
  <1>7. Past' /\ Pending' /\ Reading'
    <2>1. \A d \in Dates : \A n \in Nums(d)' : files'[d][n].meal <= meals
      BY <1>2, <1>4 DEF Past
    <2> QED
      BY <1>2, <2>1 DEF Past, Pending, Reading
  <1>8. AllKnown'
    <2> SUFFICES ASSUME NEW q \in server \union up
                 PROVE  Known(q)'
      BY <1>2 DEF AllKnown
    <2>1. Known(q)
      BY DEF AllKnown
    <2>2. ASSUME Held(q.meal, q.serial) PROVE Held(q.meal, q.serial)'
      <3>1. PICK d \in Dates : \E n \in Nums(d) : files[d][n].meal = q.meal /\ files[d][n].serial = q.serial
        BY <2>2 DEF Held
      <3>2. PICK n \in Nums(d) : files[d][n].meal = q.meal /\ files[d][n].serial = q.serial
        BY <3>1
      <3> QED
        BY <1>5, <3>2 DEF Held
    <2> QED
      BY <1>2, <2>1, <2>2 DEF Known
  <1> QED
    BY <1>3, <1>6, <1>7, <1>8

(* Records, requests and what they are held against stay, or go. *)
LEMMA OneStays ==
  ASSUME OneInv, TypeOK', files' = files, meals' = meals, sent' = sent, report' = report,
         server' = server, up' \subseteq up,
         at' \in {"idle", "day", "off"} \/ (at' = at /\ UNCHANGED <<Index, f_name>>)
           \/ at' = "read" \/ (at = "report" /\ at' = "write")
  PROVE  OneInv'
  <1>1. \A d \in Dates : Nums(d)' = Nums(d)
    BY DEF Nums
  <1>3. Single' /\ Past'
    BY <1>1 DEF OneInv, Single, Past
  <1>4. Pending'
    BY <1>1 DEF OneInv, Pending
  <1>5. Reading'
    <2>1. Index' \in Nat
      BY DEF TypeOK
    <2>2. CASE at' = at /\ UNCHANGED <<Index, f_name>>
      <3>1. at = "resend" => Nums(f_name)' = Nums(f_name)
        BY <2>2 DEF Nums
      <3> QED
        BY <2>1, <2>2, <3>1 DEF OneInv, Reading
    <2>3. CASE ~(at' = at /\ UNCHANGED <<Index, f_name>>)
      BY <2>1, <2>3 DEF Reading
    <2> QED
      BY <2>2, <2>3
  <1>2. AllKnown'
    BY DEF OneInv, AllKnown, Known, Held, Nums
  <1> QED
    BY <1>2, <1>3, <1>4, <1>5 DEF OneInv

LEMMA OneServerAnswers ==
  ASSUME OneInv, ServerAnswers
  PROVE  OneInv'
  <1> USE DEF OneInv
  <1>1. PICK r \in up :
          /\ up' = up \ {r} /\ server' \subseteq server \union {r}
          /\ refused' \subseteq refused \union {r.meal}
          /\ \E c \in Codes : down' = down \union {[serial |-> r.serial, code |-> c]}
    BY DEF ServerAnswers, Codes
  <1>2. UNCHANGED <<at, files, f_name, Index, opened, today, TimeDate, now, report, flag, rx, meals, syncs, outages, sent, caughtUp>>
    BY DEF ServerAnswers, card, clock, count
  <1>3. TypeOK'
    <2>1. r.meal \in 1..MaxMeals /\ r.serial \in Nat /\ r \in [meal : 1..MaxMeals, serial : Nat]
      BY DEF TypeOK
    <2>2. \A c \in Codes : [serial |-> r.serial, code |-> c] \in [serial : Nat, code : Codes]
      BY <2>1
    <2>3. /\ up' \subseteq [meal : 1..MaxMeals, serial : Nat] /\ server' \subseteq [meal : 1..MaxMeals, serial : Nat]
          /\ refused' \subseteq 1..MaxMeals /\ down' \subseteq [serial : Nat, code : Codes]
      BY <1>1, <2>1, <2>2 DEF TypeOK
    <2> QED
      BY <1>2, <2>3 DEF TypeOK
  <1>4. server' \union up' \subseteq server \union up
    BY <1>1
  <1>5. Single' /\ Past' /\ Pending' /\ Reading'
    BY <1>2, <1>4 DEF Single, Past, Pending, Reading, Nums
  <1>6. AllKnown'
    BY <1>2, <1>4 DEF AllKnown, Known, Held, Nums
  <1> QED
    BY <1>3, <1>5, <1>6

LEMMA OneFread ==
  ASSUME OneInv, Fread
  PROVE  OneInv'
  <1> USE DEF OneInv
  <1>1. UNCHANGED <<files, f_name, opened, today, TimeDate, now, flag, meals, syncs, outages, sent, caughtUp>>
        /\ at = "read"
    BY DEF Fread, clock, count
  <1>2. CASE UNCHANGED <<report, link>> /\ at' \in {"day", "read"} /\ Index' \in Nat
    <2>1. TypeOK'
      BY <1>1, <1>2 DEF TypeOK, link
    <2> QED
      BY <1>1, <1>2, <2>1, OneStays DEF link
  <1>3. CASE ~PastEnd /\ Here.flag = "n" /\ Passed /\ at' = "resend" /\ CmdDataSend(TakeMealsFun1(Here))
    <2> DEFINE r == TakeMealsFun1(Here)
    <2>1. /\ Index + 1 \in Nums(f_name) /\ r \in [meal : 1..MaxMeals, serial : Nat]
          /\ r.meal = files[f_name][Index + 1].meal /\ r.serial = files[f_name][Index + 1].serial
      BY <1>3, HereFacts
    <2>2. /\ Index' = Index + 1 /\ report' = r /\ up' \subseteq up \union {r} /\ down' \subseteq down
          /\ rx' = "none" /\ server' = server /\ refused' = refused
      BY <1>3 DEF Passed, CmdDataSend, Forget
    <2> HIDE DEF r
    <2>3. TypeOK'
      <3>1. report' \in [meal : 0..MaxMeals, serial : Nat]
        BY <2>1, <2>2
      <3> QED
        BY <1>1, <1>3, <2>1, <2>2, <3>1, SMTT(30) DEF TypeOK
    <2>4. Single' /\ Pending' /\ Reading'
      BY <1>1, <1>3, <2>1, <2>2 DEF Single, Pending, Reading, Nums
    <2>5. Past'
      BY <1>1, <2>1, <2>2 DEF Past, Nums, TypeOK
    <2>6. Held(r.meal, r.serial) /\ f_name \in Dates
      BY <2>1 DEF Held, TypeOK
    <2>7. AllKnown'
      BY <1>1, <2>2, <2>6 DEF AllKnown, Known, Held, Nums
    <2> QED
      BY <2>3, <2>4, <2>5, <2>7
  <1>4. CASE Passed /\ UNCHANGED <<report, link>> /\ at' \in {"day", "read"}
    <2>1. Index' \in Nat
      BY <1>4 DEF Passed, TypeOK
    <2> QED
      BY <1>2, <1>4, <2>1
  <1>5. CASE at' = "day" /\ UNCHANGED <<Index, report, link>>
    <2>1. Index' \in Nat
      BY <1>5 DEF TypeOK
    <2> QED
      BY <1>2, <1>5, <2>1
  <1> QED
    BY <1>3, <1>4, <1>5 DEF Fread

LEMMA OneReadDatatoBuffer ==
  ASSUME OneInv, ReadDatatoBuffer
  PROVE  OneInv'
  <1> USE DEF OneInv
  <1>1. /\ UNCHANGED <<f_name, Index, opened, today, TimeDate, now, report, flag, up, down, server, refused, meals, syncs, outages, sent>>
        /\ rx' = "none" /\ at = "resend" /\ caughtUp' \in {caughtUp, 0}
    BY DEF ReadDatatoBuffer, clock, count
  <1>2. CASE at' = "day" /\ files' = files
    <2>1. TypeOK'
      BY <1>1, <1>2 DEF TypeOK
    <2> QED
      BY <1>1, <1>2, <2>1, OneStays
  <1>3. CASE at' = "read"
    <2>1. /\ files' \in [Dates -> Seq(Records)]
          /\ \A d \in Dates : Len(files'[d]) = Len(files[d])
          /\ \A d \in Dates : \A n \in Nums(d) :
               files'[d][n].meal = files[d][n].meal /\ files'[d][n].serial = files[d][n].serial
      BY <1>3, Marks
    <2>2. TypeOK'
      BY <1>1, <1>3, <2>1 DEF TypeOK
    <2>3. \A d \in Dates : Nums(d)' = Nums(d)
      BY <2>1 DEF Nums
    <2>4. Single'
      BY <2>1, <2>3 DEF Single
    <2>5. Past' /\ Pending' /\ Reading'
      <3>1. Index' \in Nat
        BY <1>1 DEF TypeOK
      <3>2. Past'
        BY <1>1, <2>1, <2>3 DEF Past
      <3> QED
        BY <1>3, <3>1, <3>2 DEF Pending, Reading
    <2>6. AllKnown'
      BY <1>1, <2>1, <2>3 DEF AllKnown, Known, Held
    <2> QED
      BY <2>2, <2>4, <2>5, <2>6
  <1> QED
    BY <1>2, <1>3 DEF ReadDatatoBuffer

LEMMA OneStep ==
  OneInv /\ [Next]_vars => OneInv'
  <1> SUFFICES ASSUME OneInv, [Next]_vars PROVE OneInv'
    OBVIOUS
  <1>t. TypeOK
    BY DEF OneInv
  <1>1. CASE DataUpload
    BY <1>1, OneDataUpload
  <1>2. CASE Sd_Write
    BY <1>2, OneSdWrite
  <1>3. CASE ServerAnswers
    BY <1>3, OneServerAnswers
  <1>4. CASE Fread
    BY <1>4, OneFread
  <1>5. CASE ReadDatatoBuffer
    BY <1>5, OneReadDatatoBuffer
  <1>6. CASE TakeMealsFun
    <2>1. TypeOK'
      BY <1>t, <1>6 DEF TakeMealsFun, TypeOK, card, count
    <2> QED
      BY <1>6, <2>1, OneStays DEF TakeMealsFun, card, count
  <1>7. CASE OpenFile
    <2>1. TypeOK'
      BY <1>t, <1>7, DateFacts, UploadAssumption, SMTT(30) DEF OpenFile, TypeOK, link, count
    <2> QED
      BY <1>7, <2>1, OneStays DEF OpenFile, link, count
  <1>8. CASE Served
    <2>1. TypeOK'
      BY <1>t, <1>8, UploadAssumption DEF Served, TypeOK, link, count
    <2> QED
      BY <1>8, <2>1, OneStays DEF Served, link, count
  <1>9. CASE Start
    <2>1. TypeOK'
      BY <1>t, <1>9 DEF Start, TypeOK, card, link, count
    <2> QED
      BY <1>9, <2>1, OneStays DEF Start, card, link, count
  <1>10. CASE Sync
    <2>1. TypeOK'
      BY <1>t, <1>10, UploadAssumption DEF Sync, TypeOK, card, link, count
    <2> QED
      BY <1>10, <2>1, OneStays DEF Sync, card, link, count
  <1>11. CASE Midnight
    <2>1. TypeOK'
      BY <1>t, <1>11, MidnightFacts DEF Midnight, TypeOK, card, link, count
    <2> QED
      BY <1>11, <2>1, OneStays DEF Midnight, card, link, count
  <1>12. CASE StateSend
    <2>1. TypeOK'
      BY <1>t, <1>12 DEF StateSend, TypeOK, card, link, count
    <2> QED
      BY <1>12, <2>1, OneStays DEF StateSend, card, link, count
  <1>13. CASE Outage
    <2>1. TypeOK'
      BY <1>t, <1>13, UploadAssumption DEF Outage, TypeOK, clock
    <2> QED
      BY <1>13, <2>1, OneStays DEF Outage, clock
  <1>14. CASE Lose
    <2>1. TypeOK'
      BY <1>t, <1>14 DEF Lose, TypeOK, card, clock, count
    <2> QED
      BY <1>14, <2>1, OneStays DEF Lose, card, clock, count
  <1>15. CASE UART5_IRQHandler
    <2>1. TypeOK'
      BY <1>t, <1>15 DEF UART5_IRQHandler, TypeOK, card, clock, count
    <2> QED
      BY <1>15, <2>1, OneStays DEF UART5_IRQHandler, card, clock, count
  <1>16. CASE UNCHANGED vars
    <2>1. TypeOK'
      BY <1>t, <1>16 DEF vars, TypeOK, card, clock, link, count
    <2> QED
      BY <1>16, <2>1, OneStays DEF vars, card, clock, link, count
  <1> QED
    BY <1>1, <1>2, <1>3, <1>4, <1>5, <1>6, <1>7, <1>8, <1>9, <1>10, <1>11, <1>12, <1>13, <1>14, <1>15, <1>16
    DEF Next, Main

THEOREM OneAlways ==
  Spec => []OneInv
  BY OneInit, OneStep, PTL DEF Spec

-----------------------------------------------------------------------------
(* The second invariant, for answers that come before the next request. *)

LEMMA AnsweredStays ==
  ASSUME server \subseteq server', refused \subseteq refused', NEW m, Answered(m)
  PROVE  Answered(m)'
  BY DEF Answered

(* A request forgets what came before it. *)
LEMMA YesSends ==
  ASSUME Late = 0, YesInv, NEW r, CmdDataSend(r), files' = files, at' # "write"
  PROVE  YesInv'
  <1>1. /\ rx' = "none" /\ up' = {r} /\ down' = {} /\ report' = r
        /\ server' = server /\ refused' = refused
    BY DEF CmdDataSend, Forget
  <1> QED
    BY <1>1 DEF YesInv, Own, Heard, Takes, Flagged, Marked, Nums, Answered

LEMMA YesStays ==
  ASSUME YesInv, files' = files, report' = report, rx' \in {rx, "none"},
         up' \subseteq up, down' \subseteq down, server' = server, refused' = refused,
         at' # "write" \/ UNCHANGED <<at, flag>>
  PROVE  YesInv'
  BY DEF YesInv, Own, Heard, Takes, Flagged, Marked, Nums, Answered

LEMMA YesServerAnswers ==
  ASSUME OneInv, YesInv, ServerAnswers
  PROVE  YesInv'
  <1>1. PICK r \in up :
          /\ up' = up \ {r}
          /\ \/ /\ server' = server \union {r} /\ UNCHANGED refused
                /\ down' = down \union {[serial |-> r.serial, code |-> "ok"]}
             \/ /\ down' = down \union {[serial |-> r.serial, code |-> "dup"]}
                /\ UNCHANGED <<server, refused>>
             \/ /\ refused' = refused \union {r.meal} /\ UNCHANGED server
                /\ down' = down \union {[serial |-> r.serial, code |-> "refused"]}
    BY DEF ServerAnswers
  <1>2. UNCHANGED <<at, files, report, flag, rx>> /\ r.meal = report.meal
    BY DEF ServerAnswers, card, YesInv, Own
  <1>3. server \subseteq server' /\ refused \subseteq refused'
    BY <1>1
  <1>4. \A m : Answered(m) => Answered(m)'
    BY <1>3 DEF Answered
  <1>5. Own' /\ Flagged' /\ Marked'
    BY <1>1, <1>2, <1>4 DEF YesInv, Own, Flagged, Marked, Nums
  <1>6. Heard'
    <2>1. ASSUME NEW a \in down', Takes(a.code)
          PROVE  Answered(report.meal)'
      <3>1. CASE a \in down
        BY <1>2, <1>4, <2>1, <3>1 DEF YesInv, Heard
      <3>2. CASE a = [serial |-> r.serial, code |-> "ok"] /\ server' = server \union {r}
        BY <1>2, <3>2 DEF Answered
      <3>3. CASE a = [serial |-> r.serial, code |-> "refused"] /\ refused' = refused \union {r.meal}
        BY <1>2, <3>3 DEF Answered
      <3> QED
        BY <1>1, <2>1, <3>1, <3>2, <3>3 DEF Takes
    <2> QED
      BY <1>2, <1>4, <2>1 DEF YesInv, Heard
  <1> QED
    BY <1>5, <1>6 DEF YesInv

LEMMA YesSdWrite ==
  ASSUME OneInv, YesInv, Sd_Write
  PROVE  YesInv'
  <1>1. PICK s \in Nat :
          /\ now' = s
          /\ files' \in [Dates -> Seq(Records)]
          /\ \A d \in Dates \ {f_name} : files'[d] = files[d]
          /\ Len(files'[f_name]) = Len(files[f_name]) + 1
          /\ \A n \in Nums(f_name) : files'[f_name][n] = files[f_name][n]
          /\ files'[f_name][Len(files[f_name]) + 1]
               = [meal |-> report.meal, serial |-> s, flag |-> flag]
    BY Written DEF OneInv
  <1>2. /\ UNCHANGED <<report, rx, up, down, server, refused>> /\ at = "write" /\ at' = "idle"
        /\ f_name \in Dates /\ \A d \in Dates : Len(files[d]) \in Nat
    BY DEF Sd_Write, link, OneInv, TypeOK
  <1>3. Marked'
    <2> SUFFICES ASSUME NEW d \in Dates, NEW n \in Nums(d)', files'[d][n].flag = "y"
                 PROVE  Answered(files'[d][n].meal)
      BY <1>2 DEF Marked, Answered
    <2>1. CASE d # f_name
      BY <1>1, <2>1 DEF YesInv, Marked, Nums
    <2>2. CASE d = f_name /\ n \in Nums(f_name)
      BY <1>1, <2>2 DEF YesInv, Marked
    <2>3. CASE d = f_name /\ n = Len(files[f_name]) + 1
      BY <1>1, <1>2, <2>3 DEF YesInv, Flagged
    <2>4. d = f_name => n \in Nums(f_name) \/ n = Len(files[f_name]) + 1
      BY <1>1, <1>2 DEF Nums
    <2> QED
      BY <2>1, <2>2, <2>3, <2>4
  <1> QED
    BY <1>2, <1>3 DEF YesInv, Own, Heard, Flagged, Answered

LEMMA YesReadDatatoBuffer ==
  ASSUME OneInv, YesInv, ReadDatatoBuffer
  PROVE  YesInv'
  <1>1. UNCHANGED <<report, flag, up, down, server, refused>> /\ rx' = "none" /\ at = "resend"
    BY DEF ReadDatatoBuffer
  <1>2. CASE Failed(rx)
    BY <1>1, <1>2, YesStays DEF ReadDatatoBuffer
  <1>3. CASE ~Failed(rx)
    <2>1. at' = "read"
      BY <1>3 DEF ReadDatatoBuffer
    <2>2. Takes(rx)
      BY <1>3 DEF Failed, Takes, OneInv, TypeOK, Codes
    <2>3. Answered(files[f_name][Index].meal)
      BY <1>1, <2>2 DEF YesInv, Heard, OneInv, Reading
    <2>4. /\ \A d \in Dates : Len(files'[d]) = Len(files[d])
          /\ \A d \in Dates : \A n \in Nums(d) :
               /\ files'[d][n].meal = files[d][n].meal
               /\ files'[d][n].flag = IF d = f_name /\ n = Index THEN "y" ELSE files[d][n].flag
      BY <2>1, Marks DEF OneInv
    <2>5. Marked'
      <3> SUFFICES ASSUME NEW d \in Dates, NEW n \in Nums(d), files'[d][n].flag = "y"
                   PROVE  Answered(files[d][n].meal)
        BY <1>1, <2>4 DEF Marked, Nums, Answered
      <3> QED
        BY <2>3, <2>4 DEF YesInv, Marked
    <2> QED
      BY <1>1, <2>1, <2>5 DEF YesInv, Own, Heard, Takes, Flagged, Answered
  <1> QED
    BY <1>2, <1>3

LEMMA YesStep ==
  ASSUME Late = 0
  PROVE  OneInv /\ YesInv /\ [Next]_vars => YesInv'
  <1> SUFFICES ASSUME OneInv, YesInv, [Next]_vars PROVE YesInv'
    OBVIOUS
  <1>1. CASE DataUpload
    BY <1>1, YesSends DEF DataUpload
  <1>2. CASE Fread
    <2>1. CASE CmdDataSend(TakeMealsFun1(Here)) /\ at' = "resend"
      BY <1>2, <2>1, YesSends DEF Fread
    <2>2. CASE UNCHANGED <<report, link>> /\ at' \in {"day", "read"}
      BY <1>2, <2>2, YesStays DEF Fread, link
    <2> QED
      BY <1>2, <2>1, <2>2 DEF Fread
  <1>3. CASE Sd_Write
    BY <1>3, YesSdWrite
  <1>4. CASE ReadDatatoBuffer
    BY <1>4, YesReadDatatoBuffer
  <1>5. CASE ServerAnswers
    BY <1>5, YesServerAnswers
  <1>6. CASE TakeMealsFun
    <2>1. UNCHANGED <<files, report, up, down, server, refused>> /\ rx' = "none" /\ at' = "write"
      BY <1>6 DEF TakeMealsFun, card
    <2>2. flag' = "y" => Takes(rx)
      BY <1>6 DEF TakeMealsFun, Failed, Takes, OneInv, TypeOK, Codes
    <2> QED
      BY <2>1, <2>2 DEF YesInv, Own, Heard, Takes, Flagged, Marked, Nums, Answered
  <1>7. CASE UART5_IRQHandler
    <2>1. PICK a \in down : rx' = a.code /\ down' = down \ {a}
      BY <1>7 DEF UART5_IRQHandler
    <2>2. UNCHANGED <<at, files, report, flag, up, server, refused>>
      BY <1>7 DEF UART5_IRQHandler, card
    <2> QED
      BY <2>1, <2>2 DEF YesInv, Own, Heard, Flagged, Marked, Nums, Answered
  <1>8. CASE Lose
    BY <1>8, YesStays DEF Lose, card
  <1>9. CASE Outage
    BY <1>9, YesStays DEF Outage
  <1>10. CASE OpenFile \/ Served \/ Start
    BY <1>10, YesStays DEF OpenFile, Served, Start, card, link
  <1>11. CASE Sync \/ StateSend \/ Midnight
    BY <1>11, YesStays DEF Sync, StateSend, Midnight, card, link
  <1>12. CASE UNCHANGED vars
    BY <1>12, YesStays DEF vars, card, link
  <1> QED
    BY <1>1, <1>2, <1>3, <1>4, <1>5, <1>6, <1>7, <1>8, <1>9, <1>10, <1>11, <1>12 DEF Next, Main

LEMMA YesInit ==
  ASSUME Init
  PROVE  YesInv
  BY DEF Init, YesInv, Own, Heard, Takes, Flagged, Marked, Nums

-----------------------------------------------------------------------------
(* The days SendtoServce opens, counted back one by one from a day d. *)
LEMMA Smallest ==
  ASSUME NEW S \in SUBSET Nat, S # {}
  PROVE  \E n \in S : \A m \in S : n <= m
  <1> DEFINE R == {ss \in Nat \X Nat : ss[1] < ss[2]}
  <1>1. IsWellFoundedOn(R, Nat)
    BY NatLessThanWellFounded DEF OpToRel
  <1>2. PICK n \in S : \A m \in S : <<m, n>> \notin R
    BY <1>1, WFMin
  <1>3. ASSUME NEW m \in S PROVE n <= m
    <2>1. m \in Nat /\ n \in Nat /\ <<m, n>> \in Nat \X Nat /\ <<m, n>>[1] = m /\ <<m, n>>[2] = n
      OBVIOUS
    <2>2. ~(m < n)
      BY <1>2, <2>1
    <2> QED
      BY <2>1, <2>2
  <1> QED
    BY <1>3

Walk(b, d, k) == /\ b \in [0..k -> Dates] /\ b[0] = d
                 /\ \A n \in 1..k : b[n] = Before(b[n - 1])

LEMMA WalkExists ==
  ASSUME NEW d \in Dates
  PROVE  \A k \in Nat : \E b : Walk(b, d, k)
  <1> DEFINE Bad == {k \in Nat : ~ \E b : Walk(b, d, k)}
  <1> SUFFICES ASSUME Bad # {} PROVE FALSE
    OBVIOUS
  <1>1. PICK k \in Bad : \A m \in Bad : k <= m
    <2>1. Bad \in SUBSET Nat
      OBVIOUS
    <2> HIDE DEF Bad
    <2> QED
      BY <2>1, Smallest
  <1>2. k \in Nat /\ ~ \E b : Walk(b, d, k)
    OBVIOUS
  <1>3. k # 0
    <2>1. Walk([n \in 0..0 |-> d], d, 0)
      BY DEF Walk
    <2> QED
      BY <1>2, <2>1
  <1>4. k - 1 \in Nat /\ k - 1 \notin Bad
    BY <1>1, <1>2, <1>3
  <1>5. PICK b : Walk(b, d, k - 1)
    BY <1>4
  <1> DEFINE h == [n \in 0..k |-> IF n = k THEN Before(b[k - 1]) ELSE b[n]]
  <1>6. Before(b[k - 1]) \in Dates
    BY <1>2, <1>3, <1>5, DateFacts DEF Walk
  <1>7. \A n \in 0..k : h[n] = IF n = k THEN Before(b[k - 1]) ELSE b[n]
    OBVIOUS
  <1>8. h \in [0..k -> Dates]
    BY <1>2, <1>3, <1>5, <1>6 DEF Walk
  <1> HIDE DEF h, Bad
  <1>9. h[0] = d
    BY <1>2, <1>3, <1>5, <1>7 DEF Walk
  <1>10. ASSUME NEW n \in 1..k PROVE h[n] = Before(h[n - 1])
    <2>1. n - 1 \in 0..k /\ n - 1 # k /\ n \in 0..k
      BY <1>2
    <2>2. h[n - 1] = b[n - 1]
      BY <1>7, <2>1
    <2>3. CASE n = k
      BY <1>7, <2>1, <2>2, <2>3
    <2>4. CASE n # k
      BY <1>2, <1>5, <1>7, <2>1, <2>2, <2>4 DEF Walk
    <2> QED
      BY <2>3, <2>4
  <1> QED
    BY <1>2, <1>8, <1>9, <1>10 DEF Walk

LEMMA BackFacts ==
  ASSUME NEW d \in Dates
  PROVE  Walk(BackTo(d), d, Window)
  <1>1. PICK b : Walk(b, d, Window)
    BY WalkExists, UploadAssumption
  <1>2. b = [n \in 0..Window |-> IF n = 0 THEN d ELSE Before(b[n - 1])]
    <2>1. \A n \in 0..Window : b[n] = IF n = 0 THEN d ELSE Before(b[n - 1])
      BY <1>1, UploadAssumption DEF Walk
    <2> QED
      BY <1>1, <2>1 DEF Walk
  <1>3. BackTo(d) = [n \in 0..Window |-> IF n = 0 THEN d ELSE Before(BackTo(d)[n - 1])]
    BY <1>2 DEF BackTo
  <1> DEFINE c == BackTo(d)
  <1>4. \A n \in 0..Window : c[n] = IF n = 0 THEN d ELSE Before(c[n - 1])
    BY <1>3
  <1>5. c[0] = d /\ \A n \in 1..Window : c[n] = Before(c[n - 1])
    BY <1>4, UploadAssumption
  <1>6. \A n \in 0..Window : c[n] \in Dates
    <2> DEFINE Bad == {n \in 0..Window : c[n] \notin Dates}
    <2> SUFFICES ASSUME Bad # {} PROVE FALSE
      OBVIOUS
    <2>1. PICK n \in Bad : \A m \in Bad : n <= m
      <3>1. Bad \in SUBSET Nat
        BY UploadAssumption
      <3> HIDE DEF Bad
      <3> QED
        BY <3>1, Smallest
    <2>2. n \in 0..Window /\ n # 0 /\ c[n] \notin Dates
      BY <1>5
    <2>3. n - 1 \in 0..Window /\ n - 1 \notin Bad
      BY <2>1, <2>2, UploadAssumption
    <2> QED
      BY <1>5, <2>2, <2>3, DateFacts, UploadAssumption
  <1>7. c \in [0..Window -> Dates]
    BY <1>3, <1>6
  <1> QED
    BY <1>5, <1>7 DEF Walk

LEMMA BackType ==
  ASSUME NEW d \in Dates, NEW n \in 0..Window
  PROVE  BackTo(d)[n] \in Dates
  BY BackFacts DEF Walk

-----------------------------------------------------------------------------
(* What SendtoServce has sent, on its way back from the day of the start. *)
NewestFrom(s, d) ==
  \E n \in 0..(Window - 1) : /\ BackTo(s)[n] = d /\ files[d] # <<>>
                             /\ \A m \in 0..(n - 1) : files[BackTo(s)[m]] = <<>>
NoneIn(s, k) == \A m \in 0..(k - 1) : files[BackTo(s)[m]] = <<>>
AllSent(d)   == \A n \in Nums(d) : files[d][n].flag = "y"
Done(s, k)   == \A n \in 0..(k - 1) : NoneIn(s, n) => AllSent(BackTo(s)[n])
Upto(d, e)   == d.Month < e.Month \/ (d.Month = e.Month /\ d.Date <= e.Date)

(* No record is of a day that is still to come, *)
Dated == /\ \A d \in Dates : files[d] # <<>> => Upto(d, today)
         /\ at = "idle" => Upto(TimeDate, today)
         /\ at \in {"report", "write"} => Upto(f_name, today) /\ caughtUp = 0
         /\ at = "off" => Index = 0 /\ opened = 0

(* and from the day s of the start on, the first file that is not empty is    *)
(* the one Index counts in.                                                   *)
Opening(s) == at = "day" => /\ TimeDate = BackTo(s)[opened] /\ Done(s, opened)
                            /\ NoneIn(s, opened) => Index = 0
Behind(n) == n < Index \/ (n = Index /\ at = "read")
Passing(s) == at \in {"read", "resend"} =>
   /\ opened >= 1 /\ TimeDate = BackTo(s)[opened] /\ f_name = BackTo(s)[opened - 1]
   /\ Done(s, opened - 1)
   /\ NoneIn(s, opened - 1) =>
        /\ \A n \in Nums(f_name) : Behind(n) => files[f_name][n].flag = "y"
        /\ files[f_name] = <<>> => Index = 0
Resting(s) == at = "idle" => Done(s, Window)
SentFrom(s) == /\ \A d \in Dates : NewestFrom(today, d) => NewestFrom(s, d)
               /\ Opening(s) /\ Passing(s) /\ Resting(s)
SentInv == caughtUp = 1 /\ at # "off" => \E s \in Dates : SentFrom(s)

LEMMA MidnightNewest ==
  ASSUME TypeOK, Dated, Midnight, NEW d \in Dates, NewestFrom(today', d)
  PROVE  NewestFrom(today, d)
  <1> DEFINE b == BackTo(today)
             c == BackTo(today')
  <1>1. today \in Dates /\ today' \in Dates /\ Window \in Nat
    BY MidnightFacts, UploadAssumption DEF TypeOK
  <1>2. Walk(b, today, Window) /\ Walk(c, today', Window)
    BY <1>1, BackFacts
  <1> HIDE DEF b, c
  <1>3. PICK n \in 0..(Window - 1) : /\ c[n] = d /\ files[d] # <<>>
                                     /\ \A m \in 0..(n - 1) : files[c[m]] = <<>>
    BY DEF NewestFrom, c
  <1>4. Upto(d, today)
    BY <1>3 DEF Dated
  <1>5. CASE today.Date < DaysIn /\ today' = [today EXCEPT !.Date = @ + 1]
    <2>1. today'.Month = today.Month /\ today'.Date = today.Date + 1 /\ today.Date >= 1
      BY <1>1, <1>5, UploadAssumption DEF Dates
    <2>2. Before(today') = today
      BY <1>1, <2>1, UploadAssumption DEF Before, Dates
    <2>3. n # 0
      <3>1. today.Date \in Int /\ today.Month \in Int
        BY <1>1, UploadAssumption DEF Dates
      <3>2. ~Upto(today', today)
        BY <2>1, <3>1 DEF Upto
      <3> QED
        BY <1>2, <1>3, <1>4, <3>2 DEF Walk
    <2>4. \A m \in 1..Window : c[m] = b[m - 1]
      <3> DEFINE Bad == {m \in 1..Window : c[m] # b[m - 1]}
      <3> SUFFICES ASSUME Bad # {} PROVE FALSE
        OBVIOUS
      <3>1. PICK m \in Bad : \A k \in Bad : m <= k
        <4>1. Bad \in SUBSET Nat
          BY <1>1
        <4> HIDE DEF Bad
        <4> QED
          BY <4>1, Smallest
      <3>2. m \in 1..Window /\ c[m] # b[m - 1]
        OBVIOUS
      <3>3. m # 1
        BY <1>2, <2>2, <3>2 DEF Walk
      <3>4. m - 1 \in 1..Window /\ m - 1 \notin Bad
        BY <1>1, <3>1, <3>2, <3>3
      <3>5. c[m - 1] = b[m - 1 - 1]
        BY <3>4
      <3> QED
        BY <1>1, <1>2, <3>2, <3>3, <3>4, <3>5 DEF Walk
    <2>5. n - 1 \in 0..(Window - 1) /\ b[n - 1] = d
      BY <1>1, <1>3, <2>3, <2>4
    <2>6. ASSUME NEW m \in 0..(n - 1 - 1) PROVE files[b[m]] = <<>>
      <3>1. m + 1 \in 1..Window /\ m + 1 \in 0..(n - 1) /\ m + 1 - 1 = m
        BY <1>1, <1>3
      <3> QED
        BY <1>3, <2>4, <3>1
    <2> QED
      BY <1>3, <2>5, <2>6 DEF NewestFrom, b
  <1>6. CASE /\ today.Date = DaysIn /\ today.Month < Months
             /\ today' = [Month |-> today.Month + 1, Date |-> 1]
    <2>1. today'.Month = today.Month + 1 /\ today'.Month # 1
      BY <1>1, <1>6 DEF Dates
    <2>2. \A m \in 0..Window : c[m].Month = today'.Month
      <3> DEFINE Bad == {m \in 0..Window : c[m].Month # today'.Month}
      <3> SUFFICES ASSUME Bad # {} PROVE FALSE
        OBVIOUS
      <3>1. PICK m \in Bad : \A k \in Bad : m <= k
        <4>1. Bad \in SUBSET Nat
          BY <1>1
        <4> HIDE DEF Bad
        <4> QED
          BY <4>1, Smallest
      <3>2. m \in 0..Window /\ c[m].Month # today'.Month
        OBVIOUS
      <3>3. m # 0
        BY <1>2, <3>2 DEF Walk
      <3>4. m - 1 \in 0..Window /\ m - 1 \notin Bad
        BY <1>1, <3>1, <3>2, <3>3
      <3>5. c[m - 1].Month = today'.Month /\ c[m - 1] \in Dates
        BY <1>2, <3>4 DEF Walk
      <3>6. Before(c[m - 1]).Month = today'.Month
        BY <2>1, <3>5 DEF Before, Last, Dates
      <3> QED
        BY <1>1, <1>2, <3>2, <3>3, <3>6 DEF Walk
    <2>3. d.Month = today.Month + 1
      BY <1>1, <1>3, <2>1, <2>2
    <2> QED
      BY <1>1, <1>4, <2>3 DEF Upto, Dates
  <1> QED
    BY <1>5, <1>6 DEF Midnight

LEMMA UptoNext ==
  ASSUME TypeOK, Midnight, NEW d \in Dates, Upto(d, today)
  PROVE  Upto(d, today')
  <1>1. CASE today.Date < DaysIn /\ today' = [today EXCEPT !.Date = @ + 1]
    <2>1. today.Date \in Int /\ d.Date \in Int
      BY UploadAssumption DEF TypeOK, Dates
    <2>2. today'.Date = today.Date + 1 /\ today'.Month = today.Month
      BY <1>1 DEF TypeOK, Dates
    <2> QED
      BY <2>1, <2>2 DEF Upto
  <1>2. CASE /\ today.Date = DaysIn /\ today.Month < Months
             /\ today' = [Month |-> today.Month + 1, Date |-> 1]
    BY <1>2, UploadAssumption DEF TypeOK, Dates, Upto
  <1> QED
    BY <1>1, <1>2 DEF Midnight

LEMMA EmptyFacts ==
  ASSUME TypeOK, NEW d \in Dates
  PROVE  /\ files[d] \in Seq(Records) /\ Len(files[d]) \in Nat
         /\ files[d] = <<>> <=> Len(files[d]) = 0
  BY EmptySeq, LenProperties DEF TypeOK

LEMMA DatedStep ==
  ASSUME OneInv, OneInv', Dated, [Next]_vars
  PROVE  Dated'
  <1> USE DEF OneInv
  <1>1. today \in Dates /\ TimeDate \in Dates /\ Upto(today, today)
    BY UploadAssumption DEF TypeOK, Dates, Upto
  <1>2. CASE DataUpload
    BY <1>1, <1>2 DEF DataUpload, Dated, Upto
  <1>3. CASE TakeMealsFun
    BY <1>3 DEF TakeMealsFun, card, Dated, Upto
  <1>4. CASE Sd_Write
    <2>1. UNCHANGED <<f_name, today, caughtUp>> /\ at = "write" /\ at' = "idle" /\ TimeDate' = today
      BY <1>4 DEF Sd_Write
    <2>2. ASSUME NEW d \in Dates, files'[d] # <<>> PROVE Upto(d, today)
      BY <1>4, <2>1, <2>2, Written DEF Dated
    <2> QED
      BY <1>1, <2>1, <2>2 DEF Dated, Upto
  <1>5. CASE ReadDatatoBuffer
    <2>1. UNCHANGED <<f_name, today>> /\ at' \in {"day", "read"}
      BY <1>5 DEF ReadDatatoBuffer, clock
    <2>2. CASE UNCHANGED files
      BY <2>1, <2>2 DEF Dated, Upto
    <2>3. CASE at' = "read"
      <3>1. \A d \in Dates : Len(files'[d]) = Len(files[d])
        BY <1>5, <2>3, Marks
      <3>2. \A d \in Dates : files'[d] # <<>> => files[d] # <<>>
        BY <3>1, EmptyFacts
      <3> QED
        BY <2>1, <3>2 DEF Dated, Upto
    <2> QED
      BY <1>5, <2>2, <2>3 DEF ReadDatatoBuffer
  <1>6. CASE OpenFile \/ Fread \/ Start \/ Sync
    <2>1. UNCHANGED <<files, today>> /\ at' \in {"day", "read", "resend"}
      BY <1>6 DEF OpenFile, Fread, Start, Sync, card, clock
    <2> QED
      BY <2>1 DEF Dated, Upto
  <1>7. CASE Served \/ StateSend
    <2>1. UNCHANGED <<files, today>> /\ at' = "idle" /\ TimeDate' = today
      BY <1>7 DEF Served, StateSend, card
    <2> QED
      BY <1>1, <2>1 DEF Dated, Upto
  <1>8. CASE Outage
    BY <1>8 DEF Outage, clock, Dated, Upto
  <1>9. CASE Midnight
    <2>1. UNCHANGED <<at, files, f_name, TimeDate, caughtUp, Index, opened>>
      BY <1>9 DEF Midnight, card
    <2>2. f_name \in Dates
      BY DEF TypeOK
    <2> QED
      BY <1>1, <1>9, <2>1, <2>2, UptoNext DEF Dated
  <1>10. CASE ServerAnswers \/ Lose \/ UART5_IRQHandler \/ UNCHANGED vars
    <2>1. UNCHANGED <<at, files, f_name, TimeDate, caughtUp, Index, opened, today>>
      BY <1>10 DEF ServerAnswers, Lose, UART5_IRQHandler, vars, card, clock
    <2> QED
      BY <2>1 DEF Dated, Upto
  <1> QED
    BY <1>2, <1>3, <1>4, <1>5, <1>6, <1>7, <1>8, <1>9, <1>10 DEF Next, Main

(* What the steps of SendtoServce do to the day s the start began with. *)
LEMMA SentStays ==
  ASSUME NEW s \in Dates, SentFrom(s), UNCHANGED <<at, files, f_name, Index, opened, today>>,
         TimeDate' = TimeDate \/ at = "idle"
  PROVE  SentFrom(s)'
  BY DEF SentFrom, NewestFrom, Opening, Passing, Resting, Done, NoneIn, AllSent, Nums, Behind

LEMMA SentMidnight ==
  ASSUME TypeOK, Dated, NEW s \in Dates, SentFrom(s), Midnight
  PROVE  SentFrom(s)'
  <1>1. UNCHANGED <<at, files, f_name, Index, opened, TimeDate>>
    BY DEF Midnight, card
  <1>2. Opening(s)' /\ Passing(s)' /\ Resting(s)'
    BY <1>1 DEF SentFrom, Opening, Passing, Resting, Done, NoneIn, AllSent, Nums, Behind
  <1>3. \A d \in Dates : NewestFrom(today', d) => NewestFrom(s, d)
    BY MidnightNewest DEF SentFrom
  <1>4. \A d \in Dates : NewestFrom(today, d)' => NewestFrom(s, d)'
    BY <1>1, <1>3 DEF NewestFrom
  <1> QED
    BY <1>2, <1>4 DEF SentFrom

LEMMA SentOpenFile ==
  ASSUME TypeOK, NEW s \in Dates, SentFrom(s), OpenFile
  PROVE  SentFrom(s)'
  <1>1. /\ at = "day" /\ at' = "read" /\ opened \in 0..(Window - 1) /\ opened' = opened + 1
        /\ f_name' = TimeDate /\ TimeDate' = Before(TimeDate) /\ UNCHANGED <<files, today, Index>>
    BY UploadAssumption DEF OpenFile, TypeOK
  <1>2. TimeDate = BackTo(s)[opened] /\ Done(s, opened) /\ (NoneIn(s, opened) => Index = 0)
    BY <1>1 DEF SentFrom, Opening
  <1>3. BackTo(s)[opened + 1] = Before(BackTo(s)[opened])
    <2> DEFINE k == opened + 1
    <2>1. k \in 1..Window /\ k - 1 = opened
      BY <1>1, UploadAssumption
    <2>2. BackTo(s)[k] = Before(BackTo(s)[k - 1])
      <3> HIDE DEF k
      <3> QED
        BY <2>1, BackFacts DEF Walk
    <2> QED
      BY <2>1, <2>2
  <1>4. opened' - 1 = opened /\ opened' >= 1
    BY <1>1
  <1>5. Passing(s)'
    <2>1. \A n \in Nums(TimeDate) : Index = 0 => ~(n < Index \/ n = Index)
      BY DEF Nums
    <2> QED
      BY <1>1, <1>2, <1>3, <1>4, <2>1 DEF Passing, Done, NoneIn, AllSent, Nums, Behind
  <1> QED
    BY <1>1, <1>5 DEF SentFrom, NewestFrom, Opening, Resting

LEMMA SentServed ==
  ASSUME TypeOK, NEW s \in Dates, SentFrom(s), Served
  PROVE  SentFrom(s)'
  BY DEF Served, SentFrom, NewestFrom, Opening, Passing, Resting, Done, NoneIn, AllSent, Nums

(* One more file is done. *)
LEMMA DoneMore ==
  ASSUME NEW s, NEW k \in Nat, k >= 1, Done(s, k - 1),
         NoneIn(s, k - 1) => AllSent(BackTo(s)[k - 1])
  PROVE  Done(s, k)
  BY DEF Done

LEMMA SentFread ==
  ASSUME TypeOK, NEW s \in Dates, SentFrom(s), Fread
  PROVE  SentFrom(s)'
  <1>1. /\ at = "read" /\ at' \in {"day", "read", "resend"}
        /\ UNCHANGED <<files, f_name, opened, today, TimeDate>>
    BY DEF Fread, clock
  <1>2. /\ f_name = BackTo(s)[opened - 1] /\ opened \in Nat /\ opened >= 1
        /\ TimeDate = BackTo(s)[opened] /\ Done(s, opened - 1)
        /\ f_name \in Dates /\ Index \in Nat
    BY <1>1, UploadAssumption DEF SentFrom, Passing, TypeOK
  <1>3. NoneIn(s, opened - 1) =>
          /\ \A n \in Nums(f_name) : n <= Index => files[f_name][n].flag = "y"
          /\ files[f_name] = <<>> => Index = 0
    BY <1>1, <1>2 DEF SentFrom, Passing, Behind, Nums
  <1>4. Nums(f_name) = 1..Len(files[f_name]) /\ Len(files[f_name]) \in Nat
    BY <1>2, EmptyFacts DEF Nums
  <1>5. NoneIn(s, opened) => NoneIn(s, opened - 1) /\ files[f_name] = <<>>
    BY <1>2 DEF NoneIn
  <1>6. ASSUME at' = "day", NoneIn(s, opened - 1) => AllSent(f_name), NoneIn(s, opened) => Index' = 0
        PROVE  SentFrom(s)'
    <2>1. Done(s, opened)
      BY <1>2, <1>6, DoneMore
    <2>2. Opening(s)'
      BY <1>1, <1>2, <1>6, <2>1 DEF Opening, Done, NoneIn, AllSent, Nums
    <2> QED
      BY <1>1, <1>6, <2>2 DEF SentFrom, NewestFrom, Passing, Resting
  <1>7. CASE files[f_name] = <<>> /\ at' = "day" /\ UNCHANGED <<Index, report, link>>
    <2>1. AllSent(f_name)
      BY <1>4, <1>7, EmptyFacts, <1>2 DEF AllSent
    <2> QED
      BY <1>3, <1>5, <1>6, <1>7, <2>1
  <1>8. CASE files[f_name] # <<>> /\ PastEnd /\ at' = "day"
    <2>1. NoneIn(s, opened - 1) => AllSent(f_name)
      BY <1>2, <1>3, <1>4, <1>8 DEF PastEnd, AllSent
    <2> QED
      BY <1>5, <1>6, <1>8, <2>1
  <1>9. CASE /\ ~PastEnd /\ Passed
             /\ at' = "resend" \/ (at' = "read" /\ Here.flag = "y")
    <2>1. files[f_name] # <<>> /\ Index' = Index + 1
      BY <1>2, <1>4, <1>9, EmptyFacts DEF PastEnd, Passed
    <2>2. \A n \in Nums(f_name) : n < Index + 1 => n <= Index
      BY <1>2, <1>4
    <2>3. at' = "read" => files[f_name][Index + 1].flag = "y"
      BY <1>9 DEF Here
    <2>4. NoneIn(s, opened - 1) =>
            \A n \in Nums(f_name) : n < Index + 1 \/ (n = Index + 1 /\ at' = "read")
              => files[f_name][n].flag = "y"
      BY <1>3, <2>2, <2>3
    <2>5. Passing(s)'
      BY <1>1, <1>2, <2>1, <2>4 DEF Passing, Done, NoneIn, AllSent, Nums, Behind
    <2> QED
      BY <1>1, <1>9, <2>5 DEF SentFrom, NewestFrom, Opening, Resting
  <1> QED
    BY <1>7, <1>8, <1>9 DEF Fread

LEMMA SentReadDatatoBuffer ==
  ASSUME OneInv, NEW s \in Dates, SentFrom(s), ReadDatatoBuffer, caughtUp' = 1, caughtUp = 1
  PROVE  SentFrom(s)'
  <1> USE DEF OneInv
  <1>1. at = "resend" /\ at' = "read" /\ UNCHANGED <<f_name, Index, opened, today, TimeDate>>
    BY DEF ReadDatatoBuffer, clock
  <1>2. /\ \A d \in Dates : Len(files'[d]) = Len(files[d])
        /\ \A d \in Dates : \A n \in Nums(d) :
             files'[d][n].flag = IF d = f_name /\ n = Index THEN "y" ELSE files[d][n].flag
        /\ files' \in [Dates -> Seq(Records)]
    BY <1>1, Marks
  <1>3. \A d \in Dates : files'[d] = <<>> <=> files[d] = <<>>
    <2>1. ASSUME NEW d \in Dates PROVE files'[d] = <<>> <=> Len(files'[d]) = 0
      BY <1>2, EmptySeq, LenProperties
    <2> QED
      BY <1>2, <2>1, EmptyFacts
  <1>4. \A d \in Dates : AllSent(d) => AllSent(d)'
    BY <1>2 DEF AllSent, Nums
  <1>5. /\ f_name = BackTo(s)[opened - 1] /\ opened \in 1..Window
        /\ TimeDate = BackTo(s)[opened] /\ Done(s, opened - 1)
        /\ f_name \in Dates /\ Index \in Nat
    BY <1>1, UploadAssumption DEF SentFrom, Passing, TypeOK
  <1>6. \A n \in 0..Window : BackTo(s)[n] \in Dates
    BY BackType
  <1>7. \A k \in 0..Window : NoneIn(s, k)' <=> NoneIn(s, k)
    BY <1>3, <1>6, UploadAssumption DEF NoneIn
  <1>8. Done(s, opened - 1)'
    <2> SUFFICES ASSUME NEW n \in 0..(opened - 1 - 1), NoneIn(s, n)'
                 PROVE  AllSent(BackTo(s)[n])'
      BY <1>1 DEF Done
    <2>1. n \in 0..Window
      BY <1>5, UploadAssumption
    <2>2. AllSent(BackTo(s)[n])
      BY <1>5, <1>7, <2>1 DEF Done
    <2> QED
      BY <1>4, <1>6, <2>1, <2>2
  <1>9. NoneIn(s, opened - 1)' =>
          /\ \A n \in Nums(f_name) : n < Index \/ n = Index => files'[f_name][n].flag = "y"
          /\ files'[f_name] = <<>> => Index = 0
    <2> SUFFICES ASSUME NoneIn(s, opened - 1)'
                 PROVE  /\ \A n \in Nums(f_name) : n < Index \/ n = Index => files'[f_name][n].flag = "y"
                        /\ files'[f_name] = <<>> => Index = 0
      OBVIOUS
    <2>1. NoneIn(s, opened - 1)
      <3>1. opened - 1 \in 0..Window
        BY <1>5, UploadAssumption
      <3> QED
        BY <1>1, <1>7, <3>1
    <2>2. /\ \A n \in Nums(f_name) : n < Index => files[f_name][n].flag = "y"
          /\ files[f_name] = <<>> => Index = 0
      BY <1>1, <2>1 DEF SentFrom, Passing, Behind
    <2> QED
      BY <1>2, <1>3, <1>5, <2>2
  <1>10. Passing(s)'
    <2>1. Nums(f_name)' = Nums(f_name)
      BY <1>1, <1>2, <1>5 DEF Nums
    <2> QED
      BY <1>1, <1>5, <1>8, <1>9, <2>1 DEF Passing, Behind
  <1>11. ASSUME NEW d \in Dates, NewestFrom(today, d)' PROVE NewestFrom(s, d)'
    <2>1. today \in Dates
      BY DEF TypeOK
    <2>2. \A e \in Dates : NewestFrom(e, d)' <=> NewestFrom(e, d)
      <3> SUFFICES ASSUME NEW e \in Dates PROVE NewestFrom(e, d)' <=> NewestFrom(e, d)
        OBVIOUS
      <3>1. \A n \in 0..Window : BackTo(e)[n] \in Dates
        BY BackType
      <3>2. ASSUME NEW n \in 0..(Window - 1), NEW m \in 0..(n - 1) PROVE BackTo(e)[m] \in Dates
        BY <3>1, UploadAssumption
      <3> QED
        BY <1>3, <3>2 DEF NewestFrom
    <2> QED
      BY <1>1, <1>11, <2>1, <2>2 DEF SentFrom
  <1> QED
    BY <1>1, <1>10, <1>11 DEF SentFrom, Opening, Resting

LEMMA SentStart ==
  ASSUME TypeOK, Dated, Start
  PROVE  today \in Dates /\ SentFrom(today)'
  <1>1. /\ at' = "day" /\ UNCHANGED <<files, today>> /\ TimeDate' = today
        /\ Index' = 0 /\ opened' = 0 /\ today \in Dates
    BY DEF Start, Dated, card, TypeOK
  <1>2. BackTo(today)[0] = today
    BY <1>1, BackFacts DEF Walk
  <1> QED
    BY <1>1, <1>2 DEF SentFrom, Opening, Passing, Resting, Done

LEMMA SentStep ==
  ASSUME OneInv, OneInv', Dated, SentInv, [Next]_vars
  PROVE  SentInv'
  <1> SUFFICES ASSUME caughtUp' = 1, at' # "off"
               PROVE  \E s \in Dates : SentFrom(s)'
    BY DEF SentInv
  <1> USE DEF OneInv
  <1>1. CASE Start
    <2>1. today \in Dates /\ SentFrom(today)' /\ today' = today
      BY <1>1, SentStart DEF Start
    <2> QED
      BY <2>1
  <1>2. CASE DataUpload \/ Sync \/ Outage \/ TakeMealsFun \/ Sd_Write
    BY <1>2 DEF DataUpload, Sync, Outage, TakeMealsFun, Sd_Write, Dated
  <1>3. ASSUME caughtUp = 1, at # "off" PROVE \E s \in Dates : SentFrom(s)
    BY <1>3 DEF SentInv
  <1>4. CASE ReadDatatoBuffer
    <2>1. caughtUp = 1 /\ at # "off"
      BY <1>4 DEF ReadDatatoBuffer, TypeOK
    <2> QED
      BY <1>3, <1>4, <2>1, SentReadDatatoBuffer
  <1>5. CASE OpenFile \/ Served \/ Fread
    <2>1. caughtUp = 1 /\ at # "off"
      BY <1>5 DEF OpenFile, Served, Fread
    <2> QED
      BY <1>3, <1>5, <2>1, SentOpenFile, SentServed, SentFread
  <1>6. CASE Midnight
    <2>1. caughtUp = 1 /\ at # "off"
      BY <1>6 DEF Midnight
    <2> QED
      BY <1>3, <1>6, <2>1, SentMidnight
  <1>7. CASE StateSend \/ ServerAnswers \/ Lose \/ UART5_IRQHandler \/ UNCHANGED vars
    <2>1. /\ UNCHANGED <<at, files, f_name, Index, opened, today, caughtUp>>
          /\ TimeDate' = TimeDate \/ at = "idle"
      BY <1>7 DEF StateSend, ServerAnswers, Lose, UART5_IRQHandler, vars, card, clock
    <2> QED
      BY <1>3, <2>1, SentStays
  <1> QED
    BY <1>1, <1>2, <1>4, <1>5, <1>6, <1>7 DEF Next, Main

LEMMA SentInit ==
  ASSUME Init
  PROVE  Dated /\ SentInv
  <1>1. today \in Dates /\ (\A d \in Dates : files[d] = <<>>)
    BY UploadAssumption DEF Init, Dates
  <1>2. BackTo(today)[0] = today
    BY <1>1, BackFacts DEF Walk
  <1>3. SentFrom(today)
    BY <1>1, <1>2 DEF Init, SentFrom, Opening, Passing, Resting, Done
  <1> QED
    BY <1>1, <1>3 DEF Init, Dated, SentInv

-----------------------------------------------------------------------------
(* Every day is one of the calendar and every record is of a meal, for every  *)
(* calendar and number of meals: SendtoServce never leaves the calendar and   *)
(* ReadDatatoBuffer marks a record that exists.                               *)
THEOREM Typing ==
  Spec => []TypeOK
  <1>1. OneInv => TypeOK
    BY DEF OneInv
  <1> QED
    BY <1>1, OneAlways, PTL

LEMMA PlaceFacts ==
  ASSUME TypeOK, NEW p \in Places
  PROVE  p[1] \in Dates /\ p[2] \in Nums(p[1]) /\ p = <<p[1], p[2]>>
  BY LenProperties DEF Places, TypeOK, Nums

LEMMA HeldPlace ==
  ASSUME TypeOK, NEW m, NEW s, Held(m, s)
  PROVE  \E p \in Places : Rec(p).meal = m /\ Rec(p).serial = s
  <1>1. PICK d \in Dates : \E n \in Nums(d) : files[d][n].meal = m /\ files[d][n].serial = s
    BY DEF Held
  <1>2. PICK n \in Nums(d) : files[d][n].meal = m /\ files[d][n].serial = s
    BY <1>1
  <1>3. <<d, n>> \in Places
    BY <1>2, LenProperties DEF Places, Nums, TypeOK
  <1> QED
    BY <1>2, <1>3 DEF Rec

(* Whatever is lost, late or refused, however often the power fails and the   *)
(* records are sent again: a meal has one record, and the server knows it     *)
(* under two serial numbers at most (DataUpload, Sd_Write, TakeMealsFun1).    *)
THEOREM CountedTwiceAtMost ==
  Spec => []TwiceAtMost
  <1>1. OneInv => TwiceAtMost
    <2> SUFFICES ASSUME OneInv PROVE TwiceAtMost
      OBVIOUS
    <2> USE DEF OneInv
    <2>1. ASSUME NEW p \in Places, NEW q \in Places, Rec(p).meal = Rec(q).meal
          PROVE  p = q
      BY <2>1, PlaceFacts DEF Single, Rec
    <2>2. ASSUME NEW e \in server, e.serial # sent[e.meal]
          PROVE  \E p \in Places : Rec(p).meal = e.meal /\ Rec(p).serial = e.serial
      BY <2>2, HeldPlace DEF AllKnown, Known
    <2> QED
      BY <2>1, <2>2 DEF TwiceAtMost
  <1> QED
    BY <1>1, OneAlways, PTL

(* With answers that come before the next request is sent, no record is marked *)
(* "y" on an answer that was about another meal (CmdDataSend, ReadDatatoBuffer). *)
THEOREM MarkedOnItsAnswer ==
  Late = 0 => (Spec => []YesIsAnswered)
  <1> SUFFICES ASSUME Late = 0 PROVE Spec => []YesIsAnswered
    OBVIOUS
  <1>1. OneInv /\ YesInv /\ [Next]_vars => OneInv' /\ YesInv'
    BY OneStep, YesStep
  <1>2. OneInv /\ YesInv => YesIsAnswered
    BY PlaceFacts DEF OneInv, YesInv, Marked, YesIsAnswered, Rec
  <1>3. Init => OneInv /\ YesInv
    BY OneInit, YesInit
  <1> QED
    BY <1>1, <1>2, <1>3, PTL DEF Spec

(* After a start at which no repeated report failed, the newest of the files   *)
(* it opened holds no report still to be sent, for any calendar, any number of *)
(* files and wherever midnight falls (SendtoServce, Fread, ReadDatatoBuffer).  *)
THEOREM NewestIsSent ==
  Spec => []NewestFileSent
  <1>1. TypeOK /\ SentInv => NewestFileSent
    <2> SUFFICES ASSUME TypeOK, SentInv, at = "idle", caughtUp = 1,
                        NEW d \in Dates, Newest(d), NEW n \in DOMAIN files[d]
                 PROVE  files[d][n].flag = "y"
      BY DEF NewestFileSent
    <2>1. PICK s \in Dates : SentFrom(s)
      BY DEF SentInv
    <2>2. NewestFrom(s, d)
      BY <2>1 DEF SentFrom, Newest, NewestFrom
    <2>3. AllSent(d)
      BY <2>1, <2>2 DEF SentFrom, Resting, Done, NewestFrom, NoneIn
    <2>4. n \in Nums(d)
      BY LenProperties DEF TypeOK, Nums
    <2> QED
      BY <2>3, <2>4 DEF AllSent
  <1>2. OneInv => TypeOK
    BY DEF OneInv
  <1>3. Init => OneInv /\ Dated /\ SentInv
    BY OneInit, SentInit
  <1>4. OneInv /\ Dated /\ SentInv /\ [Next]_vars => OneInv' /\ Dated' /\ SentInv'
    BY OneStep, DatedStep, SentStep
  <1> QED
    BY <1>1, <1>2, <1>3, <1>4, PTL DEF Spec
=============================================================================
