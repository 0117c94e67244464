------------------------------- MODULE Stock --------------------------------
(***************************************************************************)
(* Where the meals are: the table of shelves FloorMeal with its copy in    *)
(* flash (MsgHandle.c, WriteMeal of spi_flash.c), the table DefineMeal of  *)
(* kinds made from it, the technician's pages that fill it (serialscreen.c), *)
(* the part of WaitMeal that finds a meal and counts it out (bsp.c), and   *)
(* what an outage leaves of all that (hardfawreInit).                      *)
(*                                                                         *)
(* Against them stands what lies on the shelves, which only people and the *)
(* arm change.  Money, and how the arm is commanded, are in Sale and        *)
(* Delivery.                                                               *)
(***************************************************************************)
EXTENDS Integers, FiniteSets, FiniteSetsExt

CONSTANTS
  FloorMealNum,  \* shelves (15)
  Columns,       \* columns of a shelf ({0, 1, 2})
  KindNum,       \* kinds of meals (4)
  Full,          \* meals in a full column (3)
  MaxOutages,    \* bound: times the power fails
  MaxCart,       \* bound: meals of a kind that a customer takes
  MaxVisits,     \* bound: times a technician opens the pages
  Hasty          \* 1: a technician may come while a customer's cart is filled

ASSUME StockAssumption ==
  /\ FloorMealNum \in Nat \ {0} /\ KindNum \in 1..254 /\ Full \in 0..255
  /\ Columns # {} /\ Columns \subseteq Nat /\ IsFiniteSet(Columns)
  /\ MaxOutages \in Nat /\ MaxVisits \in Nat /\ MaxCart \in Nat /\ Hasty \in {0, 1}

VARIABLES
  FloorMeal,    \* the table in RAM: kind, sum and columns of each shelf
  DefineMeal,   \* of each kind: how many there are, and where
  CurFloor,     \* the shelf on the technician's page
  MealCnt,      \* the cart
  at,           \* "screen", "find", "erase", "program", "arm" or "off"
  next,         \* what WriteMeal is called for: "confirm", "forget", "arm" or "boot"
  page,         \* "menu" or the technician's "input"
  here,         \* Line and Column of the meal the arm is sent for, and its kind
  flash,        \* the table in flash, Blank where it is erased
  saved,        \* the cart in the backup registers (SaveUserData)
  shelf,        \* what lies on the shelves
  outages, visits,  \* count up to their bounds
  restored,     \* ghost: 1 when the cart came from the backup registers
  unsaved       \* ghost: shelves that people changed and whose entry is not in flash

ram  == <<FloorMeal, DefineMeal, CurFloor, MealCnt>>
main == <<at, next, page, here>>
vars == <<ram, main, flash, saved, shelf, outages, visits, restored, unsaved>>

Floors == 1..FloorMealNum
Kinds  == 1..KindNum
Byte   == 0..255
Blank  == 255

Rows     == [Columns -> Byte]
Zero     == [c \in Columns |-> 0]
Shelf0   == [MealID |-> 0, MealCount |-> 0, Count |-> Zero]
Shelves  == [MealID : Byte, MealCount : Byte, Count : Rows]
Bare     == [MealID |-> 0, Count |-> Zero]
Erased   == [MealID |-> Blank, MealCount |-> Blank, Count |-> [c \in Columns |-> Blank]]
NoMeals  == [k \in Kinds |-> [MealCount |-> 0, Position |-> [f \in Floors |-> Zero]]]
NoCart   == [k \in Kinds |-> 0]
Nowhere  == [Line |-> 0, Column |-> 0, MealID |-> 0]
NoFloor  == [FloorNum |-> 0, MealID |-> 0, Count |-> Zero]

(* The first of a set of places, shelf by shelf. *)
FirstOf(S) == LET line == Min({p[1] : p \in S})
              IN <<line, Min({p[2] : p \in {q \in S : q[1] = line}})>>

Sum(row)    == SumFunction(row) % 256
Total(t, k) == SumFunction([f \in Floors |-> IF t[f].MealID = k THEN t[f].MealCount ELSE 0]) % 256

(* Mistakes one could make below, with which the runs must fail: sums that are *)
(* not started from 0, a count that is no byte, a meal not counted out of its   *)
(* column, a kind of which none is wanted any more, and a search on the shelves *)
(* of every kind.                                                               *)
SumsUp(t, m) ==
  [k \in Kinds |->
     [MealCount |-> (m[k].MealCount + Total(t, k)) % 256,
      Position  |-> [f \in Floors |-> IF t[f].MealID = k THEN t[f].Count ELSE m[k].Position[f]]]]
LessByOne(n)    == n - 1
SumOut(t, p)    == [t EXCEPT ![p[1]] = [@ EXCEPT !.MealCount = (@ + 255) % 256]]
NoneLeft        == {k \in Kinds : MealCnt[k] >= 0}
AnyPlaces(k)    == {p \in Floors \X Columns : \E j \in Kinds : DefineMeal[j].Position[p[1]][p[2]] > 0}

-----------------------------------------------------------------------------
(* StatisticsTotal counts anew, but writes only the places of the kind a    *)
(* shelf holds now: those of the kind it held before stay what they were.   *)
StatisticsTotal(t, m) ==
  [k \in Kinds |->
     [MealCount |-> Total(t, k),
      Position  |-> [f \in Floors |-> IF t[f].MealID = k THEN t[f].Count ELSE m[k].Position[f]]]]

(* The start reads a byte that was erased as 0. *)
Clean(b)      == IF b = Blank THEN 0 ELSE b
CleanTable(t) == [f \in Floors |->
                    [MealID |-> Clean(t[f].MealID), MealCount |-> Clean(t[f].MealCount),
                     Count |-> [c \in Columns |-> Clean(t[f].Count[c])]]]

Init ==
  /\ FloorMeal = [f \in Floors |-> Shelf0] /\ DefineMeal = NoMeals
  /\ CurFloor = NoFloor /\ MealCnt = NoCart
  /\ at = "screen" /\ next = "boot" /\ page = "menu" /\ here = Nowhere
  /\ flash = [f \in Floors |-> Shelf0] /\ saved = NoCart
  /\ shelf = [f \in Floors |-> Bare]
  /\ outages = 0 /\ visits = 0 /\ restored = 0 /\ unsaved = {}

-----------------------------------------------------------------------------
(* Customers. *)

Screen(p) == at = "screen" /\ page = p
World     == UNCHANGED <<flash, saved, shelf, outages, visits, unsaved>>

(* A kind of which there are none is not offered, and more than there are of *)
(* a kind are not taken into the cart.                                       *)
PutIntoShopCart ==
  /\ Screen("menu")
  /\ \E k \in Kinds : /\ DefineMeal[k].MealCount > 0
                      /\ \E n \in 0..Min({DefineMeal[k].MealCount, MaxCart}) :
                             MealCnt' = [MealCnt EXCEPT ![k] = n]
  /\ UNCHANGED <<FloorMeal, DefineMeal, CurFloor, main, restored>> /\ World

ClearUserBuffer ==
  /\ Screen("menu") /\ MealCnt # NoCart
  /\ MealCnt' = NoCart /\ restored' = 0
  /\ UNCHANGED <<FloorMeal, DefineMeal, CurFloor, main>> /\ World

(* The sale is settled; Sale has how. *)
Settled ==
  /\ Screen("menu") /\ MealCnt # NoCart
  /\ at' = "find"
  /\ UNCHANGED <<ram, next, page, here, restored>> /\ World

-----------------------------------------------------------------------------
(* The technician, who puts on a shelf what he enters for it. *)

(* InitSetting shows a shelf if it holds the kind chosen, else an empty one. *)
(* (Before a floor number is chosen it is 0: what lies in front of the table *)
(* is taken to hold no kind.)                                                *)
InitSetting(k, f) ==
  IF f \in Floors /\ FloorMeal[f].MealID = k THEN FloorMeal[f].Count ELSE Zero

EnterPassword ==
  /\ Screen("menu") /\ visits < MaxVisits
  /\ Hasty = 1 \/ MealCnt = NoCart
  /\ page' = "input" /\ visits' = visits + 1
  /\ CurFloor' = [CurFloor EXCEPT !.Count = InitSetting(CurFloor.MealID, CurFloor.FloorNum)]
  /\ UNCHANGED <<FloorMeal, DefineMeal, MealCnt, at, next, here, flash, saved, shelf,
                 outages, restored, unsaved>>

Entering == Screen("input") /\ World
            /\ UNCHANGED <<FloorMeal, DefineMeal, MealCnt, main, restored>>

(* A kind is chosen: InitSetting shows what the shelf chosen before holds, and *)
(* then the first empty shelf is chosen, if there is one.                      *)
meal_num ==
  /\ Entering
  /\ \E k \in Kinds :
       LET Empty == {f \in Floors : FloorMeal[f].MealCount = 0}
       IN CurFloor' = [MealID   |-> k,
                       Count    |-> InitSetting(k, CurFloor.FloorNum),
                       FloorNum |-> IF Empty = {} THEN CurFloor.FloorNum ELSE Min(Empty)]

floor_num ==
  /\ Entering
  /\ \E f \in Floors : CurFloor' = [CurFloor EXCEPT !.FloorNum = f,
                                                    !.Count = InitSetting(CurFloor.MealID, f)]

row_count ==
  /\ Entering
  /\ \E c \in Columns, n \in 0..Full : CurFloor' = [CurFloor EXCEPT !.Count[c] = n]

(* The keys that fill all columns, or none. *)
fill_or_empty ==
  /\ Entering
  /\ \E n \in {0, Full} : CurFloor' = [CurFloor EXCEPT !.Count = [c \in Columns |-> n]]

(* A shelf is confirmed: the table of kinds is made anew, the table of shelves *)
(* goes to flash.  A floor number that was never chosen is 0, and the shelf    *)
(* written lies in front of the table; what else lies there is not modelled.   *)
Confirmed ==
  [MealID |-> CurFloor.MealID, MealCount |-> Sum(CurFloor.Count), Count |-> CurFloor.Count]

confirm ==
  /\ Screen("input")
  /\ LET f == CurFloor.FloorNum
     IN IF f \in Floors
        THEN /\ FloorMeal' = [FloorMeal EXCEPT ![f] = Confirmed]
             /\ shelf' = [shelf EXCEPT ![f] = [MealID |-> CurFloor.MealID, Count |-> CurFloor.Count]]
             /\ unsaved' = unsaved \union {f}
        ELSE UNCHANGED <<FloorMeal, shelf, unsaved>>
  /\ DefineMeal' = StatisticsTotal(FloorMeal', NoMeals)
  /\ at' = "erase" /\ next' = "confirm"
  /\ UNCHANGED <<CurFloor, MealCnt, page, here, flash, saved, outages, visits, restored>>

(* The key that forgets all meals.  They are taken from the shelves, or are not. *)
forget_all ==
  /\ Screen("input")
  /\ FloorMeal' = [f \in Floors |-> Shelf0]
  /\ \/ UNCHANGED <<shelf, unsaved>>
     \/ shelf' = [f \in Floors |-> Bare] /\ unsaved' = Floors
  /\ at' = "erase" /\ next' = "forget"
  /\ UNCHANGED <<DefineMeal, CurFloor, MealCnt, page, here, flash, saved,
                 outages, visits, restored>>

LeaveInput ==
  /\ Screen("input")
  /\ page' = "menu" /\ CurFloor' = NoFloor
  /\ UNCHANGED <<FloorMeal, DefineMeal, MealCnt, at, next, here, restored>> /\ World

-----------------------------------------------------------------------------
(* WriteMeal erases the sector and programs it; then StatisticsTotal follows, *)
(* and at the start the cart is read back from the backup registers.          *)

SPI_FLASH_SectorErase ==
  /\ at = "erase"
  /\ flash' = [f \in Floors |-> Erased] /\ at' = "program"
  /\ UNCHANGED <<ram, next, page, here, saved, shelf, outages, visits, restored, unsaved>>

SPI_FLASH_BufferWrite ==
  /\ at = "program"
  /\ flash' = FloorMeal
  /\ DefineMeal' = StatisticsTotal(FloorMeal, DefineMeal)
  /\ at' = IF next = "arm" THEN "arm" ELSE "screen"
  /\ unsaved' = unsaved \ (IF next = "confirm" THEN {CurFloor.FloorNum}
                           ELSE IF next = "forget" THEN Floors ELSE {})
  /\ IF next = "boot" THEN MealCnt' = saved /\ restored' = IF saved = NoCart THEN 0 ELSE 1
                      ELSE UNCHANGED <<MealCnt, restored>>
  /\ UNCHANGED <<FloorMeal, CurFloor, next, page, here, saved, shelf, outages, visits>>

-----------------------------------------------------------------------------
(* WaitMeal: the first kind of the cart, the first place that has it, and the *)
(* meal counted out of all four counts before the arm is sent.                *)

Less(n) == (n + 255) % 256

LessIn(row, c) == [row EXCEPT ![c] = Less(@)]

Wanted  == {k \in Kinds : MealCnt[k] > 0}
Kind    == Min(Wanted)

(* Where the table of kinds has meals of kind k; FindMeal takes the first. *)
Places(k) == {p \in Floors \X Columns : DefineMeal[k].Position[p[1]][p[2]] > 0}

CountOut(t, p) ==
  [t EXCEPT ![p[1]] = [MealID    |-> @.MealID,
                       MealCount |-> Less(@.MealCount),
                       Count     |-> LessIn(@.Count, p[2])]]

Fewer(m, p) == [MealCount |-> Less(m.MealCount),
                Position  |-> [m.Position EXCEPT ![p[1]] = LessIn(@, p[2])]]

FindMeal ==
  /\ at = "find" /\ Wanted # {} /\ Places(Kind) # {}
  /\ LET p == FirstOf(Places(Kind))
     IN /\ FloorMeal' = CountOut(FloorMeal, p)
        /\ DefineMeal' = [DefineMeal EXCEPT ![Kind] = Fewer(@, p)]
        /\ here' = [Line |-> p[1], Column |-> p[2], MealID |-> Kind]
  /\ at' = "erase" /\ next' = "arm"
  /\ UNCHANGED <<CurFloor, MealCnt, page, restored>> /\ World

(* No place has the meal: WaitMeal looks again, for ever. *)
Searching == at = "find" /\ Wanted # {} /\ Places(Kind) = {} /\ UNCHANGED vars

(* The cart is empty, the sale over. *)
takeafter_meal ==
  /\ at = "find" /\ Wanted = {}
  /\ at' = "screen" /\ restored' = 0
  /\ UNCHANGED <<ram, next, page, here>> /\ World

(* What the arm takes: a meal, if one lies there. *)
Taken == [shelf EXCEPT ![here.Line].Count[here.Column] = IF @ > 0 THEN @ - 1 ELSE 0]

tookone_meal ==
  /\ at = "arm"
  /\ shelf' = Taken /\ MealCnt' = [MealCnt EXCEPT ![here.MealID] = Less(@)]
  /\ at' = "find" /\ here' = Nowhere
  /\ UNCHANGED <<FloorMeal, DefineMeal, CurFloor, next, page, flash, saved, outages,
                 visits, restored, unsaved>>

(* The arm fails, with the meal taken or not: the money goes back and the cart *)
(* is emptied (Sale, Delivery).                                                *)
takemeal_erro ==
  /\ at = "arm"
  /\ shelf' \in {shelf, Taken}
  /\ MealCnt' = NoCart /\ restored' = 0 /\ at' = "screen" /\ here' = Nowhere
  /\ UNCHANGED <<FloorMeal, DefineMeal, CurFloor, next, page, flash, saved, outages,
                 visits, unsaved>>

-----------------------------------------------------------------------------
(* The voltage falls, PVD_IRQHandler saves the cart, and the power goes.  Of a *)
(* table being erased or programmed any bytes are left, and a meal the arm is  *)
(* after is taken or not.  What is in RAM is lost: hardfawreInit starts from   *)
(* zeros.  (A byte that held 0 is left as erased: the start reads both alike.) *)

Left(t, ids, sums, cells) ==
  [f \in Floors |->
     [MealID    |-> IF f \in ids THEN t[f].MealID ELSE Blank,
      MealCount |-> IF f \in sums THEN t[f].MealCount ELSE Blank,
      Count     |-> [c \in Columns |-> IF <<f, c>> \in cells THEN t[f].Count[c] ELSE Blank]]]

PVD_IRQHandler ==
  /\ at # "off" /\ outages < MaxOutages
  /\ outages' = outages + 1
  /\ saved' = MealCnt
  /\ at' = "off" /\ next' = "boot" /\ page' = "menu" /\ here' = Nowhere
  /\ FloorMeal' = [f \in Floors |-> Shelf0] /\ DefineMeal' = NoMeals
  /\ CurFloor' = NoFloor /\ MealCnt' = NoCart /\ restored' = 0
  /\ IF at \in {"erase", "program"}
     THEN LET t == IF at = "erase" THEN flash ELSE FloorMeal
          IN \E ids   \in SUBSET {f \in Floors : Clean(t[f].MealID) # 0},
                sums  \in SUBSET {f \in Floors : Clean(t[f].MealCount) # 0},
                cells \in SUBSET {p \in Floors \X Columns : Clean(t[p[1]].Count[p[2]]) # 0} :
                flash' = Left(t, ids, sums, cells)
     ELSE UNCHANGED flash
  /\ IF at = "arm" THEN shelf' \in {shelf, Taken} ELSE UNCHANGED shelf
  /\ UNCHANGED <<visits, unsaved>>

(* hardfawreInit *)
hardfawreInit ==
  /\ at = "off"
  /\ FloorMeal' = CleanTable(flash) /\ at' = "erase"
  /\ UNCHANGED <<DefineMeal, CurFloor, MealCnt, next, page, here, flash, saved, shelf, outages, visits, restored, unsaved>>

-----------------------------------------------------------------------------
Main == SPI_FLASH_SectorErase \/ SPI_FLASH_BufferWrite \/ FindMeal \/ takeafter_meal
        \/ tookone_meal \/ takemeal_erro \/ hardfawreInit

Next == \/ PutIntoShopCart \/ ClearUserBuffer \/ Settled
        \/ EnterPassword \/ meal_num \/ floor_num \/ row_count \/ fill_or_empty
        \/ confirm \/ forget_all \/ LeaveInput
        \/ Searching \/ PVD_IRQHandler \/ Main

Spec     == Init /\ [][Next]_vars
FairSpec == Spec /\ WF_vars(Main)

-----------------------------------------------------------------------------
(* Every count stays in its byte. *)
TypeOK ==
  /\ FloorMeal \in [Floors -> Shelves] /\ flash \in [Floors -> Shelves]
  /\ DefineMeal \in [Kinds -> [MealCount : Byte, Position : [Floors -> Rows]]]
  /\ CurFloor \in [FloorNum : Floors \union {0}, MealID : Kinds \union {0}, Count : [Columns -> 0..Full]]
  /\ MealCnt \in [Kinds -> Byte] /\ saved \in [Kinds -> Byte]
  /\ at \in {"screen", "find", "erase", "program", "arm", "off"}
  /\ next \in {"confirm", "forget", "arm", "boot"} /\ page \in {"menu", "input"}
  /\ here \in [Line : Nat, Column : Nat, MealID : Kinds \union {0}]
  /\ shelf \in [Floors -> [MealID : Kinds \union {0}, Count : [Columns -> Nat]]]
  /\ outages \in 0..MaxOutages /\ visits \in 0..MaxVisits
  /\ restored \in {0, 1} /\ unsaved \subseteq Floors

(* A table never tells more than lies on the shelves: not the table in RAM,  *)
(* and not the one a start would read from flash after an outage at any      *)
(* point of a write.  Shelves whose entry an outage kept out of flash are    *)
(* excepted.                                                                 *)
Overstates(t, s, f) ==
  /\ t[f].MealID \in Kinds
  /\ \E c \in Columns : t[f].Count[c] > 0 /\ (t[f].MealID # s[f].MealID
                                                \/ t[f].Count[c] > s[f].Count[c])
NotOverstated == \A f \in Floors \ unsaved :
                   /\ at # "off" => ~Overstates(FloorMeal, shelf, f)
                   /\ ~Overstates(CleanTable(flash), shelf, f)

(* Where the arm is sent for a meal, a meal of the kind that was sold lies. *)
ArmFindsMeal ==
  at = "arm" /\ here.Line \notin unsaved =>
    /\ shelf[here.Line].MealID = here.MealID
    /\ shelf[here.Line].Count[here.Column] > 0

(* The meals of a cart that a customer filled can all be found, so that      *)
(* WaitMeal does not search for ever; a cart that came from the backup       *)
(* registers, or a table of which a torn write left sums and columns that    *)
(* disagree, is excepted.                                                    *)
Consistent(t)   == \A f \in Floors : t[f].MealCount = Sum(t[f].Count)
Findable(k)     == SumFunction([f \in Floors |-> SumFunction(DefineMeal[k].Position[f])])
Trusted         == restored = 0 /\ Consistent(FloorMeal)
CartCanBeFound  == at \in {"screen", "find"} /\ Trusted => \A k \in Kinds : MealCnt[k] <= Findable(k)

(* And such a sale comes to its end, or to the start after an outage. *)
SaleEnds == (at = "find" /\ Trusted) ~> (at = "screen")
=============================================================================
