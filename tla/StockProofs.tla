----------------------------- MODULE StockProofs ----------------------------
(***************************************************************************)
(* Theorems about Stock, for any number of shelves, columns, kinds, meals  *)
(* in a column, visits and outages.  For NotOverstated and ArmFindsMeal the *)
(* places and the columns carry the argument (StockInv); CartCanBeFound is  *)
(* about sums, of which the facts needed are proved first.                  *)
(***************************************************************************)
EXTENDS Stock, TLAPS, WellFoundedInduction, FiniteSetTheorems

(* What SumFunction computes of the subsets of the domain of a function. *)
One(s)          == CHOOSE x \in s : TRUE
Adds(h, g, S)   == h = [s \in SUBSET S |-> IF s = {} THEN 0 ELSE g[One(s)] + h[s \ {One(s)}]]
Partial(g, S)   == CHOOSE h : Adds(h, g, S)

LEMMA SumIsPartial == \A g : SumFunction(g) = Partial(g, DOMAIN g)[DOMAIN g]
BY DEF SumFunction, SumFunctionOnSet, FoldFunctionOnSet, MapThenFoldSet, Partial, Adds, One

(* Of a collection of finite sets that is not empty, one contains no other. *)
LEMMA SmallestSet ==
  ASSUME NEW S, IsFiniteSet(S), NEW T, T \subseteq SUBSET S, T # {}
  PROVE  \E s \in T : \A t \in T : t \subseteq s => t = s
<1>1. FiniteSubsetsOf(S) = SUBSET S BY FS_FiniteSubsetsOfFinite
<1>2. IsWellFoundedOn(StrictSubsetOrdering(S), SUBSET S) BY <1>1, FS_StrictSubsetOrderingWellFounded
<1>3. PICK s \in T : \A t \in T : ~(<<t, s>> \in StrictSubsetOrdering(S)) BY <1>2, WFMin
<1>4. ASSUME NEW t \in T, t \subseteq s, t # s PROVE FALSE
  <2>1. <<t, s>> \in (SUBSET S) \X (SUBSET S) OBVIOUS
  <2>2. <<t, s>> \in StrictSubsetOrdering(S) BY <1>4, <2>1 DEF StrictSubsetOrdering
  <2> QED BY <1>3, <2>2
<1> QED BY <1>4

LEMMA OneIn == \A s : s # {} => One(s) \in s
BY DEF One

LEMMA AddsOf ==
  ASSUME NEW h, NEW g, NEW S, Adds(h, g, S)
  PROVE  \A s \in SUBSET S : h[s] = IF s = {} THEN 0 ELSE g[One(s)] + h[s \ {One(s)}]
BY DEF Adds

(* At most one function adds up so, *)
LEMMA AddsOnce ==
  ASSUME NEW g, NEW S, IsFiniteSet(S), NEW h, NEW k, NEW R, Adds(h, g, S), Adds(k, g, R), R \subseteq S
  PROVE  \A s \in SUBSET R : h[s] = k[s]
<1> DEFINE Bad == {s \in SUBSET R : h[s] # k[s]}
<1> SUFFICES ASSUME Bad # {} PROVE FALSE OBVIOUS
<1>1. Bad \subseteq SUBSET S OBVIOUS
<1>2. PICK s \in Bad : \A t \in Bad : t \subseteq s => t = s
  <2> HIDE DEF Bad
  <2> QED BY <1>1, SmallestSet
<1>3. s \in SUBSET R /\ s \in SUBSET S OBVIOUS
<1>4. h[s] = (IF s = {} THEN 0 ELSE g[One(s)] + h[s \ {One(s)}])
  <2> HIDE DEF Bad
  <2> QED BY <1>3, AddsOf
<1>5. k[s] = (IF s = {} THEN 0 ELSE g[One(s)] + k[s \ {One(s)}])
  <2> HIDE DEF Bad
  <2> QED BY <1>3, AddsOf
<1>6. s # {} BY <1>4, <1>5
<1>7. s \ {One(s)} \notin Bad
  <2>1. s \ {One(s)} # s BY <1>6, OneIn
  <2> QED BY <1>2, <2>1
<1>8. h[s \ {One(s)}] = k[s \ {One(s)}] BY <1>3, <1>7
<1> QED BY <1>4, <1>5, <1>6, <1>8

(* and one does. *)
LEMMA PartialAdds ==
  ASSUME NEW g, NEW S, IsFiniteSet(S)
  PROVE  Adds(Partial(g, S), g, S)
<1> DEFINE Bad == {s \in SUBSET S : ~ Adds(Partial(g, s), g, s)}
<1> SUFFICES ASSUME Bad # {} PROVE FALSE OBVIOUS
<1>1. PICK u \in Bad : \A t \in Bad : t \subseteq u => t = u
  <2>1. Bad \subseteq SUBSET S OBVIOUS
  <2> HIDE DEF Bad
  <2> QED BY <2>1, SmallestSet
<1>2. u \subseteq S /\ ~ Adds(Partial(g, u), g, u) OBVIOUS
<1>3. ASSUME NEW t, t \subseteq u, t # u PROVE Adds(Partial(g, t), g, t)
  BY <1>1, <1>2, <1>3
<1>4. \A s \in SUBSET S : IsFiniteSet(s) BY FS_Subset
<1> DEFINE At(s) == Partial(g, s)[s]
           H == [s \in SUBSET u |-> IF s = {} THEN 0 ELSE g[One(s)] + At(s \ {One(s)})]
<1>5. ASSUME NEW s, s \subseteq u, s # u PROVE H[s] = At(s)
  <2>1. Adds(Partial(g, s), g, s) BY <1>3, <1>5
  <2>2. At(s) = IF s = {} THEN 0 ELSE g[One(s)] + Partial(g, s)[s \ {One(s)}] BY <2>1, AddsOf
  <2>3. CASE s = {} BY <2>2, <2>3
  <2>4. CASE s # {}
    <3> DEFINE t == s \ {One(s)}
    <3>1. t \subseteq s /\ t # u BY <1>5, <2>4, OneIn
    <3>2. Adds(Partial(g, t), g, t) BY <1>3, <1>5, <3>1
    <3>3. Partial(g, s)[t] = At(t) BY <1>2, <1>4, <1>5, <2>1, <3>1, <3>2, AddsOnce
    <3> QED BY <1>5, <2>2, <2>4, <3>3
  <2> QED BY <2>3, <2>4
<1>6. H = [s \in SUBSET u |-> IF s = {} THEN 0 ELSE g[One(s)] + H[s \ {One(s)}]]
  <2>1. ASSUME NEW s \in SUBSET u, s # {} PROVE At(s \ {One(s)}) = H[s \ {One(s)}]
    <3>1. s \ {One(s)} \subseteq u /\ s \ {One(s)} # u BY <2>1, OneIn
    <3> HIDE DEF H, At
    <3> QED BY <1>5, <3>1
  <2> DEFINE K == [s \in SUBSET u |-> IF s = {} THEN 0 ELSE g[One(s)] + H[s \ {One(s)}]]
  <2>2. \A s \in SUBSET u : H[s] = K[s] BY <2>1
  <2>3. H = K
    <3>1. H = [s \in SUBSET u |-> H[s]] OBVIOUS
    <3>2. K = [s \in SUBSET u |-> K[s]] OBVIOUS
    <3> HIDE DEF H, K
    <3> QED BY <2>2, <3>1, <3>2
  <2> QED BY <2>3
<1>7. Adds(H, g, u)
  <2> HIDE DEF H
  <2> QED BY <1>6 DEF Adds
<1>8. Adds(Partial(g, u), g, u)
  <2> HIDE DEF H
  <2> QED BY <1>7 DEF Partial
<1> QED BY <1>2, <1>8

LEMMA PartialOf ==
  ASSUME NEW g, NEW S, IsFiniteSet(S)
  PROVE  \A s \in SUBSET S :
           Partial(g, S)[s] = IF s = {} THEN 0 ELSE g[One(s)] + Partial(g, S)[s \ {One(s)}]
BY PartialAdds, AddsOf

LEMMA PartialEmpty == \A g, S : IsFiniteSet(S) => Partial(g, S)[{}] = 0
BY PartialOf

(* The sums of whole numbers are whole. *)
LEMMA PartialType ==
  ASSUME NEW S, IsFiniteSet(S), NEW g \in [S -> Nat]
  PROVE  \A s \in SUBSET S : Partial(g, S)[s] \in Nat
<1> DEFINE Bad == {s \in SUBSET S : Partial(g, S)[s] \notin Nat}
<1> SUFFICES ASSUME Bad # {} PROVE FALSE OBVIOUS
<1>1. PICK s \in Bad : \A t \in Bad : t \subseteq s => t = s
  <2>1. Bad \subseteq SUBSET S OBVIOUS
  <2> HIDE DEF Bad
  <2> QED BY <2>1, SmallestSet
<1>2. Partial(g, S)[s] = IF s = {} THEN 0 ELSE g[One(s)] + Partial(g, S)[s \ {One(s)}] BY PartialOf
<1>3. CASE s = {} BY <1>2, <1>3
<1>4. CASE s # {}
  <2>1. One(s) \in s /\ One(s) \in S BY <1>4, OneIn
  <2>2. s \ {One(s)} \notin Bad BY <1>1, <2>1
  <2>3. Partial(g, S)[s \ {One(s)}] \in Nat BY <2>2
  <2> QED BY <1>2, <1>4, <2>1, <2>3
<1> QED BY <1>3, <1>4

(* It does not matter which number is added first. *)
LEMMA PartialAny ==
  ASSUME NEW S, IsFiniteSet(S), NEW g \in [S -> Nat]
  PROVE  \A s \in SUBSET S : \A x \in s : Partial(g, S)[s] = g[x] + Partial(g, S)[s \ {x}]
<1> DEFINE P(s) == Partial(g, S)[s]
           Bad == {s \in SUBSET S : ~ \A x \in s : P(s) = g[x] + P(s \ {x})}
<1> SUFFICES ASSUME Bad # {} PROVE FALSE OBVIOUS
<1>1. PICK s \in Bad : \A t \in Bad : t \subseteq s => t = s
  <2>1. Bad \subseteq SUBSET S OBVIOUS
  <2> HIDE DEF Bad
  <2> QED BY <2>1, SmallestSet
<1>2. PICK x \in s : P(s) # g[x] + P(s \ {x}) OBVIOUS
<1> DEFINE y == One(s)
<1>3. y \in s /\ s \subseteq S BY OneIn
<1>4. P(s) = g[y] + P(s \ {y}) BY <1>3, PartialOf
<1>5. x # y BY <1>2, <1>4
<1>6. s \ {x} \notin Bad /\ s \ {y} \notin Bad BY <1>1, <1>3
<1>7. P(s \ {y}) = g[x] + P((s \ {y}) \ {x}) BY <1>3, <1>5, <1>6
<1>8. P(s \ {x}) = g[y] + P((s \ {x}) \ {y}) BY <1>3, <1>5, <1>6
<1>9. (s \ {x}) \ {y} = (s \ {y}) \ {x} OBVIOUS
<1> DEFINE n == P((s \ {y}) \ {x})
<1>10. n \in Nat /\ g[x] \in Nat /\ g[y] \in Nat BY <1>3, PartialType
<1>11. P(s) = g[y] + (g[x] + n) /\ P(s \ {x}) = g[y] + n BY <1>4, <1>7, <1>8, <1>9
<1> HIDE DEF P, y, n, Bad
<1> QED BY <1>2, <1>10, <1>11

(* Where no number is greater, no sum is. *)
LEMMA PartialMore ==
  ASSUME NEW S, IsFiniteSet(S), NEW g \in [S -> Nat], NEW h \in [S -> Nat]
  PROVE  \A s \in SUBSET S : (\A x \in s : g[x] <= h[x]) => Partial(g, S)[s] <= Partial(h, S)[s]
<1> DEFINE P(s) == Partial(g, S)[s]
           Q(s) == Partial(h, S)[s]
           Bad == {s \in SUBSET S : ~ ((\A x \in s : g[x] <= h[x]) => P(s) <= Q(s))}
<1> SUFFICES ASSUME Bad # {} PROVE FALSE OBVIOUS
<1>1. PICK s \in Bad : \A t \in Bad : t \subseteq s => t = s
  <2>1. Bad \subseteq SUBSET S OBVIOUS
  <2> HIDE DEF Bad
  <2> QED BY <2>1, SmallestSet
<1>2. (\A x \in s : g[x] <= h[x]) /\ ~(P(s) <= Q(s)) /\ s \in SUBSET S OBVIOUS
<1>3. P({}) = 0 /\ Q({}) = 0 BY PartialEmpty
<1>4. PICK y \in s : TRUE BY <1>2, <1>3
<1>5. s \ {y} \notin Bad BY <1>1, <1>4
<1>6. P(s \ {y}) <= Q(s \ {y}) BY <1>2, <1>5
<1>7. P(s) = g[y] + P(s \ {y}) BY <1>2, PartialAny
<1>8. Q(s) = h[y] + Q(s \ {y}) BY <1>2, PartialAny
<1>9. P(s \ {y}) \in Nat /\ Q(s \ {y}) \in Nat /\ g[y] \in Nat /\ h[y] \in Nat BY <1>2, PartialType
<1>10. g[y] <= h[y] BY <1>2
<1> HIDE DEF P, Q, Bad
<1> QED BY <1>2, <1>6, <1>7, <1>8, <1>9, <1>10

(* The same for SumFunction. *)
LEMMA SumType ==
  ASSUME NEW S, IsFiniteSet(S), NEW g \in [S -> Nat]
  PROVE  SumFunction(g) \in Nat
<1>1. DOMAIN g = S OBVIOUS
<1> QED BY <1>1, SumIsPartial, PartialType

LEMMA SumMore ==
  ASSUME NEW S, IsFiniteSet(S), NEW g \in [S -> Nat], NEW h \in [S -> Nat], \A x \in S : g[x] <= h[x]
  PROVE  SumFunction(g) <= SumFunction(h)
<1>1. DOMAIN g = S /\ DOMAIN h = S OBVIOUS
<1>2. Partial(g, S)[S] <= Partial(h, S)[S] BY PartialMore
<1> QED BY <1>1, <1>2, SumIsPartial

LEMMA SumZero ==
  ASSUME NEW S, IsFiniteSet(S), NEW g \in [S -> Nat], \A x \in S : g[x] = 0
  PROVE  SumFunction(g) = 0
<1> DEFINE Bad == {s \in SUBSET S : Partial(g, S)[s] # 0}
<1> SUFFICES ASSUME Bad # {} PROVE FALSE
  <2>1. DOMAIN g = S OBVIOUS
  <2> QED BY <2>1, SumIsPartial
<1>1. PICK s \in Bad : \A t \in Bad : t \subseteq s => t = s
  <2>1. Bad \subseteq SUBSET S OBVIOUS
  <2> HIDE DEF Bad
  <2> QED BY <2>1, SmallestSet
<1>2. s \in SUBSET S /\ Partial(g, S)[s] # 0 OBVIOUS
<1>3. PICK y \in s : TRUE BY <1>2, PartialEmpty
<1>4. s \ {y} \notin Bad BY <1>1, <1>3
<1>5. Partial(g, S)[s \ {y}] = 0 BY <1>2, <1>4
<1>6. Partial(g, S)[s] = g[y] + Partial(g, S)[s \ {y}]
  <2> HIDE DEF Bad
  <2> QED BY <1>2, PartialAny
<1>7. g[y] = 0 BY <1>2
<1> HIDE DEF Bad
<1> QED BY <1>2, <1>5, <1>6, <1>7

(* One number changes the sum by as much as it is changed. *)
LEMMA SumChange ==
  ASSUME NEW S, IsFiniteSet(S), NEW g \in [S -> Nat], NEW h \in [S -> Nat], NEW x \in S,
         \A y \in S : y # x => h[y] = g[y]
  PROVE  SumFunction(h) - h[x] = SumFunction(g) - g[x]
<1>1. DOMAIN g = S /\ DOMAIN h = S OBVIOUS
<1> DEFINE R == S \ {x}
<1>2. Partial(g, S)[S] = g[x] + Partial(g, S)[R] BY PartialAny
<1>3. Partial(h, S)[S] = h[x] + Partial(h, S)[R] BY PartialAny
<1>4. Partial(g, S)[R] \in Nat /\ Partial(h, S)[R] \in Nat BY PartialType
<1>5. Partial(g, S)[R] <= Partial(h, S)[R] BY PartialMore
<1>6. Partial(h, S)[R] <= Partial(g, S)[R] BY PartialMore
<1> QED BY <1>1, <1>2, <1>3, <1>4, <1>5, <1>6, SumIsPartial

-----------------------------------------------------------------------------
(* A table of shelves with kinds from a set. *)
IsTable(t, ids) == /\ t = [f \in Floors |-> t[f]]
                   /\ \A f \in Floors : t[f].MealID \in ids /\ t[f].Count \in Rows
Ids == 0..KindNum

Shape ==
  /\ IsTable(FloorMeal, Ids) /\ IsTable(flash, Ids \union {Blank})
  /\ DefineMeal = [k \in Kinds |-> DefineMeal[k]]
  /\ \A k \in Kinds : DefineMeal[k].Position \in [Floors -> Rows]
  /\ CurFloor \in [FloorNum : 0..FloorMealNum, MealID : Ids, Count : Rows]
  /\ shelf \in [Floors -> [MealID : Ids, Count : [Columns -> Nat]]]

(* The places are those of the table, *)
Fresh == \A k \in Kinds, f \in Floors :
           DefineMeal[k].Position[f] = IF FloorMeal[f].MealID = k THEN FloorMeal[f].Count ELSE Zero

(* except after all was forgotten, when no kind is offered and the cart is   *)
(* empty, and during a start.                                                *)
Writing == at \in {"erase", "program"}
NoKinds == \A f \in Floors : FloorMeal[f].MealID = 0
Forgotten == /\ NoKinds /\ MealCnt = NoCart
             /\ \/ Writing /\ next = "forget"
                \/ at = "screen" /\ \A k \in Kinds : DefineMeal[k].MealCount = 0
Starting == /\ (at = "off" \/ Writing) /\ next = "boot"
            /\ \A k \in Kinds, f \in Floors : DefineMeal[k].Position[f] = Zero
PlacesOK  == Fresh \/ Forgotten \/ Starting

Alone == page = "input" =>
           MealCnt = NoCart /\ (at = "screen" \/ (Writing /\ next \in {"confirm", "forget"}))

Sent ==
  at = "arm" \/ (Writing /\ next = "arm") =>
    /\ here.Line \in Floors /\ here.Column \in Columns /\ here.MealID \in Kinds
    /\ here.Line \notin unsaved =>
         /\ shelf[here.Line].MealID = here.MealID /\ FloorMeal[here.Line].MealID = here.MealID
         /\ FloorMeal[here.Line].Count[here.Column] < shelf[here.Line].Count[here.Column]

Told ==
  Writing =>
    /\ next = "confirm" /\ CurFloor.FloorNum \in Floors =>
         ~Overstates(FloorMeal, shelf, CurFloor.FloorNum)
    /\ next = "forget" => NoKinds

Truth == \A f \in Floors \ unsaved : /\ ~Overstates(FloorMeal, shelf, f)
                                      /\ ~Overstates(CleanTable(flash), shelf, f)

Kept == /\ at = "arm" => flash = FloorMeal
        /\ at = "off" => Starting

StockInv == Shape /\ PlacesOK /\ Alone /\ Sent /\ Told /\ Truth /\ Kept

-----------------------------------------------------------------------------
(* A set of natural numbers that is not empty has a least element. *)
LEMMA MinIn ==
  ASSUME NEW S, S \subseteq Nat, S # {}
  PROVE  Min(S) \in S /\ \A y \in S : Min(S) <= y
  <1> DEFINE R == {ss \in Nat \X Nat : ss[1] < ss[2]}
  <1>1. IsWellFoundedOn(R, Nat)
    BY NatLessThanWellFounded DEF OpToRel
  <1>2. PICK x \in S : \A y \in S : <<y, x>> \notin R
    BY <1>1, WFMin
  <1>3. ASSUME NEW y \in S PROVE x <= y
    <2>1. x \in Nat /\ y \in Nat
      OBVIOUS
    <2>2. <<y, x>> \in Nat \X Nat /\ <<y, x>>[1] = y /\ <<y, x>>[2] = x
      BY <2>1
    <2>3. ~(y < x)
      BY <1>2, <2>2
    <2> QED
      BY <2>1, <2>3
  <1> QED
    BY <1>3 DEF Min

LEMMA NotMore ==
  ASSUME NEW a \in Nat, NEW b \in Nat, ~(a > b)
  PROVE  a <= b
  OBVIOUS

LEMMA OneLess ==
  ASSUME NEW a \in 1..255, NEW b \in Nat, a <= b
  PROVE  a - 1 < b
  OBVIOUS

LEMMA ExceptFacts ==
  ASSUME NEW S, NEW d, d = [k \in S |-> d[k]], NEW j \in S, NEW v, NEW e, e = [d EXCEPT ![j] = v]
  PROVE  e[j] = v /\ \A k \in S : k # j => e[k] = d[k]
  OBVIOUS

LEMMA FirstIn ==
  ASSUME NEW S, S \subseteq Floors \X Columns, S # {}
  PROVE  FirstOf(S) \in S
  <1> DEFINE lines == {p[1] : p \in S}
             line  == Min(lines)
             cols  == {p[2] : p \in {q \in S : q[1] = line}}
  <1>1. line \in lines
    <2>1. lines \subseteq Nat /\ lines # {}
      BY DEF Floors
    <2> QED
      BY <2>1, MinIn
  <1>2. PICK q \in S : q[1] = line
    BY <1>1
  <1>3. cols \subseteq Nat /\ cols # {}
    BY <1>2, StockAssumption
  <1>4. Min(cols) \in cols
    <2> HIDE DEF cols
    <2> QED
      BY <1>3, MinIn
  <1>5. PICK r \in S : r[1] = line /\ r[2] = Min(cols)
    BY <1>4
  <1>6. r = <<line, Min(cols)>>
    BY <1>5
  <1> QED
    BY <1>5, <1>6 DEF FirstOf

(* What a start makes of a table tells no more than the table, also of one that *)
(* was written in part.                                                         *)
LEMMA CleanFacts ==
  ASSUME NEW t, NEW s, IsTable(t, Ids \union {Blank})
  PROVE  /\ IsTable(CleanTable(t), Ids)
         /\ \A f \in Floors : ~Overstates(t, s, f) => ~Overstates(CleanTable(t), s, f)
  <1>1. \A b \in Byte : Clean(b) \in Byte /\ (Clean(b) > 0 => Clean(b) = b)
    BY DEF Clean, Byte, Blank
  <1>2. \A b \in Ids \union {Blank} : Clean(b) \in Ids /\ (Clean(b) \in Kinds => Clean(b) = b)
    BY StockAssumption DEF Clean, Blank, Ids, Kinds
  <1>3. ASSUME NEW f \in Floors
        PROVE  /\ CleanTable(t)[f].MealID = Clean(t[f].MealID)
               /\ CleanTable(t)[f].Count = [c \in Columns |-> Clean(t[f].Count[c])]
    BY DEF CleanTable
  <1>4. IsTable(CleanTable(t), Ids)
    <2>1. CleanTable(t) = [f \in Floors |-> CleanTable(t)[f]]
      BY DEF CleanTable
    <2>2. ASSUME NEW f \in Floors
          PROVE  CleanTable(t)[f].MealID \in Ids /\ CleanTable(t)[f].Count \in Rows
      <3>1. t[f].MealID \in Ids \union {Blank} /\ t[f].Count \in [Columns -> Byte]
        BY DEF IsTable, Rows
      <3>2. \A c \in Columns : Clean(t[f].Count[c]) \in Byte
        BY <1>1, <3>1
      <3> QED
        BY <1>2, <1>3, <3>1, <3>2 DEF Rows
    <2> QED
      BY <2>1, <2>2 DEF IsTable
  <1>5. ASSUME NEW f \in Floors, Overstates(CleanTable(t), s, f)
        PROVE  Overstates(t, s, f)
    <2>1. t[f].MealID \in Ids \union {Blank} /\ t[f].Count \in [Columns -> Byte]
      BY DEF IsTable, Rows
    <2>2. t[f].MealID = CleanTable(t)[f].MealID /\ t[f].MealID \in Kinds
      BY <1>2, <1>3, <1>5, <2>1 DEF Overstates
    <2>3. PICK c \in Columns : /\ CleanTable(t)[f].Count[c] > 0
                               /\ (t[f].MealID # s[f].MealID \/ CleanTable(t)[f].Count[c] > s[f].Count[c])
      BY <1>5, <2>2 DEF Overstates
    <2>4. t[f].Count[c] = CleanTable(t)[f].Count[c]
      <3>1. t[f].Count[c] \in Byte /\ CleanTable(t)[f].Count[c] = Clean(t[f].Count[c])
        BY <1>3, <2>1
      <3> QED
        BY <1>1, <2>3, <3>1
    <2> QED
      BY <2>2, <2>3, <2>4 DEF Overstates
  <1> QED
    BY <1>4, <1>5

LEMMA LeftFacts ==
  ASSUME NEW t, NEW s, IsTable(t, Ids \union {Blank}), NEW ids, NEW sums, NEW cells
  PROVE  /\ IsTable(Left(t, ids, sums, cells), Ids \union {Blank})
         /\ \A f \in Floors : ~Overstates(CleanTable(t), s, f)
                              => ~Overstates(CleanTable(Left(t, ids, sums, cells)), s, f)
  <1> DEFINE l == Left(t, ids, sums, cells)
  <1>1. ASSUME NEW f \in Floors
        PROVE  /\ l[f].MealID \in {t[f].MealID, Blank}
               /\ l[f].Count = [c \in Columns |-> IF <<f, c>> \in cells THEN t[f].Count[c] ELSE Blank]
    BY DEF Left
  <1>2. IsTable(l, Ids \union {Blank})
    <2>1. l = [f \in Floors |-> l[f]]
      BY DEF Left
    <2>2. ASSUME NEW f \in Floors
          PROVE  l[f].MealID \in Ids \union {Blank} /\ l[f].Count \in Rows
      <3>1. t[f].MealID \in Ids \union {Blank} /\ t[f].Count \in [Columns -> Byte]
        BY DEF IsTable, Rows
      <3>2. Blank \in Byte
        BY DEF Blank, Byte
      <3>3. \A c \in Columns : (IF <<f, c>> \in cells THEN t[f].Count[c] ELSE Blank) \in Byte
        BY <3>1, <3>2
      <3> QED
        BY <1>1, <3>1, <3>3 DEF Rows
    <2> HIDE DEF l
    <2> QED
      BY <2>1, <2>2 DEF IsTable
  <1> HIDE DEF l
  <1>3. Clean(Blank) = 0 /\ 0 \notin Kinds
    BY DEF Clean, Kinds
  <1>4. ASSUME NEW f \in Floors, Overstates(CleanTable(l), s, f)
        PROVE  Overstates(CleanTable(t), s, f)
    <2>1. /\ CleanTable(l)[f].MealID = Clean(l[f].MealID) /\ CleanTable(t)[f].MealID = Clean(t[f].MealID)
          /\ \A c \in Columns : /\ CleanTable(l)[f].Count[c] = Clean(l[f].Count[c])
                                 /\ CleanTable(t)[f].Count[c] = Clean(t[f].Count[c])
      BY DEF CleanTable
    <2>2. CleanTable(l)[f].MealID = CleanTable(t)[f].MealID
      BY <1>1, <1>3, <1>4, <2>1 DEF Overstates
    <2>3. PICK c \in Columns : /\ CleanTable(l)[f].Count[c] > 0
                               /\ (CleanTable(l)[f].MealID # s[f].MealID
                                   \/ CleanTable(l)[f].Count[c] > s[f].Count[c])
      BY <1>4 DEF Overstates
    <2>4. CleanTable(l)[f].Count[c] = CleanTable(t)[f].Count[c]
      <3>1. l[f].Count[c] = IF <<f, c>> \in cells THEN t[f].Count[c] ELSE Blank
        BY <1>1
      <3>2. CASE <<f, c>> \in cells
        BY <2>1, <3>1, <3>2
      <3>3. CASE <<f, c>> \notin cells
        BY <1>3, <2>1, <2>3, <3>1, <3>3
      <3> QED
        BY <3>2, <3>3
    <2> QED
      BY <1>4, <2>2, <2>3, <2>4 DEF Overstates
  <1> QED
    BY <1>2, <1>4 DEF l

LEMMA FloorsFinite == IsFiniteSet(Floors)
  BY FS_Interval, StockAssumption DEF Floors

(* StatisticsTotal makes the places those of the table, where they are so   *)
(* already or were cleared; and without kinds there is nothing to offer.    *)
LEMMA StatisticsFacts ==
  ASSUME NEW t, NEW m, NEW k \in Kinds, NEW f \in Floors
  PROVE  /\ StatisticsTotal(t, m)[k].Position[f] = IF t[f].MealID = k THEN t[f].Count ELSE m[k].Position[f]
         /\ (\A g \in Floors : t[g].MealID = 0) => StatisticsTotal(t, m)[k].MealCount = 0
  <1>1. ASSUME \A g \in Floors : t[g].MealID = 0
        PROVE  Total(t, k) = 0
    <2> DEFINE sums == [g \in Floors |-> IF t[g].MealID = k THEN t[g].MealCount ELSE 0]
    <2>1. k # 0
      BY DEF Kinds
    <2>2. sums \in [Floors -> Nat] /\ \A g \in Floors : sums[g] = 0
      BY <1>1, <2>1
    <2>3. SumFunction(sums) = 0
      <3> HIDE DEF sums
      <3> QED
        BY <2>2, FloorsFinite, SumZero
    <2> QED
      BY <2>3 DEF Total
  <1> QED
    BY <1>1 DEF StatisticsTotal

-----------------------------------------------------------------------------
LEMMA StockInvInit == Init => StockInv
  <1> SUFFICES ASSUME Init PROVE StockInv
    OBVIOUS
  <1> USE StockAssumption
  <1>1. 0 \in Byte /\ Zero \in Rows /\ 0 \notin Kinds
    BY DEF Byte, Zero, Rows, Kinds
  <1>2. Shape
    <2>1. IsTable(FloorMeal, Ids) /\ IsTable(flash, Ids \union {Blank})
      BY <1>1 DEF Init, IsTable, Shelf0, Ids
    <2>2. /\ DefineMeal = [k \in Kinds |-> DefineMeal[k]]
          /\ \A k \in Kinds : DefineMeal[k].Position \in [Floors -> Rows]
      BY <1>1 DEF Init, NoMeals
    <2>3. CurFloor \in [FloorNum : 0..FloorMealNum, MealID : Ids, Count : Rows]
      BY <1>1 DEF Init, NoFloor, Ids
    <2>4. shelf \in [Floors -> [MealID : Ids, Count : [Columns -> Nat]]]
      BY DEF Init, Bare, Ids, Zero
    <2> QED
      BY <2>1, <2>2, <2>3, <2>4 DEF Shape
  <1>3. Truth
    <2>1. ASSUME NEW f \in Floors
          PROVE  FloorMeal[f].MealID = 0 /\ CleanTable(flash)[f].MealID = 0
      BY DEF Init, Shelf0, CleanTable, Clean, Blank
    <2> QED
      BY <1>1, <2>1 DEF Truth, Overstates
  <1>4. Fresh
    BY <1>1 DEF Init, Fresh, NoMeals, Shelf0
  <1> QED
    BY <1>2, <1>3, <1>4 DEF Init, StockInv, PlacesOK, Alone, Sent, Told, Kept, Writing

(* The types of what InitSetting shows. *)
LEMMA SettingIn ==
  ASSUME Shape, NEW k, NEW n \in 0..FloorMealNum
  PROVE  InitSetting(k, n) \in Rows
  <1>1. Zero \in Rows
    BY DEF Zero, Rows, Byte
  <1> QED
    BY <1>1 DEF Shape, IsTable, InitSetting

(* The technician's page changes nothing but what it shows. *)
LEMMA EnteringStep ==
  ASSUME StockInv, Entering,
         CurFloor' \in [FloorNum : 0..FloorMealNum, MealID : Ids, Count : Rows]
  PROVE  StockInv'
  <1> USE DEF Entering, Screen, World, main
  <1>1. Shape' /\ Truth'
    BY DEF StockInv, Shape, Truth
  <1>2. PlacesOK'
    BY DEF StockInv, PlacesOK, Fresh, Forgotten, Starting, NoKinds, Writing
  <1>3. Alone' /\ Sent' /\ Told' /\ Kept'
    BY DEF StockInv, Alone, Sent, Told, Kept, Writing
  <1> QED
    BY <1>1, <1>2, <1>3 DEF StockInv

LEMMA EnteringActions ==
  ASSUME StockInv, meal_num \/ floor_num \/ row_count \/ fill_or_empty
  PROVE  StockInv'
  <1> USE StockAssumption
  <1>1. Shape /\ CurFloor \in [FloorNum : 0..FloorMealNum, MealID : Ids, Count : Rows]
    BY DEF StockInv, Shape
  <1>2. Floors \subseteq 0..FloorMealNum /\ Kinds \subseteq Ids /\ 0..Full \subseteq Byte
    BY DEF Floors, Kinds, Ids, Byte
  <1>3. CASE meal_num
    <2>1. PICK k \in Kinds :
            LET Empty == {f \in Floors : FloorMeal[f].MealCount = 0}
            IN CurFloor' = [MealID   |-> k,
                            Count    |-> InitSetting(k, CurFloor.FloorNum),
                            FloorNum |-> IF Empty = {} THEN CurFloor.FloorNum ELSE Min(Empty)]
      BY <1>3 DEF meal_num
    <2> DEFINE Empty == {f \in Floors : FloorMeal[f].MealCount = 0}
    <2>2. Empty # {} => Min(Empty) \in Floors
      <3>1. Empty \subseteq Nat /\ Empty \subseteq Floors
        BY DEF Floors
      <3> HIDE DEF Empty
      <3> QED
        BY <3>1, MinIn
    <2>3. InitSetting(k, CurFloor.FloorNum) \in Rows
      BY <1>1, SettingIn
    <2>4. CurFloor' \in [FloorNum : 0..FloorMealNum, MealID : Ids, Count : Rows]
      BY <1>1, <1>2, <2>1, <2>2, <2>3
    <2> QED
      BY <1>3, <2>4, EnteringStep DEF meal_num
  <1>4. CASE floor_num
    <2>1. PICK f \in Floors : CurFloor' = [CurFloor EXCEPT !.FloorNum = f, !.Count = InitSetting(CurFloor.MealID, f)]
      BY <1>4 DEF floor_num
    <2>2. InitSetting(CurFloor.MealID, f) \in Rows
      BY <1>1, <1>2, SettingIn
    <2>3. CurFloor' \in [FloorNum : 0..FloorMealNum, MealID : Ids, Count : Rows]
      BY <1>1, <1>2, <2>1, <2>2
    <2> QED
      BY <1>4, <2>3, EnteringStep DEF floor_num
  <1>5. CASE row_count
    <2>1. PICK c \in Columns, n \in 0..Full : CurFloor' = [CurFloor EXCEPT !.Count[c] = n]
      BY <1>5 DEF row_count
    <2>2. [CurFloor.Count EXCEPT ![c] = n] \in Rows
      BY <1>1, <1>2 DEF Rows
    <2>3. CurFloor' \in [FloorNum : 0..FloorMealNum, MealID : Ids, Count : Rows]
      BY <1>1, <2>1, <2>2
    <2> QED
      BY <1>5, <2>3, EnteringStep DEF row_count
  <1>6. CASE fill_or_empty
    <2>1. PICK n \in {0, Full} : CurFloor' = [CurFloor EXCEPT !.Count = [c \in Columns |-> n]]
      BY <1>6 DEF fill_or_empty
    <2>2. [c \in Columns |-> n] \in Rows
      BY DEF Rows, Byte
    <2>3. CurFloor' \in [FloorNum : 0..FloorMealNum, MealID : Ids, Count : Rows]
      BY <1>1, <2>1, <2>2
    <2> QED
      BY <1>6, <2>3, EnteringStep DEF fill_or_empty
  <1> QED
    BY <1>3, <1>4, <1>5, <1>6

(* Nor do the customers disturb the tables. *)
LEMMA CustomerActions ==
  ASSUME StockInv, PutIntoShopCart \/ ClearUserBuffer \/ Settled \/ takeafter_meal
  PROVE  StockInv'
  <1> USE DEF Screen, World, main, ram
  <1>1. Shape' /\ Truth'
    BY DEF StockInv, Shape, Truth, PutIntoShopCart, ClearUserBuffer, Settled, takeafter_meal
  <1>2. PlacesOK'
    <2>1. CASE Fresh
      <3>1. Fresh'
        BY <2>1 DEF Fresh, PutIntoShopCart, ClearUserBuffer, Settled, takeafter_meal
      <3> QED
        BY <3>1 DEF PlacesOK
    <2>2. CASE Forgotten
      <3>2. ASSUME PutIntoShopCart PROVE FALSE
        <4>1. at = "screen" /\ \E k \in Kinds : DefineMeal[k].MealCount > 0
          BY <3>2 DEF PutIntoShopCart
        <4>2. \A k \in Kinds : DefineMeal[k].MealCount = 0
          BY <2>2, <4>1 DEF Forgotten, Writing
        <4>3. ~(0 > 0)
          OBVIOUS
        <4> QED
          BY <4>1, <4>2, <4>3
      <3> QED
        BY <2>2, <3>2 DEF Forgotten, Writing, ClearUserBuffer, Settled, takeafter_meal
    <2>3. CASE Starting
      BY <2>3 DEF Starting, Writing, PutIntoShopCart, ClearUserBuffer, Settled, takeafter_meal
    <2> QED
      BY <2>1, <2>2, <2>3 DEF StockInv, PlacesOK
  <1>3. Alone' /\ Sent' /\ Told' /\ Kept'
    BY DEF StockInv, Alone, Sent, Told, Kept, Writing, PutIntoShopCart, ClearUserBuffer, Settled, takeafter_meal
  <1> QED
    BY <1>1, <1>2, <1>3 DEF StockInv

(* Coming and going, erasing the page and doing nothing. *)
LEMMA PageActions ==
  ASSUME StockInv, Hasty = 0,
         EnterPassword \/ LeaveInput \/ SPI_FLASH_SectorErase \/ UNCHANGED vars
  PROVE  StockInv'
  <1> USE StockAssumption DEF Screen, World, main, ram, vars
  <1>0. Zero \in Rows /\ Blank \in Byte /\ 0 \in Ids /\ 0 \in 0..FloorMealNum
    BY DEF Zero, Rows, Byte, Blank, Ids
  <1>1. CurFloor' \in [FloorNum : 0..FloorMealNum, MealID : Ids, Count : Rows]
    <2>1. Shape /\ CurFloor \in [FloorNum : 0..FloorMealNum, MealID : Ids, Count : Rows]
      BY DEF StockInv, Shape
    <2>2. InitSetting(CurFloor.MealID, CurFloor.FloorNum) \in Rows
      BY <2>1, SettingIn
    <2> QED
      BY <1>0, <2>1, <2>2 DEF EnterPassword, LeaveInput, SPI_FLASH_SectorErase, NoFloor
  <1>2. IsTable(flash', Ids \union {Blank}) /\ \A f \in Floors \ unsaved : ~Overstates(CleanTable(flash'), shelf, f)
    <2>1. CASE SPI_FLASH_SectorErase
      <3>1. flash' = [f \in Floors |-> Erased]
        BY <2>1 DEF SPI_FLASH_SectorErase
      <3>2. IsTable(flash', Ids \union {Blank})
        BY <1>0, <3>1 DEF IsTable, Erased, Rows
      <3>3. \A f \in Floors : CleanTable(flash')[f].MealID = 0
        BY <3>1 DEF CleanTable, Erased, Clean
      <3>4. 0 \notin Kinds
        BY DEF Kinds
      <3> QED
        BY <3>2, <3>3, <3>4 DEF Overstates
    <2>2. CASE EnterPassword \/ LeaveInput \/ UNCHANGED vars
      BY <2>2 DEF EnterPassword, LeaveInput, StockInv, Shape, Truth
    <2> QED
      BY <2>1, <2>2
  <1>3. UNCHANGED <<FloorMeal, DefineMeal, MealCnt, next, here, shelf, unsaved>>
    BY DEF EnterPassword, LeaveInput, SPI_FLASH_SectorErase
  <1>4. Shape'
    BY <1>1, <1>2, <1>3 DEF StockInv, Shape
  <1>5. Truth'
    BY <1>2, <1>3 DEF StockInv, Truth
  <1>6. at' = at \/ (at = "erase" /\ at' = "program")
    BY DEF EnterPassword, LeaveInput, SPI_FLASH_SectorErase
  <1>7. PlacesOK'
    BY <1>3, <1>6 DEF StockInv, PlacesOK, Fresh, Forgotten, Starting, NoKinds, Writing
  <1>8. Alone' /\ Sent' /\ Kept'
    <2>1. Alone' /\ Sent'
      BY <1>3, <1>6 DEF StockInv, Alone, Sent, Writing, EnterPassword, LeaveInput, SPI_FLASH_SectorErase
    <2>2. at' \in {"arm", "off"} => at' = at /\ flash' = flash
      BY <1>6 DEF EnterPassword, LeaveInput, SPI_FLASH_SectorErase
    <2> QED
      BY <1>3, <2>1, <2>2 DEF StockInv, Kept, Starting, Writing
  <1>9. Told'
    BY <1>3, <1>6 DEF StockInv, Told, NoKinds, Writing, EnterPassword, LeaveInput, SPI_FLASH_SectorErase
  <1> QED
    BY <1>4, <1>5, <1>7, <1>8, <1>9 DEF StockInv

(* A shelf is confirmed: its entry is what lies on it. *)
LEMMA ConfirmStep ==
  ASSUME StockInv, confirm
  PROVE  StockInv'
  <1> USE StockAssumption DEF Screen
  <1>0. Zero \in Rows /\ Byte \subseteq Nat /\ Kinds \subseteq Ids
    BY DEF Zero, Rows, Byte, Kinds, Ids
  <1>1. /\ UNCHANGED <<CurFloor, MealCnt, page, here, flash>>
        /\ at = "screen" /\ at' = "erase" /\ next' = "confirm" /\ page = "input"
        /\ DefineMeal' = StatisticsTotal(FloorMeal', NoMeals)
    BY DEF confirm
  <1> DEFINE n == CurFloor.FloorNum
  <1>2. CurFloor.MealID \in Ids /\ CurFloor.Count \in [Columns -> Byte]
    BY DEF StockInv, Shape, Rows
  <1>3. \/ n \notin Floors /\ UNCHANGED <<FloorMeal, shelf, unsaved>>
        \/ /\ n \in Floors
           /\ FloorMeal' = [FloorMeal EXCEPT ![n] = Confirmed]
           /\ shelf' = [shelf EXCEPT ![n] = [MealID |-> CurFloor.MealID, Count |-> CurFloor.Count]]
           /\ unsaved' = unsaved \union {n}
    BY DEF confirm
  <1>4. Confirmed.MealID = CurFloor.MealID /\ Confirmed.Count = CurFloor.Count
    BY DEF Confirmed
  <1> HIDE DEF n
  <1>5. IsTable(FloorMeal', Ids)
    <2>1. FloorMeal' = [f \in Floors |-> FloorMeal'[f]]
      BY <1>3 DEF StockInv, Shape, IsTable
    <2>2. ASSUME NEW f \in Floors PROVE FloorMeal'[f].MealID \in Ids /\ FloorMeal'[f].Count \in Rows
      <3>1. FloorMeal = [g \in Floors |-> FloorMeal[g]] /\ FloorMeal[f].MealID \in Ids /\ FloorMeal[f].Count \in Rows
        BY DEF StockInv, Shape, IsTable
      <3>2. FloorMeal'[f] \in {FloorMeal[f], Confirmed}
        BY <1>3, <3>1
      <3> QED
        BY <1>2, <1>4, <3>1, <3>2 DEF Rows
    <2> QED
      BY <2>1, <2>2 DEF IsTable
  <1>6. shelf' \in [Floors -> [MealID : Ids, Count : [Columns -> Nat]]]
    <2>1. [MealID |-> CurFloor.MealID, Count |-> CurFloor.Count] \in [MealID : Ids, Count : [Columns -> Nat]]
      BY <1>0, <1>2
    <2>2. shelf \in [Floors -> [MealID : Ids, Count : [Columns -> Nat]]]
      BY DEF StockInv, Shape
    <2> QED
      BY <1>3, <2>1, <2>2
  <1>7. Fresh'
    <2>1. ASSUME NEW k \in Kinds, NEW f \in Floors
          PROVE  DefineMeal'[k].Position[f] = IF FloorMeal'[f].MealID = k THEN FloorMeal'[f].Count ELSE Zero
      <3>1. NoMeals[k].Position[f] = Zero
        BY DEF NoMeals
      <3> QED
        BY <1>1, <3>1, StatisticsFacts
    <2> QED
      BY <2>1 DEF Fresh
  <1>8. Shape'
    <2>1. DefineMeal' = [k \in Kinds |-> DefineMeal'[k]]
      BY <1>1 DEF StatisticsTotal
    <2>2. ASSUME NEW k \in Kinds PROVE DefineMeal'[k].Position \in [Floors -> Rows]
      <3>1. DefineMeal'[k].Position = [f \in Floors |-> DefineMeal'[k].Position[f]]
        BY <1>1 DEF StatisticsTotal
      <3>2. \A f \in Floors : DefineMeal'[k].Position[f] \in Rows
        BY <1>0, <1>5, <1>7 DEF Fresh, IsTable
      <3> QED
        BY <3>1, <3>2
    <2>3. IsTable(flash', Ids \union {Blank}) /\ CurFloor' \in [FloorNum : 0..FloorMealNum, MealID : Ids, Count : Rows]
      BY <1>1 DEF StockInv, Shape
    <2> QED
      BY <1>5, <1>6, <2>1, <2>2, <2>3 DEF Shape
  <1>9. Truth'
    <2>1. ASSUME NEW f \in Floors \ unsaved'
          PROVE  ~Overstates(FloorMeal', shelf', f) /\ ~Overstates(CleanTable(flash), shelf', f)
      <3>1. f \notin unsaved /\ FloorMeal'[f] = FloorMeal[f] /\ shelf'[f] = shelf[f]
        BY <1>3, <2>1 DEF StockInv, Shape, IsTable
      <3>2. ~Overstates(FloorMeal, shelf, f) /\ ~Overstates(CleanTable(flash), shelf, f)
        BY <3>1 DEF StockInv, Truth
      <3> QED
        BY <3>1, <3>2 DEF Overstates
    <2> QED
      BY <1>1, <2>1 DEF Truth
  <1>10. Told'
    <2>1. ASSUME n \in Floors
          PROVE  ~Overstates(FloorMeal', shelf', n)
      <3>1. FloorMeal'[n] = Confirmed /\ shelf'[n] = [MealID |-> CurFloor.MealID, Count |-> CurFloor.Count]
        BY <1>3, <2>1 DEF StockInv, Shape, IsTable
      <3>2. \A c \in Columns : CurFloor.Count[c] \in Nat
        BY <1>0, <1>2
      <3> QED
        BY <1>4, <3>1, <3>2 DEF Overstates
    <2> QED
      BY <1>1, <2>1 DEF Told, n
  <1> QED
    BY <1>1, <1>7, <1>8, <1>9, <1>10 DEF StockInv, PlacesOK, Alone, Sent, Kept, Writing

(* All is forgotten: no shelf has a kind. *)
LEMMA ForgetStep ==
  ASSUME StockInv, forget_all
  PROVE  StockInv'
  <1> USE StockAssumption DEF Screen
  <1>0. Zero \in Rows /\ 0 \notin Kinds /\ 0 \in Ids /\ Zero \in [Columns -> Nat]
    BY DEF Zero, Rows, Byte, Kinds, Ids
  <1>1. /\ UNCHANGED <<DefineMeal, CurFloor, MealCnt, page, here, flash>>
        /\ at = "screen" /\ at' = "erase" /\ next' = "forget" /\ page = "input"
        /\ FloorMeal' = [f \in Floors |-> Shelf0]
    BY DEF forget_all
  <1>2. \/ UNCHANGED <<shelf, unsaved>>
        \/ shelf' = [f \in Floors |-> Bare] /\ unsaved' = Floors
    BY DEF forget_all
  <1>3. NoKinds'
    BY <1>1 DEF NoKinds, Shelf0
  <1>4. Shape'
    <2>1. IsTable(FloorMeal', Ids)
      BY <1>0, <1>1 DEF IsTable, Shelf0
    <2>2. shelf' \in [Floors -> [MealID : Ids, Count : [Columns -> Nat]]]
      BY <1>0, <1>2 DEF StockInv, Shape, Bare
    <2> QED
      BY <1>1, <2>1, <2>2 DEF StockInv, Shape
  <1>5. Truth'
    <2>1. \A f \in Floors : ~Overstates(FloorMeal', shelf', f)
      BY <1>0, <1>3 DEF NoKinds, Overstates
    <2>2. \A f \in Floors \ unsaved' : ~Overstates(CleanTable(flash), shelf', f)
      BY <1>2 DEF StockInv, Truth
    <2> QED
      BY <1>1, <2>1, <2>2 DEF Truth
  <1>6. Forgotten'
    BY <1>1, <1>3 DEF StockInv, Alone, Forgotten, Writing
  <1>7. Told'
    BY <1>1, <1>3 DEF Told
  <1> QED
    BY <1>1, <1>4, <1>5, <1>6, <1>7 DEF StockInv, PlacesOK, Alone, Sent, Kept, Writing

(* The table is written. *)
LEMMA WriteStep ==
  ASSUME StockInv, SPI_FLASH_BufferWrite
  PROVE  StockInv'
  <1> USE StockAssumption
  <1>0. Zero \in Rows /\ 0 \notin Kinds /\ Ids \subseteq Ids \union {Blank}
    BY DEF Zero, Rows, Byte, Kinds
  <1>1. /\ UNCHANGED <<FloorMeal, CurFloor, next, page, here, shelf>>
        /\ at = "program" /\ at' = (IF next = "arm" THEN "arm" ELSE "screen")
        /\ flash' = FloorMeal /\ DefineMeal' = StatisticsTotal(FloorMeal, DefineMeal)
        /\ unsaved' = unsaved \ (IF next = "confirm" THEN {CurFloor.FloorNum}
                                  ELSE IF next = "forget" THEN Floors ELSE {})
        /\ next # "boot" => UNCHANGED MealCnt
    BY DEF SPI_FLASH_BufferWrite
  <1>2. \A k \in Kinds, f \in Floors :
          /\ DefineMeal'[k].Position[f] = IF FloorMeal[f].MealID = k THEN FloorMeal[f].Count ELSE DefineMeal[k].Position[f]
          /\ NoKinds => DefineMeal'[k].MealCount = 0
    BY <1>1, StatisticsFacts DEF NoKinds
  <1>3. IsTable(FloorMeal, Ids) /\ IsTable(FloorMeal, Ids \union {Blank})
    BY DEF StockInv, Shape, IsTable
  <1>4. Shape'
    <2>1. DefineMeal' = [k \in Kinds |-> DefineMeal'[k]]
      BY <1>1 DEF StatisticsTotal
    <2>2. ASSUME NEW k \in Kinds PROVE DefineMeal'[k].Position \in [Floors -> Rows]
      <3>1. DefineMeal'[k].Position = [f \in Floors |-> DefineMeal'[k].Position[f]]
        BY <1>1 DEF StatisticsTotal
      <3>2. \A f \in Floors : DefineMeal[k].Position[f] \in Rows /\ FloorMeal[f].Count \in Rows
        BY <1>3 DEF StockInv, Shape, IsTable
      <3>3. \A f \in Floors : DefineMeal'[k].Position[f] \in Rows
        BY <1>2, <3>2
      <3> QED
        BY <3>1, <3>3
    <2> QED
      BY <1>1, <1>3, <2>1, <2>2 DEF StockInv, Shape
  <1>5. Truth'
    <2>1. ASSUME NEW f \in Floors \ unsaved'
          PROVE  ~Overstates(FloorMeal, shelf, f)
      <3>1. CASE f \notin unsaved
        BY <3>1 DEF StockInv, Truth
      <3>2. CASE f \in unsaved /\ next = "confirm"
        BY <1>1, <2>1, <3>2 DEF StockInv, Told, Writing
      <3>3. CASE f \in unsaved /\ next = "forget"
        BY <1>0, <1>1, <3>3 DEF StockInv, Told, Writing, NoKinds, Overstates
      <3> QED
        BY <1>1, <2>1, <3>1, <3>2, <3>3
    <2>2. \A f \in Floors \ unsaved' : ~Overstates(CleanTable(FloorMeal), shelf, f)
      BY <1>3, <2>1, CleanFacts
    <2> QED
      BY <1>1, <2>1, <2>2 DEF Truth
  <1>6. PlacesOK'
    <2>1. CASE Fresh
      BY <1>1, <1>2, <2>1 DEF Fresh, PlacesOK
    <2>2. CASE Starting
      BY <1>1, <1>2, <2>2 DEF Fresh, PlacesOK, Starting
    <2>3. CASE Forgotten
      <3>1. NoKinds /\ MealCnt = NoCart /\ next = "forget"
        BY <1>1, <2>3 DEF Forgotten
      <3>2. NoKinds' /\ MealCnt' = NoCart /\ at' = "screen"
        BY <1>1, <3>1 DEF NoKinds
      <3>3. \A k \in Kinds : DefineMeal'[k].MealCount = 0
        <4>1. FloorMealNum \in Nat \ {0}
          OBVIOUS
        <4>2. 1 \in Floors
          BY <4>1 DEF Floors
        <4> QED
          BY <1>2, <3>1, <4>2
      <3> QED
        BY <3>2, <3>3 DEF Forgotten, PlacesOK
    <2> QED
      BY <2>1, <2>2, <2>3 DEF StockInv, PlacesOK
  <1>7. Alone'
    BY <1>1 DEF StockInv, Alone, Writing
  <1>8. Sent'
    <2>1. next = "arm" => unsaved' = unsaved /\ Writing
      BY <1>1 DEF Writing
    <2> QED
      BY <1>1, <2>1 DEF StockInv, Sent, Writing
  <1> QED
    BY <1>1, <1>4, <1>5, <1>6, <1>7, <1>8 DEF StockInv, Told, Kept, Writing

(* A count above 0 is counted down, and stays in its byte. *)
LEMMA LessIs ==
  ASSUME NEW n \in 1..255
  PROVE  Less(n) = n - 1 /\ n - 1 \in Byte /\ n \in Nat /\ n > 0
  BY DEF Less, Byte

LEMMA PositiveByte ==
  ASSUME NEW n \in Byte, n > 0
  PROVE  n \in 1..255
  BY DEF Byte

(* The meal found: it is of a kind in the cart, and the table has it. *)
LEMMA FoundFacts ==
  ASSUME StockInv, FindMeal
  PROVE  \E l \in Floors, c \in Columns :
           /\ Kind \in Kinds /\ MealCnt[Kind] > 0 /\ Fresh
           /\ FloorMeal[l].MealID = Kind /\ FloorMeal[l].Count[c] \in 1..255
           /\ FloorMeal' = CountOut(FloorMeal, <<l, c>>)
           /\ DefineMeal' = [DefineMeal EXCEPT ![Kind] = Fewer(@, <<l, c>>)]
           /\ here' = [Line |-> l, Column |-> c, MealID |-> Kind]
  <1> DEFINE p == FirstOf(Places(Kind))
  <1>1. Kind \in Kinds /\ MealCnt[Kind] > 0
    <2>1. Wanted \subseteq Nat /\ Wanted # {}
      BY DEF Wanted, Kinds, FindMeal
    <2>2. Kind \in Wanted
      BY <2>1, MinIn DEF Kind
    <2> QED
      BY <2>2 DEF Wanted
  <1>2. PICK l \in Floors, c \in Columns : p = <<l, c>> /\ DefineMeal[Kind].Position[l][c] > 0
    <2>1. Places(Kind) \subseteq Floors \X Columns /\ Places(Kind) # {}
      BY DEF Places, FindMeal
    <2>2. p \in Places(Kind)
      BY <2>1, FirstIn
    <2>3. p \in Floors \X Columns /\ DefineMeal[Kind].Position[p[1]][p[2]] > 0
      BY <2>2 DEF Places
    <2>4. p[1] \in Floors /\ p[2] \in Columns /\ p = <<p[1], p[2]>>
      BY <2>3
    <2> HIDE DEF p
    <2> QED
      BY <2>3, <2>4
  <1>3. /\ FloorMeal' = CountOut(FloorMeal, p)
        /\ DefineMeal' = [DefineMeal EXCEPT ![Kind] = Fewer(@, p)]
        /\ here' = [Line |-> p[1], Column |-> p[2], MealID |-> Kind]
        /\ at = "find"
    BY DEF FindMeal
  <1> HIDE DEF p
  <1>4. Fresh
    BY <1>3 DEF StockInv, PlacesOK, Forgotten, Starting, Writing
  <1>5. FloorMeal[l].MealID = Kind /\ FloorMeal[l].Count[c] \in 1..255
    <2>1. DefineMeal[Kind].Position[l] = IF FloorMeal[l].MealID = Kind THEN FloorMeal[l].Count ELSE Zero
      BY <1>1, <1>4 DEF Fresh
    <2>2. ~(Zero[c] > 0)
      BY DEF Zero
    <2>3. FloorMeal[l].MealID = Kind /\ FloorMeal[l].Count[c] > 0
      BY <1>2, <2>1, <2>2
    <2>4. FloorMeal[l].Count[c] \in Byte
      BY DEF StockInv, Shape, IsTable, Rows
    <2> QED
      BY <2>3, <2>4, PositiveByte
  <1> QED
    BY <1>1, <1>2, <1>3, <1>4, <1>5

(* A meal is found and counted out: it lies where the arm will be sent, and   *)
(* one more lies there than the table says.                                   *)
LEMMA FindStep ==
  ASSUME StockInv, FindMeal
  PROVE  StockInv'
  <1> USE StockAssumption DEF World
  <1>0. Zero \in Rows /\ Kinds \subseteq Nat /\ Byte \subseteq Nat
    BY DEF Zero, Rows, Byte, Kinds
  <1>1. PICK l \in Floors, c \in Columns :
          /\ Kind \in Kinds /\ Fresh
          /\ FloorMeal[l].MealID = Kind /\ FloorMeal[l].Count[c] \in 1..255
          /\ FloorMeal' = CountOut(FloorMeal, <<l, c>>)
          /\ DefineMeal' = [DefineMeal EXCEPT ![Kind] = Fewer(@, <<l, c>>)]
          /\ here' = [Line |-> l, Column |-> c, MealID |-> Kind]
    BY FoundFacts
  <1> DEFINE p == <<l, c>>
  <1>2. l \in Floors /\ c \in Columns
    OBVIOUS
  <1>3. /\ UNCHANGED <<CurFloor, MealCnt, page, flash, shelf, unsaved>>
        /\ at = "find" /\ at' = "erase" /\ next' = "arm"
        /\ FloorMeal' = CountOut(FloorMeal, p)
        /\ DefineMeal' = [DefineMeal EXCEPT ![Kind] = Fewer(@, p)]
        /\ here' = [Line |-> l, Column |-> c, MealID |-> Kind]
    BY <1>1 DEF FindMeal
  <1>4. /\ IsTable(FloorMeal, Ids) /\ FloorMeal = [f \in Floors |-> FloorMeal[f]]
        /\ \A f \in Floors : FloorMeal[f].Count \in [Columns -> Byte]
    BY DEF StockInv, Shape, IsTable, Rows
  <1>5. Fresh
    BY <1>1
  <1>6. FloorMeal[l].MealID = Kind /\ FloorMeal[l].Count[c] \in 1..255
    BY <1>1
  <1>7. Less(FloorMeal[l].Count[c]) = FloorMeal[l].Count[c] - 1
    BY <1>6, LessIs
  <1>8. LessIn(FloorMeal[l].Count, c) \in Rows /\ LessIn(FloorMeal[l].Count, c)[c] = FloorMeal[l].Count[c] - 1
    <2>1. FloorMeal[l].Count[c] - 1 \in Byte
      BY <1>6, LessIs
    <2> QED
      BY <1>2, <1>4, <1>7, <2>1 DEF LessIn, Rows
  <1>9. /\ FloorMeal' = [f \in Floors |-> FloorMeal'[f]]
        /\ FloorMeal'[l].MealID = Kind /\ FloorMeal'[l].Count = LessIn(FloorMeal[l].Count, c)
        /\ \A f \in Floors : f # l => FloorMeal'[f] = FloorMeal[f]
    BY <1>2, <1>3, <1>4, <1>6 DEF CountOut
  <1>10. Fresh'
    <2>1. DefineMeal = [k \in Kinds |-> DefineMeal[k]] /\ DefineMeal[Kind].Position \in [Floors -> Rows]
      BY <1>1 DEF StockInv, Shape
    <2>2. /\ \A k \in Kinds : k # Kind => DefineMeal'[k] = DefineMeal[k]
          /\ DefineMeal'[Kind].Position = [DefineMeal[Kind].Position EXCEPT ![l] = LessIn(@, c)]
      <3>1. DefineMeal'[Kind] = Fewer(DefineMeal[Kind], p) /\ \A k \in Kinds : k # Kind => DefineMeal'[k] = DefineMeal[k]
        <4>1. DefineMeal' = [DefineMeal EXCEPT ![Kind] = Fewer(DefineMeal[Kind], p)]
          BY <1>3
        <4> QED
          BY <1>1, <2>1, <4>1, ExceptFacts
      <3>2. Fewer(DefineMeal[Kind], p).Position = [DefineMeal[Kind].Position EXCEPT ![l] = LessIn(@, c)]
        BY DEF Fewer
      <3> QED
        BY <3>1, <3>2
    <2>3. /\ DefineMeal'[Kind].Position[l] = LessIn(DefineMeal[Kind].Position[l], c)
          /\ \A f \in Floors : f # l => DefineMeal'[Kind].Position[f] = DefineMeal[Kind].Position[f]
      BY <1>2, <2>1, <2>2
    <2>4. DefineMeal[Kind].Position[l] = FloorMeal[l].Count
      BY <1>1, <1>2, <1>5, <1>6 DEF Fresh
    <2>5. ASSUME NEW k \in Kinds, NEW f \in Floors
          PROVE  DefineMeal'[k].Position[f] = IF FloorMeal'[f].MealID = k THEN FloorMeal'[f].Count ELSE Zero
      <3>1. DefineMeal[k].Position[f] = IF FloorMeal[f].MealID = k THEN FloorMeal[f].Count ELSE Zero
        BY <1>5 DEF Fresh
      <3>2. CASE f # l
        BY <1>9, <2>2, <2>3, <3>1, <3>2
      <3>3. CASE f = l /\ k = Kind
        BY <1>9, <2>3, <2>4, <3>3
      <3>4. CASE f = l /\ k # Kind
        BY <1>6, <1>9, <2>2, <3>1, <3>4
      <3> QED
        BY <3>2, <3>3, <3>4
    <2> QED
      BY <2>5 DEF Fresh
  <1>11. Shape'
    <2>1. IsTable(FloorMeal', Ids)
      BY <1>1, <1>4, <1>6, <1>8, <1>9 DEF IsTable
    <2>2. DefineMeal' = [k \in Kinds |-> DefineMeal'[k]]
      BY <1>3 DEF StockInv, Shape
    <2>3. ASSUME NEW k \in Kinds PROVE DefineMeal'[k].Position \in [Floors -> Rows]
      <3>1. DefineMeal = [j \in Kinds |-> DefineMeal[j]] /\ \A j \in Kinds : DefineMeal[j].Position \in [Floors -> Rows]
        BY DEF StockInv, Shape
      <3>2. \A f \in Floors : DefineMeal'[k].Position[f] \in Rows
        BY <1>0, <1>10, <2>1 DEF Fresh, IsTable
      <3>3. DefineMeal'[k].Position = [f \in Floors |-> DefineMeal'[k].Position[f]]
        <4>1. DefineMeal' = [DefineMeal EXCEPT ![Kind] = Fewer(DefineMeal[Kind], p)]
          BY <1>3
        <4>2. DefineMeal'[Kind] = Fewer(DefineMeal[Kind], p) /\ \A j \in Kinds : j # Kind => DefineMeal'[j] = DefineMeal[j]
          BY <1>1, <3>1, <4>1, ExceptFacts
        <4>3. Fewer(DefineMeal[Kind], p).Position = [DefineMeal[Kind].Position EXCEPT ![l] = LessIn(@, c)]
          BY DEF Fewer
        <4>4. DefineMeal[k].Position \in [Floors -> Rows] /\ DefineMeal[Kind].Position \in [Floors -> Rows]
          BY <1>1, <3>1
        <4> QED
          BY <4>2, <4>3, <4>4
      <3> QED
        BY <3>2, <3>3
    <2> QED
      BY <1>3, <2>1, <2>2, <2>3 DEF StockInv, Shape
  <1>12. ASSUME l \notin unsaved
         PROVE  shelf[l].MealID = Kind /\ FloorMeal[l].Count[c] <= shelf[l].Count[c]
    <2>1. ~Overstates(FloorMeal, shelf, l)
      BY <1>2, <1>12 DEF StockInv, Truth
    <2>2. shelf[l].Count[c] \in Nat
      BY <1>2 DEF StockInv, Shape
    <2> QED
      <3>1. FloorMeal[l].Count[c] > 0 /\ FloorMeal[l].MealID \in Kinds
        BY <1>1, <1>6, LessIs
      <3>2. ~(FloorMeal[l].MealID # shelf[l].MealID \/ FloorMeal[l].Count[c] > shelf[l].Count[c])
        BY <1>2, <2>1, <3>1 DEF Overstates
      <3> QED
        <4>1. FloorMeal[l].Count[c] <= shelf[l].Count[c]
          <5>1. ~(FloorMeal[l].Count[c] > shelf[l].Count[c])
            BY <3>2
          <5>2. FloorMeal[l].Count[c] \in Nat
            BY <1>6, LessIs
          <5> QED
            BY <2>2, <5>1, <5>2, NotMore
        <4> QED
          BY <1>6, <3>2, <4>1
  <1>13. Sent'
    <2>1. here'.Line = l /\ here'.Column = c /\ here'.MealID = Kind
      BY <1>3
    <2>2. ASSUME l \notin unsaved
          PROVE  shelf[l].MealID = Kind /\ FloorMeal'[l].MealID = Kind /\ FloorMeal'[l].Count[c] < shelf[l].Count[c]
      <3>1. shelf[l].Count[c] \in Nat
        BY <1>2 DEF StockInv, Shape
      <3> QED
        <4>1. FloorMeal'[l].Count[c] = FloorMeal[l].Count[c] - 1
          BY <1>8, <1>9
        <4> QED
          BY <1>6, <1>9, <1>12, <2>2, <3>1, <4>1, OneLess
    <2> QED
      BY <1>1, <1>2, <1>3, <2>1, <2>2 DEF Sent
  <1>14. Truth'
    <2>1. ASSUME NEW f \in Floors \ unsaved
          PROVE  ~Overstates(FloorMeal', shelf, f)
      <3>1. ~Overstates(FloorMeal, shelf, f)
        BY DEF StockInv, Truth
      <3>2. CASE f # l
        BY <1>9, <3>1, <3>2 DEF Overstates
      <3>3. CASE f = l
        <4>1. \A d \in Columns : FloorMeal'[l].Count[d] <= FloorMeal[l].Count[d]
          <5>1. \A d \in Columns : FloorMeal[l].Count[d] \in Nat
            BY <1>0, <1>2, <1>4
          <5>2. \A d \in Columns : d # c => LessIn(FloorMeal[l].Count, c)[d] = FloorMeal[l].Count[d]
            BY <1>2, <1>4 DEF LessIn
          <5> QED
            BY <1>8, <1>9, <5>1, <5>2
        <4>2. \A d \in Columns : FloorMeal'[l].Count[d] \in Nat /\ FloorMeal[l].Count[d] \in Nat /\ shelf[l].Count[d] \in Nat
          BY <1>0, <1>2, <1>4, <1>8, <1>9 DEF StockInv, Shape, Rows
        <4>3. shelf[l].MealID = Kind
          BY <1>12, <3>3
        <4>4. \A d \in Columns : FloorMeal'[l].Count[d] > 0 =>
                FloorMeal[l].Count[d] > 0 /\ ~(FloorMeal[l].Count[d] > shelf[l].Count[d])
          <5>1. FloorMeal[l].MealID \in Kinds
            BY <1>1, <1>6
          <5>2. ASSUME NEW d \in Columns, FloorMeal'[l].Count[d] > 0
                PROVE  FloorMeal[l].Count[d] > 0
            <6>1. FloorMeal'[l].Count[d] <= FloorMeal[l].Count[d]
              BY <4>1
            <6>2. FloorMeal'[l].Count[d] \in Nat /\ FloorMeal[l].Count[d] \in Nat
              BY <4>2
            <6> QED
              BY <5>2, <6>1, <6>2
          <5>3. \A d \in Columns : FloorMeal[l].Count[d] > 0 =>
                  ~(FloorMeal[l].Count[d] > shelf[l].Count[d])
            BY <3>1, <3>3, <5>1 DEF Overstates
          <5> QED
            BY <5>2, <5>3
        <4>5. \A d \in Columns : FloorMeal'[l].Count[d] > 0 =>
                ~(FloorMeal'[l].Count[d] > shelf[l].Count[d])
          BY <4>1, <4>2, <4>4
        <4> QED
          BY <1>9, <3>3, <4>3, <4>5 DEF Overstates
      <3> QED
        BY <3>2, <3>3
    <2>2. \A f \in Floors \ unsaved : ~Overstates(CleanTable(flash), shelf, f)
      BY DEF StockInv, Truth
    <2> QED
      BY <1>3, <2>1, <2>2 DEF Truth
  <1>15. Alone' /\ Told' /\ Kept'
    BY <1>3 DEF StockInv, Alone, Told, Kept, Writing
  <1> QED
    BY <1>10, <1>11, <1>13, <1>14, <1>15 DEF StockInv, PlacesOK

(* What the arm takes leaves every table true that told of a meal less. *)
LEMMA TakenFacts ==
  ASSUME StockInv, at = "arm"
  PROVE  /\ Taken \in [Floors -> [MealID : Ids, Count : [Columns -> Nat]]]
         /\ \A f \in Floors \ unsaved : /\ ~Overstates(FloorMeal, Taken, f)
                                        /\ ~Overstates(CleanTable(flash), Taken, f)
  <1> DEFINE l == here.Line
             c == here.Column
  <1>1. /\ l \in Floors /\ c \in Columns
        /\ l \notin unsaved => /\ shelf[l].MealID = FloorMeal[l].MealID
                              /\ FloorMeal[l].Count[c] < shelf[l].Count[c]
    BY DEF StockInv, Sent
  <1> HIDE DEF l, c
  <1>2. shelf \in [Floors -> [MealID : Ids, Count : [Columns -> Nat]]]
    BY DEF StockInv, Shape
  <1>3. /\ IsTable(FloorMeal, Ids \union {Blank}) /\ flash = FloorMeal
        /\ \A f \in Floors, d \in Columns : FloorMeal[f].Count[d] \in Nat
    <2>1. IsTable(FloorMeal, Ids) /\ flash = FloorMeal
      BY DEF StockInv, Shape, Kept
    <2>2. \A f \in Floors : FloorMeal[f].Count \in [Columns -> Byte]
      BY <2>1 DEF IsTable, Rows
    <2>3. Byte \subseteq Nat
      BY DEF Byte
    <2> QED
      BY <2>1, <2>2, <2>3 DEF IsTable
  <1> DEFINE row == [shelf[l].Count EXCEPT ![c] = IF @ > 0 THEN @ - 1 ELSE 0]
  <1>4. row \in [Columns -> Nat] /\ row[c] = (IF shelf[l].Count[c] > 0 THEN shelf[l].Count[c] - 1 ELSE 0)
        /\ \A d \in Columns : d # c => row[d] = shelf[l].Count[d]
    BY <1>1, <1>2
  <1>5. Taken = [shelf EXCEPT ![l] = [@ EXCEPT !.Count = row]]
    BY <1>1, <1>2 DEF Taken, l, c
  <1>6. Taken[l].MealID = shelf[l].MealID /\ Taken[l].Count = row
        /\ Taken[l] \in [MealID : Ids, Count : [Columns -> Nat]]
        /\ \A f \in Floors : f # l => Taken[f] = shelf[f]
    <2> HIDE DEF row
    <2>1. [shelf[l] EXCEPT !.Count = row] \in [MealID : Ids, Count : [Columns -> Nat]]
      BY <1>1, <1>2, <1>4
    <2> QED
      BY <1>1, <1>2, <1>4, <1>5, <2>1
  <1>7. Taken \in [Floors -> [MealID : Ids, Count : [Columns -> Nat]]]
    <2> HIDE DEF row
    <2>1. Taken = [f \in Floors |-> Taken[f]]
      BY <1>2, <1>5
    <2> QED
      BY <1>2, <1>6, <2>1
  <1>8. ASSUME NEW f \in Floors \ unsaved
        PROVE  ~Overstates(FloorMeal, Taken, f)
    <2> HIDE DEF row
    <2>1. ~Overstates(FloorMeal, shelf, f)
      BY DEF StockInv, Truth
    <2>2. CASE f # l
      BY <1>6, <2>1, <2>2 DEF Overstates
    <2>3. CASE f = l
      <3>1. ASSUME NEW d \in Columns, FloorMeal[l].MealID \in Kinds, FloorMeal[l].Count[d] > 0
            PROVE  FloorMeal[l].MealID = Taken[l].MealID /\ FloorMeal[l].Count[d] <= Taken[l].Count[d]
        <4>1. /\ FloorMeal[l].Count[d] \in Nat /\ shelf[l].Count[d] \in Nat
              /\ FloorMeal[l].Count[c] \in Nat /\ shelf[l].Count[c] \in Nat
          BY <1>1, <1>2, <1>3
        <4>2. ~(FloorMeal[l].Count[d] > shelf[l].Count[d])
          BY <2>1, <2>3, <3>1 DEF Overstates
        <4>3. CASE d = c
          BY <1>1, <1>4, <1>6, <2>3, <4>1, <4>3
        <4>4. CASE d # c
          BY <1>1, <1>4, <1>6, <2>3, <4>1, <4>2, <4>4
        <4> QED
          BY <4>3, <4>4
      <3>2. \A d \in Columns : FloorMeal[l].Count[d] \in Nat /\ Taken[l].Count[d] \in Nat
        BY <1>1, <1>3, <1>7
      <3> QED
        BY <2>3, <3>1, <3>2 DEF Overstates
    <2> QED
      BY <2>2, <2>3
  <1>9. \A f \in Floors \ unsaved : ~Overstates(CleanTable(flash), Taken, f)
    BY <1>3, <1>8, CleanFacts
  <1> QED
    BY <1>7, <1>8, <1>9

(* The arm took the meal, or failed. *)
LEMMA ArmSteps ==
  ASSUME StockInv, tookone_meal \/ takemeal_erro
  PROVE  StockInv'
  <1>1. /\ UNCHANGED <<FloorMeal, DefineMeal, CurFloor, next, page, flash, unsaved>>
        /\ at = "arm" /\ at' \in {"find", "screen"} /\ shelf' \in {shelf, Taken}
    BY DEF tookone_meal, takemeal_erro
  <1>2. Shape' /\ Truth'
    BY <1>1, TakenFacts DEF StockInv, Shape, Truth
  <1>3. PlacesOK'
    BY <1>1 DEF StockInv, PlacesOK, Fresh, Forgotten, Starting, Writing
  <1>4. Alone' /\ Sent' /\ Told' /\ Kept'
    BY <1>1 DEF StockInv, Alone, Sent, Told, Kept, Writing
  <1> QED
    BY <1>2, <1>3, <1>4 DEF StockInv

(* The power goes. *)
LEMMA OutageStep ==
  ASSUME StockInv, PVD_IRQHandler
  PROVE  StockInv'
  <1> USE StockAssumption
  <1>0. Zero \in Rows /\ 0 \in Ids /\ 0 \notin Kinds
    BY DEF Zero, Rows, Byte, Ids, Kinds
  <1>1. /\ at' = "off" /\ next' = "boot" /\ page' = "menu" /\ DefineMeal' = NoMeals /\ CurFloor' = NoFloor
        /\ FloorMeal' = [f \in Floors |-> Shelf0] /\ UNCHANGED unsaved
        /\ at = "arm" \/ UNCHANGED shelf
        /\ shelf' \in {shelf, Taken}
    BY DEF PVD_IRQHandler
  <1>2. /\ shelf' \in [Floors -> [MealID : Ids, Count : [Columns -> Nat]]]
        /\ \A f \in Floors \ unsaved : /\ ~Overstates(CleanTable(flash), shelf', f)
                                       /\ ~Overstates(CleanTable(FloorMeal), shelf', f)
    <2>1. IsTable(FloorMeal, Ids \union {Blank})
      BY DEF StockInv, Shape, IsTable
    <2>2. \A f \in Floors \ unsaved : /\ ~Overstates(CleanTable(flash), shelf', f)
                                     /\ ~Overstates(FloorMeal, shelf', f)
      BY <1>1, TakenFacts DEF StockInv, Truth
    <2> QED
      BY <1>1, <2>1, <2>2, CleanFacts, TakenFacts DEF StockInv, Shape
  <1>3. /\ IsTable(flash', Ids \union {Blank})
        /\ \A f \in Floors \ unsaved : ~Overstates(CleanTable(flash'), shelf', f)
    <2>1. CASE flash' = flash
      BY <1>2, <2>1 DEF StockInv, Shape
    <2>2. CASE \E t \in {flash, FloorMeal} : \E ids, sums, cells : flash' = Left(t, ids, sums, cells)
      <3>0. PICK t \in {flash, FloorMeal} : \E ids, sums, cells : flash' = Left(t, ids, sums, cells)
        BY <2>2
      <3>1. PICK ids, sums, cells : flash' = Left(t, ids, sums, cells)
        BY <3>0
      <3>2. IsTable(t, Ids \union {Blank})
        BY DEF StockInv, Shape, IsTable
      <3> QED
        BY <1>2, <3>1, <3>2, LeftFacts
    <2> QED
      BY <2>1, <2>2 DEF PVD_IRQHandler
  <1>4. Shape'
    <2>1. IsTable(FloorMeal', Ids)
      BY <1>0, <1>1 DEF IsTable, Shelf0
    <2>2. /\ DefineMeal' = [k \in Kinds |-> DefineMeal'[k]]
          /\ \A k \in Kinds : DefineMeal'[k].Position \in [Floors -> Rows]
      BY <1>0, <1>1 DEF NoMeals
    <2>3. CurFloor' \in [FloorNum : 0..FloorMealNum, MealID : Ids, Count : Rows]
      BY <1>0, <1>1 DEF NoFloor
    <2> QED
      BY <1>2, <1>3, <2>1, <2>2, <2>3 DEF Shape
  <1>5. Truth'
    <2>1. \A f \in Floors : ~Overstates(FloorMeal', shelf', f)
      BY <1>0, <1>1 DEF Overstates, Shelf0
    <2> QED
      BY <1>1, <1>3, <2>1 DEF Truth
  <1>6. Starting'
    BY <1>1 DEF Starting, NoMeals
  <1> QED
    BY <1>1, <1>4, <1>5, <1>6 DEF StockInv, PlacesOK, Alone, Sent, Told, Kept, Writing

(* The start reads the table. *)
LEMMA StartStep ==
  ASSUME StockInv, hardfawreInit
  PROVE  StockInv'
  <1>1. /\ UNCHANGED <<DefineMeal, CurFloor, MealCnt, next, page, here, flash, shelf, unsaved>>
        /\ at = "off" /\ at' = "erase" /\ FloorMeal' = CleanTable(flash)
    BY DEF hardfawreInit
  <1>2. IsTable(FloorMeal', Ids)
    BY <1>1, CleanFacts DEF StockInv, Shape
  <1>3. Shape' /\ Truth'
    BY <1>1, <1>2 DEF StockInv, Shape, Truth
  <1>4. Starting'
    BY <1>1 DEF StockInv, Kept, Starting, Writing
  <1>5. next' = "boot"
    BY <1>4 DEF Starting
  <1> QED
    BY <1>1, <1>3, <1>4, <1>5 DEF StockInv, PlacesOK, Alone, Sent, Told, Kept, Writing

LEMMA StockStep ==
  ASSUME StockInv, [Next]_vars, Hasty = 0
  PROVE  StockInv'
  <1>1. CASE PutIntoShopCart \/ ClearUserBuffer \/ Settled \/ takeafter_meal
    BY <1>1, CustomerActions
  <1>2. CASE meal_num \/ floor_num \/ row_count \/ fill_or_empty
    BY <1>2, EnteringActions
  <1>3. CASE EnterPassword \/ LeaveInput \/ SPI_FLASH_SectorErase \/ Searching \/ UNCHANGED vars
    BY <1>3, PageActions DEF Searching
  <1>4. CASE confirm
    BY <1>4, ConfirmStep
  <1>5. CASE forget_all
    BY <1>5, ForgetStep
  <1>6. CASE SPI_FLASH_BufferWrite
    BY <1>6, WriteStep
  <1>7. CASE FindMeal
    BY <1>7, FindStep
  <1>8. CASE tookone_meal \/ takemeal_erro
    BY <1>8, ArmSteps
  <1>9. CASE PVD_IRQHandler
    BY <1>9, OutageStep
  <1>10. CASE hardfawreInit
    BY <1>10, StartStep
  <1> QED
    BY <1>1, <1>2, <1>3, <1>4, <1>5, <1>6, <1>7, <1>8, <1>9, <1>10 DEF Next, Main

-----------------------------------------------------------------------------
(* Where no technician comes while a cart is filled, no table tells more     *)
(* than lies on the shelves, through any number of outages: not the one in   *)
(* RAM and not what a start would read from flash.                           *)
THEOREM TablesAreTrue == Hasty = 0 => (Spec => []NotOverstated)
  <1> SUFFICES ASSUME Hasty = 0 PROVE Spec => []NotOverstated
    OBVIOUS
  <1>1. Init => StockInv
    BY StockInvInit
  <1>2. StockInv /\ [Next]_vars => StockInv'
    BY StockStep
  <1>3. StockInv => NotOverstated
    BY DEF StockInv, Truth, NotOverstated
  <1> QED
    BY <1>1, <1>2, <1>3, PTL DEF Spec

(* And the arm is sent only where a meal of the kind sold lies. *)
THEOREM ArmIsSentRight == Hasty = 0 => (Spec => []ArmFindsMeal)
  <1> SUFFICES ASSUME Hasty = 0 PROVE Spec => []ArmFindsMeal
    OBVIOUS
  <1>1. Init => StockInv
    BY StockInvInit
  <1>2. StockInv /\ [Next]_vars => StockInv'
    BY StockStep
  <1>3. StockInv => ArmFindsMeal
    <2> SUFFICES ASSUME StockInv, at = "arm", here.Line \notin unsaved
                 PROVE  shelf[here.Line].MealID = here.MealID /\ shelf[here.Line].Count[here.Column] > 0
      BY DEF ArmFindsMeal
    <2>1. /\ here.Line \in Floors /\ here.Column \in Columns
          /\ shelf[here.Line].MealID = here.MealID
          /\ FloorMeal[here.Line].Count[here.Column] < shelf[here.Line].Count[here.Column]
      BY DEF StockInv, Sent
    <2>2. FloorMeal[here.Line].Count \in [Columns -> Byte] /\ Byte \subseteq Nat
      <3>1. Byte \subseteq Nat
        BY DEF Byte
      <3>2. FloorMeal[here.Line].Count \in Rows
        BY <2>1 DEF StockInv, Shape, IsTable
      <3> QED
        BY <3>1, <3>2 DEF Rows
    <2>3. FloorMeal[here.Line].Count[here.Column] \in Nat /\ shelf[here.Line].Count[here.Column] \in Nat
      BY <2>1, <2>2 DEF StockInv, Shape
    <2> QED
      BY <2>1, <2>3
  <1> QED
    BY <1>1, <1>2, <1>3, PTL DEF Spec

-----------------------------------------------------------------------------
(* Types.  Every count of the tables fits a full column; in flash there may be *)
(* erased bytes.                                                              *)
Cells      == 0..Full
RamTable   == [Floors -> [MealID : Ids, MealCount : Byte, Count : [Columns -> Cells]]]
FlashTable == [Floors -> [MealID : Ids \union {Blank}, MealCount : Byte,
                          Count : [Columns -> Cells \union {Blank}]]]
KindTable  == [Kinds -> [MealCount : Byte, Position : [Floors -> [Columns -> Cells]]]]
Page       == [FloorNum : Floors \union {0}, MealID : Ids, Count : [Columns -> Cells]]

TableType == FloorMeal \in RamTable /\ flash \in FlashTable /\ DefineMeal \in KindTable
CartType  == /\ CurFloor \in Page /\ MealCnt \in [Kinds -> Byte] /\ saved \in [Kinds -> Byte]
             /\ here \in [Line : Nat, Column : Nat, MealID : Ids]
LoopType  == /\ at \in {"screen", "find", "erase", "program", "arm", "off"}
             /\ next \in {"confirm", "forget", "arm", "boot"} /\ page \in {"menu", "input"}
             /\ outages \in 0..MaxOutages /\ visits \in 0..MaxVisits
             /\ restored \in {0, 1} /\ unsaved \subseteq Floors
TypeInv   == TableType /\ CartType /\ LoopType

LEMMA SmallSets ==
  /\ Cells \subseteq Byte /\ Byte \subseteq Nat /\ 0 \in Byte /\ Zero \in [Columns -> Cells]
  /\ Ids = Kinds \union {0} /\ Ids \subseteq Byte /\ Kinds \subseteq Nat /\ Floors \subseteq Nat
  /\ 0 \in Ids /\ 0 \in Cells /\ Blank \in Byte /\ 0 \notin Kinds
  BY StockAssumption DEF Cells, Byte, Zero, Ids, Kinds, Floors, Blank

LEMMA Mod256 == \A n \in Nat : n % 256 \in Byte /\ n % 256 <= n
  BY DEF Byte

LEMMA TableTypes ==
  ASSUME TypeInv, StockInv
  PROVE  TypeOK
  <1>1. RamTable \subseteq [Floors -> Shelves] /\ FlashTable \subseteq [Floors -> Shelves]
    <2>1. [Columns -> Cells] \subseteq Rows /\ [Columns -> Cells \union {Blank}] \subseteq Rows
      BY SmallSets DEF Rows
    <2> QED
      BY <2>1, SmallSets DEF RamTable, FlashTable, Shelves
  <1>2. KindTable \subseteq [Kinds -> [MealCount : Byte, Position : [Floors -> Rows]]]
    <2>1. [Floors -> [Columns -> Cells]] \subseteq [Floors -> Rows]
      BY SmallSets DEF Rows
    <2> QED
      BY <2>1 DEF KindTable
  <1>3. shelf \in [Floors -> [MealID : Kinds \union {0}, Count : [Columns -> Nat]]]
    BY SmallSets DEF StockInv, Shape
  <1>4. /\ CurFloor \in [FloorNum : Floors \union {0}, MealID : Kinds \union {0}, Count : [Columns -> 0..Full]]
        /\ here \in [Line : Nat, Column : Nat, MealID : Kinds \union {0}]
    BY SmallSets DEF TypeInv, CartType, Page, Cells
  <1> QED
    BY <1>1, <1>2, <1>3, <1>4 DEF TypeInv, TableType, CartType, LoopType, TypeOK

LEMMA SumIn ==
  ASSUME NEW row \in [Columns -> Nat]
  PROVE  SumFunction(row) \in Nat /\ Sum(row) \in Byte
  <1>1. SumFunction(row) \in Nat
    BY SumType, StockAssumption
  <1> QED
    BY <1>1, Mod256 DEF Sum

LEMMA TotalIn ==
  ASSUME NEW t \in RamTable, NEW k
  PROVE  Total(t, k) \in Byte
  <1> DEFINE sums == [f \in Floors |-> IF t[f].MealID = k THEN t[f].MealCount ELSE 0]
  <1>1. \A f \in Floors : t[f].MealCount \in Nat
    BY SmallSets DEF RamTable
  <1>2. sums \in [Floors -> Nat]
    BY <1>1
  <1>3. SumFunction(sums) \in Nat
    <2> HIDE DEF sums
    <2> QED
      BY <1>2, FloorsFinite, SumType
  <1> QED
    BY <1>3, Mod256 DEF Total

LEMMA StatisticsIn ==
  ASSUME NEW t \in RamTable, NEW m,
         \A k \in Kinds, f \in Floors : m[k].Position[f] \in [Columns -> Cells]
  PROVE  StatisticsTotal(t, m) \in KindTable
  <1> DEFINE places(k) == [f \in Floors |-> IF t[f].MealID = k THEN t[f].Count ELSE m[k].Position[f]]
  <1>1. ASSUME NEW k \in Kinds
        PROVE  Total(t, k) \in Byte /\ places(k) \in [Floors -> [Columns -> Cells]]
    <2>1. \A f \in Floors : t[f].Count \in [Columns -> Cells] /\ m[k].Position[f] \in [Columns -> Cells]
      BY DEF RamTable
    <2> QED
      BY <2>1, TotalIn
  <1>2. StatisticsTotal(t, m) = [k \in Kinds |-> [MealCount |-> Total(t, k), Position |-> places(k)]]
    BY DEF StatisticsTotal
  <1> HIDE DEF places
  <1> QED
    BY <1>1, <1>2 DEF KindTable

LEMMA SettingCells ==
  ASSUME TypeInv, NEW k, NEW n
  PROVE  InitSetting(k, n) \in [Columns -> Cells]
  BY SmallSets DEF TypeInv, TableType, RamTable, InitSetting

LEMMA CleanIn ==
  ASSUME NEW t \in FlashTable
  PROVE  CleanTable(t) \in RamTable
  <1>1. ASSUME NEW f \in Floors
        PROVE  /\ Clean(t[f].MealID) \in Ids /\ Clean(t[f].MealCount) \in Byte
               /\ [c \in Columns |-> Clean(t[f].Count[c])] \in [Columns -> Cells]
    <2>1. /\ t[f].MealID \in Ids \union {Blank} /\ t[f].MealCount \in Byte
          /\ \A c \in Columns : t[f].Count[c] \in Cells \union {Blank}
      BY DEF FlashTable
    <2> QED
      BY <2>1, SmallSets DEF Clean
  <1> QED
    BY <1>1 DEF CleanTable, RamTable

LEMMA RamInFlash == RamTable \subseteq FlashTable
  BY DEF RamTable, FlashTable

LEMMA LeftIn ==
  ASSUME NEW t \in FlashTable, NEW ids, NEW sums, NEW cells
  PROVE  Left(t, ids, sums, cells) \in FlashTable
  <1>1. ASSUME NEW f \in Floors
        PROVE  /\ (IF f \in ids THEN t[f].MealID ELSE Blank) \in Ids \union {Blank}
               /\ (IF f \in sums THEN t[f].MealCount ELSE Blank) \in Byte
               /\ [c \in Columns |-> IF <<f, c>> \in cells THEN t[f].Count[c] ELSE Blank]
                    \in [Columns -> Cells \union {Blank}]
    <2>1. /\ t[f].MealID \in Ids \union {Blank} /\ t[f].MealCount \in Byte
          /\ \A c \in Columns : t[f].Count[c] \in Cells \union {Blank}
      BY DEF FlashTable
    <2> QED
      BY <2>1, SmallSets
  <1> QED
    BY <1>1 DEF Left, FlashTable

(* The customer's actions. *)
LEMMA CustomerTypes ==
  ASSUME TypeInv, PutIntoShopCart \/ ClearUserBuffer \/ Settled \/ takeafter_meal
  PROVE  TypeInv'
  <1> USE DEF World, main, ram, Screen
  <1>1. NoCart \in [Kinds -> Byte]
    BY SmallSets DEF NoCart
  <1>2. CASE PutIntoShopCart
    <2>0. PICK k \in Kinds : \E n \in 0..Min({DefineMeal[k].MealCount, MaxCart}) :
                               MealCnt' = [MealCnt EXCEPT ![k] = n]
      BY <1>2 DEF PutIntoShopCart
    <2>1. PICK n \in 0..Min({DefineMeal[k].MealCount, MaxCart}) : MealCnt' = [MealCnt EXCEPT ![k] = n]
      BY <2>0
    <2>2. DefineMeal[k].MealCount \in Byte /\ DefineMeal[k].MealCount \in Nat /\ MaxCart \in Nat
      BY SmallSets, StockAssumption DEF TypeInv, TableType, KindTable
    <2>3. Min({DefineMeal[k].MealCount, MaxCart}) \in Nat
          /\ Min({DefineMeal[k].MealCount, MaxCart}) <= DefineMeal[k].MealCount
      BY <2>2, MinIn
    <2>4. n \in Byte
      BY <2>2, <2>3 DEF Byte
    <2>5. MealCnt' \in [Kinds -> Byte]
      BY <2>1, <2>4 DEF TypeInv, CartType
    <2> QED
      BY <1>2, <2>5 DEF PutIntoShopCart, TypeInv, TableType, CartType, LoopType
  <1>3. CASE ClearUserBuffer
    BY <1>1, <1>3 DEF ClearUserBuffer, TypeInv, TableType, CartType, LoopType
  <1>4. CASE Settled
    BY <1>4 DEF Settled, TypeInv, TableType, CartType, LoopType
  <1>5. CASE takeafter_meal
    BY <1>5 DEF takeafter_meal, TypeInv, TableType, CartType, LoopType
  <1> QED
    BY <1>2, <1>3, <1>4, <1>5

(* The technician's page. *)
LEMMA EnteringTypes ==
  ASSUME TypeInv, meal_num \/ floor_num \/ row_count \/ fill_or_empty
  PROVE  TypeInv'
  <1>1. CurFloor \in Page
    BY DEF TypeInv, CartType
  <1>2. CurFloor' \in Page
    <2>1. CASE meal_num
      <3>1. PICK k \in Kinds :
              LET Empty == {f \in Floors : FloorMeal[f].MealCount = 0}
              IN CurFloor' = [MealID   |-> k,
                              Count    |-> InitSetting(k, CurFloor.FloorNum),
                              FloorNum |-> IF Empty = {} THEN CurFloor.FloorNum ELSE Min(Empty)]
        BY <2>1 DEF meal_num
      <3> DEFINE Empty == {f \in Floors : FloorMeal[f].MealCount = 0}
      <3>2. Empty # {} => Min(Empty) \in Floors
        <4>1. Empty \subseteq Nat /\ Empty \subseteq Floors
          BY SmallSets
        <4> HIDE DEF Empty
        <4> QED
          BY <4>1, MinIn
      <3>3. InitSetting(k, CurFloor.FloorNum) \in [Columns -> Cells] /\ k \in Ids
        BY SettingCells, SmallSets
      <3> QED
        BY <1>1, <3>1, <3>2, <3>3 DEF Page
    <2>2. CASE floor_num
      <3>1. PICK f \in Floors : CurFloor' = [CurFloor EXCEPT !.FloorNum = f, !.Count = InitSetting(CurFloor.MealID, f)]
        BY <2>2 DEF floor_num
      <3>2. InitSetting(CurFloor.MealID, f) \in [Columns -> Cells]
        BY SettingCells
      <3> QED
        BY <1>1, <3>1, <3>2 DEF Page
    <2>3. CASE row_count
      <3>1. PICK c \in Columns, n \in 0..Full : CurFloor' = [CurFloor EXCEPT !.Count[c] = n]
        BY <2>3 DEF row_count
      <3>2. [CurFloor.Count EXCEPT ![c] = n] \in [Columns -> Cells]
        BY <1>1 DEF Page, Cells
      <3>3. CurFloor' = [CurFloor EXCEPT !.Count = [CurFloor.Count EXCEPT ![c] = n]]
        BY <1>1, <3>1 DEF Page
      <3> QED
        BY <1>1, <3>2, <3>3 DEF Page
    <2>4. CASE fill_or_empty
      <3>1. PICK n \in {0, Full} : CurFloor' = [CurFloor EXCEPT !.Count = [c \in Columns |-> n]]
        BY <2>4 DEF fill_or_empty
      <3>2. [c \in Columns |-> n] \in [Columns -> Cells]
        BY StockAssumption DEF Cells
      <3> QED
        BY <1>1, <3>1, <3>2 DEF Page
    <2> QED
      BY <2>1, <2>2, <2>3, <2>4
  <1>3. Entering
    BY DEF meal_num, floor_num, row_count, fill_or_empty
  <1> QED
    BY <1>2, <1>3 DEF Entering, World, main, TypeInv, TableType, CartType, LoopType

LEMMA PageTypes ==
  ASSUME TypeInv, EnterPassword \/ LeaveInput \/ SPI_FLASH_SectorErase \/ Searching \/ UNCHANGED vars
  PROVE  TypeInv'
  <1> USE DEF TypeInv, TableType, CartType, LoopType, World, Screen
  <1>1. CASE EnterPassword
    <2>1. CurFloor' \in Page
      <3>1. InitSetting(CurFloor.MealID, CurFloor.FloorNum) \in [Columns -> Cells]
        BY SettingCells
      <3> QED
        BY <1>1, <3>1 DEF EnterPassword, Page
    <2>2. visits' \in 0..MaxVisits
      BY <1>1, StockAssumption DEF EnterPassword
    <2> QED
      BY <1>1, <2>1, <2>2 DEF EnterPassword
  <1>2. CASE LeaveInput
    <2>1. NoFloor \in Page
      BY SmallSets DEF NoFloor, Page
    <2> QED
      BY <1>2, <2>1 DEF LeaveInput
  <1>3. CASE SPI_FLASH_SectorErase
    <2>1. [f \in Floors |-> Erased] \in FlashTable
      BY SmallSets DEF Erased, FlashTable
    <2> QED
      BY <1>3, <2>1 DEF SPI_FLASH_SectorErase, ram
  <1>4. CASE Searching \/ UNCHANGED vars
    BY <1>4 DEF Searching, vars, ram, main
  <1> QED
    BY <1>1, <1>2, <1>3, <1>4

LEMMA ShelfTypes ==
  ASSUME TypeInv, confirm \/ forget_all
  PROVE  TypeInv'
  <1> USE DEF Screen
  <1>0. CurFloor \in Page /\ FloorMeal \in RamTable /\ flash \in FlashTable /\ DefineMeal \in KindTable
    BY DEF TypeInv, TableType, CartType
  <1>1. CASE confirm
    <2>1. Confirmed \in [MealID : Ids, MealCount : Byte, Count : [Columns -> Cells]]
      <3>1. CurFloor.Count \in [Columns -> Cells] /\ CurFloor.Count \in [Columns -> Nat]
        BY <1>0, SmallSets DEF Page
      <3> QED
        BY <1>0, <3>1, SumIn DEF Confirmed, Page
    <2>2. FloorMeal' \in RamTable
      <3>1. FloorMeal' \in {FloorMeal, [FloorMeal EXCEPT ![CurFloor.FloorNum] = Confirmed]}
        BY <1>1 DEF confirm
      <3> QED
        BY <1>0, <2>1, <3>1 DEF RamTable
    <2>3. DefineMeal' \in KindTable
      <3>1. \A k \in Kinds, f \in Floors : NoMeals[k].Position[f] \in [Columns -> Cells]
        BY SmallSets DEF NoMeals
      <3> QED
        BY <1>1, <2>2, <3>1, StatisticsIn DEF confirm
    <2>4. unsaved' \subseteq Floors
      BY <1>1 DEF confirm, TypeInv, LoopType
    <2> QED
      BY <1>1, <2>2, <2>3, <2>4 DEF confirm, TypeInv, TableType, CartType, LoopType
  <1>2. CASE forget_all
    <2>1. FloorMeal' \in RamTable
      BY <1>2, SmallSets DEF forget_all, Shelf0, RamTable
    <2>2. unsaved' \subseteq Floors
      BY <1>2 DEF forget_all, TypeInv, LoopType
    <2> QED
      BY <1>2, <2>1, <2>2 DEF forget_all, TypeInv, TableType, CartType, LoopType
  <1> QED
    BY <1>1, <1>2

LEMMA WriteTypes ==
  ASSUME TypeInv, SPI_FLASH_BufferWrite
  PROVE  TypeInv'
  <1>1. FloorMeal \in RamTable /\ flash' \in FlashTable
    BY RamInFlash DEF TypeInv, TableType, SPI_FLASH_BufferWrite
  <1>2. DefineMeal' \in KindTable
    <2>1. \A k \in Kinds, f \in Floors : DefineMeal[k].Position[f] \in [Columns -> Cells]
      BY DEF TypeInv, TableType, KindTable
    <2> QED
      BY <1>1, <2>1, StatisticsIn DEF SPI_FLASH_BufferWrite
  <1>3. MealCnt' \in [Kinds -> Byte] /\ restored' \in {0, 1} /\ unsaved' \subseteq Floors
    BY DEF SPI_FLASH_BufferWrite, TypeInv, CartType, LoopType
  <1> QED
    BY <1>1, <1>2, <1>3 DEF SPI_FLASH_BufferWrite, TypeInv, TableType, CartType, LoopType

LEMMA ArmTypes ==
  ASSUME TypeInv, tookone_meal \/ takemeal_erro
  PROVE  TypeInv'
  <1>1. MealCnt' \in [Kinds -> Byte]
    <2>1. \A k \in Kinds : Less(MealCnt[k]) \in Byte
      <3>1. \A n \in Byte : Less(n) \in Byte
        BY DEF Less, Byte
      <3> QED
        BY <3>1 DEF TypeInv, CartType
    <2>2. NoCart \in [Kinds -> Byte]
      BY SmallSets DEF NoCart
    <2> QED
      BY <2>1, <2>2 DEF tookone_meal, takemeal_erro, TypeInv, CartType
  <1>2. here' \in [Line : Nat, Column : Nat, MealID : Ids]
    BY SmallSets DEF tookone_meal, takemeal_erro, Nowhere
  <1> QED
    BY <1>1, <1>2 DEF tookone_meal, takemeal_erro, TypeInv, TableType, CartType, LoopType

LEMMA OutageTypes ==
  ASSUME TypeInv, PVD_IRQHandler
  PROVE  TypeInv'
  <1>1. FloorMeal' \in RamTable /\ DefineMeal' \in KindTable
    BY SmallSets DEF PVD_IRQHandler, Shelf0, NoMeals, RamTable, KindTable
  <1>2. flash' \in FlashTable
    <2>1. CASE flash' = flash
      BY <2>1 DEF TypeInv, TableType
    <2>2. CASE \E t \in {flash, FloorMeal} : \E ids, sums, cells : flash' = Left(t, ids, sums, cells)
      <3>0. PICK t \in {flash, FloorMeal} : \E ids, sums, cells : flash' = Left(t, ids, sums, cells)
        BY <2>2
      <3>1. PICK ids, sums, cells : flash' = Left(t, ids, sums, cells)
        BY <3>0
      <3>2. t \in FlashTable
        BY RamInFlash DEF TypeInv, TableType
      <3> QED
        BY <3>1, <3>2, LeftIn
    <2> QED
      BY <2>1, <2>2 DEF PVD_IRQHandler
  <1>3. /\ CurFloor' \in Page /\ MealCnt' \in [Kinds -> Byte] /\ saved' \in [Kinds -> Byte]
        /\ here' \in [Line : Nat, Column : Nat, MealID : Ids]
    BY SmallSets DEF PVD_IRQHandler, NoFloor, NoCart, Nowhere, Page, TypeInv, CartType
  <1>4. outages' \in 0..MaxOutages
    BY StockAssumption DEF PVD_IRQHandler, TypeInv, LoopType
  <1>5. LoopType'
    BY <1>4 DEF PVD_IRQHandler, TypeInv, LoopType
  <1> QED
    BY <1>1, <1>2, <1>3, <1>5 DEF TypeInv, TableType, CartType

LEMMA StartTypes ==
  ASSUME TypeInv, hardfawreInit
  PROVE  TypeInv'
  <1>1. FloorMeal' \in RamTable
    BY CleanIn DEF hardfawreInit, TypeInv, TableType
  <1> QED
    BY <1>1 DEF hardfawreInit, TypeInv, TableType, CartType, LoopType

LEMMA LessByte == \A n \in Byte : Less(n) \in Byte
  BY DEF Less, Byte

(* What is counted out: of one count of one shelf, one. *)
LEMMA CountedOut ==
  ASSUME TypeInv, NEW l \in Floors, NEW c \in Columns, FloorMeal[l].Count[c] > 0
  PROVE  LET t   == CountOut(FloorMeal, <<l, c>>)
             row == LessIn(FloorMeal[l].Count, c)
         IN /\ t \in RamTable
            /\ \A f \in Floors : f # l => t[f] = FloorMeal[f]
            /\ t[l].MealID = FloorMeal[l].MealID /\ t[l].MealCount = Less(FloorMeal[l].MealCount)
            /\ t[l].Count = row /\ row \in [Columns -> Cells]
            /\ row[c] = FloorMeal[l].Count[c] - 1
            /\ \A d \in Columns : d # c => row[d] = FloorMeal[l].Count[d]
  <1> DEFINE row == LessIn(FloorMeal[l].Count, c)
             new == [MealID |-> FloorMeal[l].MealID, MealCount |-> Less(FloorMeal[l].MealCount), Count |-> row]
             t   == CountOut(FloorMeal, <<l, c>>)
  <1>1. /\ FloorMeal \in RamTable /\ FloorMeal[l].Count \in [Columns -> Cells]
        /\ FloorMeal[l].MealID \in Ids /\ FloorMeal[l].MealCount \in Byte
    BY DEF TypeInv, TableType, RamTable
  <1>2. Less(FloorMeal[l].MealCount) \in Byte
    BY <1>1, LessByte
  <1>3. Less(FloorMeal[l].Count[c]) = FloorMeal[l].Count[c] - 1 /\ FloorMeal[l].Count[c] - 1 \in Cells
    BY <1>1, StockAssumption DEF Less, Cells
  <1>4. /\ row \in [Columns -> Cells] /\ row[c] = FloorMeal[l].Count[c] - 1
        /\ \A d \in Columns : d # c => row[d] = FloorMeal[l].Count[d]
    BY <1>1, <1>3 DEF LessIn
  <1>5. t = [FloorMeal EXCEPT ![l] = new]
    BY <1>1 DEF CountOut
  <1> HIDE DEF row
  <1>6. new \in [MealID : Ids, MealCount : Byte, Count : [Columns -> Cells]]
    BY <1>1, <1>2, <1>4
  <1>7. t \in RamTable /\ t[l] = new /\ \A f \in Floors : f # l => t[f] = FloorMeal[f]
    <2> HIDE DEF new, t
    <2> QED
      BY <1>1, <1>5, <1>6 DEF RamTable
  <1> QED
    BY <1>4, <1>7 DEF row

LEMMA FindTypes ==
  ASSUME TypeInv, StockInv, FindMeal
  PROVE  TypeInv'
  <1>1. PICK l \in Floors, c \in Columns :
           /\ Kind \in Kinds /\ FloorMeal[l].MealID = Kind /\ FloorMeal[l].Count[c] \in 1..255
           /\ FloorMeal' = CountOut(FloorMeal, <<l, c>>)
           /\ DefineMeal' = [DefineMeal EXCEPT ![Kind] = Fewer(@, <<l, c>>)]
           /\ here' = [Line |-> l, Column |-> c, MealID |-> Kind] /\ Fresh
    BY FoundFacts
  <1>2. FloorMeal' \in RamTable /\ LessIn(FloorMeal[l].Count, c) \in [Columns -> Cells]
    BY <1>1, CountedOut
  <1>3. DefineMeal' \in KindTable
    <2>1. DefineMeal \in KindTable
      BY DEF TypeInv, TableType
    <2>2. DefineMeal[Kind].Position[l] = FloorMeal[l].Count
      BY <1>1 DEF Fresh
    <2>3. Fewer(DefineMeal[Kind], <<l, c>>) \in [MealCount : Byte, Position : [Floors -> [Columns -> Cells]]]
      <3>1. Less(DefineMeal[Kind].MealCount) \in Byte
        BY <1>1, <2>1, LessByte DEF KindTable
      <3>2. DefineMeal[Kind].Position \in [Floors -> [Columns -> Cells]]
        BY <1>1, <2>1 DEF KindTable
      <3>3. [DefineMeal[Kind].Position EXCEPT ![l] = LessIn(@, c)]
              = [DefineMeal[Kind].Position EXCEPT ![l] = LessIn(FloorMeal[l].Count, c)]
        BY <2>2, <3>2
      <3>4. [DefineMeal[Kind].Position EXCEPT ![l] = LessIn(FloorMeal[l].Count, c)] \in [Floors -> [Columns -> Cells]]
        BY <1>2, <3>2
      <3> QED
        BY <3>1, <3>3, <3>4 DEF Fewer
    <2> QED
      BY <1>1, <2>1, <2>3 DEF KindTable
  <1>4. here' \in [Line : Nat, Column : Nat, MealID : Ids]
    BY <1>1, SmallSets, StockAssumption
  <1> QED
    BY <1>2, <1>3, <1>4 DEF FindMeal, World, TypeInv, TableType, CartType, LoopType

-----------------------------------------------------------------------------
(* The cart and the tables.  How many meals of a kind a table tells of: *)
Of(t, k)      == [f \in Floors |-> IF t[f].MealID = k THEN SumFunction(t[f].Count) ELSE 0]
InTable(t, k) == SumFunction(Of(t, k))

(* The meal the arm is after is still in the cart, and in no table. *)
Fetching == at = "arm" \/ (Writing /\ next = "arm")
Away(k)  == IF Fetching /\ here.MealID = k THEN 1 ELSE 0

(* At the screens and while meals are fetched, what is offered is counted from *)
(* the table, and the table with the meal the arm is after has the whole cart. *)
Offered == at \in {"screen", "find", "arm"} =>
             \A k \in Kinds : DefineMeal[k].MealCount = Total(FloorMeal, k)
Enough  == Trusted => \A k \in Kinds : MealCnt[k] <= InTable(FloorMeal, k) + Away(k)
CartInv == /\ Offered /\ Enough
           /\ at = "off" => MealCnt = NoCart
           /\ Fetching => MealCnt[here.MealID] > 0

LEMMA OfIn ==
  ASSUME NEW t \in RamTable, NEW k
  PROVE  /\ Of(t, k) \in [Floors -> Nat] /\ InTable(t, k) \in Nat
         /\ \A f \in Floors : SumFunction(t[f].Count) \in Nat
  <1>1. ASSUME NEW f \in Floors PROVE SumFunction(t[f].Count) \in Nat
    <2>1. t[f].Count \in [Columns -> Nat]
      BY SmallSets DEF RamTable
    <2> QED
      BY <2>1, SumIn
  <1>2. Of(t, k) \in [Floors -> Nat]
    BY <1>1 DEF Of
  <1> QED
    BY <1>1, <1>2, FloorsFinite, SumType DEF InTable

(* No more is offered than the table tells of. *)
LEMMA NoMoreOffered ==
  ASSUME NEW t \in RamTable, Consistent(t), NEW k
  PROVE  Total(t, k) <= InTable(t, k)
  <1> DEFINE sums == [f \in Floors |-> IF t[f].MealID = k THEN t[f].MealCount ELSE 0]
  <1>1. ASSUME NEW f \in Floors
        PROVE  t[f].MealCount \in Nat /\ t[f].MealCount <= SumFunction(t[f].Count)
    <2>1. SumFunction(t[f].Count) \in Nat
      BY OfIn
    <2>2. t[f].MealCount = SumFunction(t[f].Count) % 256
      BY DEF Consistent, Sum
    <2> QED
      BY <2>1, <2>2, Mod256, SmallSets
  <1>2. sums \in [Floors -> Nat]
    BY <1>1
  <1>3. Of(t, k) \in [Floors -> Nat] /\ \A f \in Floors : sums[f] <= Of(t, k)[f]
    BY <1>1, OfIn DEF Of
  <1>4. SumFunction(sums) \in Nat /\ SumFunction(sums) <= InTable(t, k)
    <2> HIDE DEF sums
    <2> QED
      BY <1>2, <1>3, FloorsFinite, SumType, SumMore DEF InTable
  <1>5. Total(t, k) = SumFunction(sums) % 256
    BY DEF Total
  <1> HIDE DEF sums
  <1>6. SumFunction(sums) % 256 \in Nat /\ SumFunction(sums) % 256 <= SumFunction(sums) /\ InTable(t, k) \in Nat
    BY <1>4, Mod256, SmallSets, OfIn
  <1> QED
    BY <1>4, <1>5, <1>6

LEMMA SameByte ==
  ASSUME NEW m \in Byte, NEW s \in Nat, s > 0, Less(m) = (s - 1) % 256
  PROVE  m = s % 256
  BY DEF Less, Byte

(* Counting out a meal takes one from the kind it is of, and no table becomes   *)
(* consistent by it.                                                          *)
LEMMA CountedSums ==
  ASSUME TypeInv, NEW l \in Floors, NEW c \in Columns, FloorMeal[l].Count[c] > 0,
         NEW t, t = CountOut(FloorMeal, <<l, c>>)
  PROVE  /\ Consistent(t) => Consistent(FloorMeal)
         /\ InTable(t, FloorMeal[l].MealID) = InTable(FloorMeal, FloorMeal[l].MealID) - 1
         /\ \A k \in Kinds : k # FloorMeal[l].MealID => InTable(t, k) = InTable(FloorMeal, k)
  <1> DEFINE row == FloorMeal[l].Count
             new == t[l].Count
             k0  == FloorMeal[l].MealID
  <1>0. FloorMeal \in RamTable
    BY DEF TypeInv, TableType
  <1>1. /\ t \in RamTable /\ \A f \in Floors : f # l => t[f] = FloorMeal[f]
        /\ t[l].MealID = k0 /\ t[l].MealCount = Less(FloorMeal[l].MealCount)
        /\ new \in [Columns -> Cells] /\ new[c] = row[c] - 1
        /\ \A d \in Columns : d # c => new[d] = row[d]
    BY CountedOut
  <1>2. row \in [Columns -> Nat] /\ new \in [Columns -> Nat] /\ IsFiniteSet(Columns)
    <2>1. row \in [Columns -> Cells]
      BY <1>0 DEF RamTable
    <2> QED
      BY <1>1, <2>1, SmallSets, StockAssumption
  <1>3. SumFunction(new) = SumFunction(row) - 1 /\ SumFunction(new) \in Nat /\ SumFunction(row) \in Nat
    <2>1. SumFunction(new) \in Nat /\ SumFunction(row) \in Nat
      BY <1>2, SumType
    <2>2. SumFunction(new) - new[c] = SumFunction(row) - row[c]
      BY <1>1, <1>2, SumChange
    <2>3. new[c] = row[c] - 1 /\ row[c] \in Nat
      BY <1>1, <1>2
    <2> HIDE DEF new, row
    <2> QED
      BY <2>1, <2>2, <2>3
  <1>4. ASSUME Consistent(t), NEW f \in Floors
        PROVE  FloorMeal[f].MealCount = Sum(FloorMeal[f].Count)
    <2>1. CASE f # l
      BY <1>1, <1>4, <2>1 DEF Consistent
    <2>2. CASE f = l
      <3>1. Less(FloorMeal[l].MealCount) = (SumFunction(row) - 1) % 256
        BY <1>1, <1>3, <1>4 DEF Consistent, Sum
      <3>2. FloorMeal[l].MealCount \in Byte
        BY <1>0 DEF RamTable
      <3>3. SumFunction(row) > 0
        BY <1>3
      <3>4. FloorMeal[l].MealCount = SumFunction(row) % 256
        <4> HIDE DEF row
        <4> QED
          BY <1>3, <3>1, <3>2, <3>3, SameByte
      <3> QED
        BY <2>2, <3>4 DEF Sum
    <2> QED
      BY <2>1, <2>2
  <1>5. ASSUME NEW k
        PROVE  /\ Of(t, k) \in [Floors -> Nat] /\ Of(FloorMeal, k) \in [Floors -> Nat]
               /\ \A f \in Floors : f # l => Of(t, k)[f] = Of(FloorMeal, k)[f]
               /\ Of(t, k)[l] = (IF k0 = k THEN SumFunction(row) - 1 ELSE 0)
               /\ Of(FloorMeal, k)[l] = (IF k0 = k THEN SumFunction(row) ELSE 0)
    <2>1. Of(t, k) \in [Floors -> Nat] /\ Of(FloorMeal, k) \in [Floors -> Nat]
      BY <1>0, <1>1, OfIn
    <2> QED
      BY <1>1, <1>3, <2>1 DEF Of
  <1>6. ASSUME NEW k
        PROVE  /\ InTable(t, k) - Of(t, k)[l] = InTable(FloorMeal, k) - Of(FloorMeal, k)[l]
               /\ InTable(t, k) \in Nat /\ InTable(FloorMeal, k) \in Nat
    <2>1. InTable(t, k) \in Nat /\ InTable(FloorMeal, k) \in Nat
      BY <1>0, <1>1, OfIn
    <2> QED
      BY <1>5, <2>1, FloorsFinite, SumChange DEF InTable
  <1>7. InTable(t, k0) = InTable(FloorMeal, k0) - 1
    BY <1>3, <1>5, <1>6
  <1>8. \A k \in Kinds : k # k0 => InTable(t, k) = InTable(FloorMeal, k)
    BY <1>5, <1>6
  <1> QED
    BY <1>4, <1>7, <1>8 DEF Consistent

LEMMA CartNumbers ==
  ASSUME TypeInv
  PROVE  /\ \A k \in Kinds : MealCnt[k] \in Nat /\ InTable(FloorMeal, k) \in Nat /\ Away(k) \in {0, 1}
         /\ (\A k \in Kinds : ~(MealCnt[k] > 0)) => MealCnt = NoCart
  <1>1. ASSUME NEW k \in Kinds
        PROVE  MealCnt[k] \in Nat /\ InTable(FloorMeal, k) \in Nat /\ Away(k) \in {0, 1}
    BY SmallSets, OfIn DEF TypeInv, TableType, CartType, Away
  <1>2. MealCnt = [k \in Kinds |-> MealCnt[k]]
    BY DEF TypeInv, CartType
  <1> QED
    BY <1>1, <1>2 DEF NoCart

LEMMA EmptyCart ==
  ASSUME TypeInv, MealCnt = NoCart
  PROVE  Enough
  <1>1. \A k \in Kinds : MealCnt[k] = 0
    BY DEF NoCart
  <1> QED
    BY <1>1, CartNumbers DEF Enough

LEMMA CartInit == Init => TypeInv /\ CartInv
  <1> SUFFICES ASSUME Init PROVE TypeInv /\ CartInv
    OBVIOUS
  <1> USE SmallSets, StockAssumption
  <1>1. FloorMeal \in RamTable /\ flash \in RamTable /\ DefineMeal \in KindTable
    BY DEF Init, Shelf0, NoMeals, RamTable, KindTable
  <1>2. TableType
    BY <1>1, RamInFlash DEF TableType
  <1>3. CartType
    BY DEF Init, NoFloor, NoCart, Nowhere, Page, CartType
  <1>4. LoopType
    BY DEF Init, LoopType
  <1>5. TypeInv
    BY <1>2, <1>3, <1>4 DEF TypeInv
  <1>6. Offered
    <2>1. \A f \in Floors : FloorMeal[f].MealID = 0
      BY DEF Init, Shelf0
    <2>2. ASSUME NEW k \in Kinds PROVE Total(FloorMeal, k) = 0
      <3>1. 1 \in Floors
        BY DEF Floors
      <3>2. StatisticsTotal(FloorMeal, DefineMeal)[k].MealCount = 0
        BY <2>1, <3>1, StatisticsFacts
      <3> QED
        BY <3>2 DEF StatisticsTotal
    <2>3. \A k \in Kinds : DefineMeal[k].MealCount = 0
      BY DEF Init, NoMeals
    <2> QED
      BY <2>2, <2>3 DEF Offered
  <1>7. Enough
    BY <1>5, EmptyCart DEF Init
  <1> QED
    BY <1>5, <1>6, <1>7 DEF Init, CartInv, Fetching, Writing

(* Steps that leave the cart and the tables alone. *)
LEMMA CartSame ==
  ASSUME CartInv, UNCHANGED <<FloorMeal, DefineMeal, MealCnt, here>>,
         restored' = 0 => restored = 0 \/ MealCnt = NoCart,
         TypeInv', Fetching' <=> Fetching, at' = "off" => at = "off",
         at' \in {"screen", "find", "arm"} => at \in {"screen", "find", "arm"}
  PROVE  CartInv'
  <1>1. Offered'
    BY DEF CartInv, Offered
  <1>2. \A k \in Kinds : Away(k)' = Away(k)
    BY DEF Away
  <1>3. Enough'
    <2>1. CASE MealCnt = NoCart
      <3>1. \A k \in Kinds : MealCnt'[k] = 0 /\ InTable(FloorMeal, k)' \in Nat /\ Away(k)' \in {0, 1}
        BY <2>1, CartNumbers, OfIn DEF TypeInv, TableType, Away, NoCart
      <3> QED
        BY <3>1 DEF Enough
    <2>2. CASE MealCnt # NoCart
      BY <1>2, <2>2 DEF CartInv, Enough, Trusted, InTable, Of, Consistent
    <2> QED
      BY <2>1, <2>2
  <1> QED
    BY <1>1, <1>3 DEF CartInv

(* Steps that end with an empty cart. *)
LEMMA CartEmptied ==
  ASSUME TypeInv', MealCnt' = NoCart, ~Fetching', Offered'
  PROVE  CartInv'
  <1>1. \A k \in Kinds : MealCnt'[k] = 0 /\ InTable(FloorMeal, k)' \in Nat /\ Away(k)' \in {0, 1}
    BY OfIn DEF TypeInv, TableType, Away, NoCart
  <1>2. Enough'
    BY <1>1 DEF Enough
  <1> QED
    BY <1>2 DEF CartInv

LEMMA CustomerCart ==
  ASSUME TypeInv, TypeInv', CartInv, PutIntoShopCart \/ ClearUserBuffer \/ Settled \/ takeafter_meal
  PROVE  CartInv'
  <1> USE DEF Screen, World, main
  <1>1. CASE PutIntoShopCart
    <2>0. PICK k \in Kinds : \E n \in 0..Min({DefineMeal[k].MealCount, MaxCart}) :
                               MealCnt' = [MealCnt EXCEPT ![k] = n]
      BY <1>1 DEF PutIntoShopCart
    <2>1. PICK n \in 0..Min({DefineMeal[k].MealCount, MaxCart}) : MealCnt' = [MealCnt EXCEPT ![k] = n]
      BY <2>0
    <2>2. DefineMeal[k].MealCount \in Nat /\ MaxCart \in Nat
      BY SmallSets, StockAssumption DEF TypeInv, TableType, KindTable
    <2>3. Min({DefineMeal[k].MealCount, MaxCart}) \in Nat
          /\ Min({DefineMeal[k].MealCount, MaxCart}) <= DefineMeal[k].MealCount
      BY <2>2, MinIn
    <2>4. n \in Nat /\ n <= DefineMeal[k].MealCount
      BY <2>2, <2>3
    <2>5. /\ UNCHANGED <<FloorMeal, DefineMeal, at, next, here, restored>> /\ at = "screen"
          /\ MealCnt'[k] = n /\ \A j \in Kinds : j # k => MealCnt'[j] = MealCnt[j]
      BY <1>1, <2>1 DEF PutIntoShopCart, TypeInv, CartType
    <2>6. ~Fetching /\ ~Fetching'
      BY <2>5 DEF Fetching, Writing
    <2>7. ASSUME Trusted, NEW j \in Kinds
          PROVE  MealCnt'[j] <= InTable(FloorMeal, j)
      <3>1. CASE j = k
        <4>1. DefineMeal[k].MealCount = Total(FloorMeal, k)
          BY <2>5 DEF CartInv, Offered
        <4>2. Total(FloorMeal, k) <= InTable(FloorMeal, k)
          BY <2>7, NoMoreOffered DEF TypeInv, TableType, Trusted
        <4> QED
          BY <2>2, <2>4, <2>5, <3>1, <4>1, <4>2, CartNumbers
      <3>2. CASE j # k
        BY <2>5, <2>6, <2>7, <3>2, CartNumbers DEF CartInv, Enough, Away
      <3> QED
        BY <3>1, <3>2
    <2>8. Enough'
      BY <2>5, <2>6, <2>7, CartNumbers DEF Enough, Trusted, Away, InTable, Of, Consistent
    <2> QED
      BY <2>5, <2>6, <2>8 DEF CartInv, Offered
  <1>2. CASE ClearUserBuffer
    <2>1. ~Fetching' /\ Offered'
      BY <1>2 DEF ClearUserBuffer, CartInv, Offered, Fetching, Writing
    <2> QED
      BY <1>2, <2>1, CartEmptied DEF ClearUserBuffer
  <1>3. CASE Settled
    BY <1>3, CartSame DEF Settled, ram, Fetching, Writing
  <1>4. CASE takeafter_meal
    <2>1. MealCnt = NoCart
      BY <1>4, CartNumbers DEF takeafter_meal, Wanted
    <2> QED
      BY <1>4, <2>1, CartSame DEF takeafter_meal, ram, Fetching, Writing
  <1> QED
    BY <1>1, <1>2, <1>3, <1>4

LEMMA PageCart ==
  ASSUME TypeInv', CartInv, StockInv,
         \/ meal_num \/ floor_num \/ row_count \/ fill_or_empty
         \/ EnterPassword \/ LeaveInput \/ SPI_FLASH_SectorErase \/ Searching \/ UNCHANGED vars
  PROVE  CartInv'
  <1>1. UNCHANGED <<FloorMeal, DefineMeal, MealCnt, here, restored, next>>
    BY DEF meal_num, floor_num, row_count, fill_or_empty, Entering, EnterPassword, LeaveInput, World,
           SPI_FLASH_SectorErase, Searching, vars, ram, main
  <1>2. at' = at \/ (at = "erase" /\ at' = "program")
    BY DEF meal_num, floor_num, row_count, fill_or_empty, Entering, EnterPassword, LeaveInput, World,
           SPI_FLASH_SectorErase, Searching, vars, main
  <1>3. Fetching' <=> Fetching
    BY <1>1, <1>2 DEF Fetching, Writing
  <1> QED
    BY <1>1, <1>2, <1>3, CartSame

LEMMA ShelfCart ==
  ASSUME TypeInv', CartInv, StockInv, confirm \/ forget_all
  PROVE  CartInv'
  <1>1. /\ MealCnt' = NoCart /\ at' = "erase" /\ next' \in {"confirm", "forget"}
    BY DEF confirm, forget_all, Screen, StockInv, Alone
  <1>2. ~Fetching' /\ Offered'
    BY <1>1 DEF Fetching, Offered, Writing
  <1> QED
    BY <1>1, <1>2, CartEmptied

LEMMA WriteCart ==
  ASSUME TypeInv', CartInv, SPI_FLASH_BufferWrite
  PROVE  CartInv'
  <1>1. /\ UNCHANGED <<FloorMeal, next, here>> /\ DefineMeal' = StatisticsTotal(FloorMeal, DefineMeal)
        /\ at = "program" /\ at' = (IF next = "arm" THEN "arm" ELSE "screen")
        /\ IF next = "boot" THEN MealCnt' = saved /\ restored' = IF saved = NoCart THEN 0 ELSE 1
                            ELSE UNCHANGED <<MealCnt, restored>>
    BY DEF SPI_FLASH_BufferWrite
  <1>2. Fetching' <=> Fetching
    BY <1>1 DEF Fetching, Writing
  <1>3. Offered'
    BY <1>1 DEF Offered, StatisticsTotal
  <1>4. Enough'
    <2>1. CASE next = "boot" /\ saved = NoCart
      <3>1. \A k \in Kinds : MealCnt'[k] = 0 /\ InTable(FloorMeal, k)' \in Nat /\ Away(k)' \in {0, 1}
        BY <1>1, <2>1, OfIn DEF TypeInv, TableType, Away, NoCart
      <3> QED
        BY <3>1 DEF Enough
    <2>2. CASE next = "boot" /\ saved # NoCart
      BY <1>1, <2>2 DEF Enough, Trusted
    <2>3. CASE next # "boot"
      BY <1>1, <1>2, <2>3 DEF CartInv, Enough, Trusted, Away, InTable, Of, Consistent
    <2> QED
      BY <2>1, <2>2, <2>3
  <1>5. Fetching' => MealCnt'[here'.MealID] > 0
    BY <1>1, <1>2 DEF CartInv, Fetching
  <1> QED
    BY <1>1, <1>3, <1>4, <1>5 DEF CartInv

LEMMA FindCart ==
  ASSUME TypeInv, TypeInv', CartInv, StockInv, FindMeal
  PROVE  CartInv'
  <1>1. PICK l \in Floors, c \in Columns :
           /\ Kind \in Kinds /\ MealCnt[Kind] > 0
           /\ FloorMeal[l].MealID = Kind /\ FloorMeal[l].Count[c] \in 1..255
           /\ FloorMeal' = CountOut(FloorMeal, <<l, c>>)
           /\ here' = [Line |-> l, Column |-> c, MealID |-> Kind]
    BY FoundFacts
  <1>2. UNCHANGED <<MealCnt, restored>> /\ at = "find" /\ at' = "erase" /\ next' = "arm"
    BY DEF FindMeal
  <1>3. /\ Consistent(FloorMeal') => Consistent(FloorMeal)
        /\ InTable(FloorMeal', Kind) = InTable(FloorMeal, Kind) - 1
        /\ \A k \in Kinds : k # Kind => InTable(FloorMeal', k) = InTable(FloorMeal, k)
    BY <1>1, CountedSums
  <1>4. ~Fetching /\ Fetching' /\ here'.MealID = Kind
    BY <1>1, <1>2 DEF Fetching, Writing
  <1>5. ASSUME Trusted', NEW k \in Kinds
        PROVE  MealCnt'[k] <= InTable(FloorMeal', k) + Away(k)'
    <2>1. MealCnt[k] <= InTable(FloorMeal, k) + 0
      BY <1>2, <1>3, <1>4, <1>5 DEF CartInv, Enough, Trusted, Away
    <2>2. MealCnt[k] \in Nat /\ InTable(FloorMeal, k) \in Nat /\ InTable(FloorMeal', k) \in Nat
      BY CartNumbers, OfIn DEF TypeInv, TableType
    <2>3. Away(k)' = (IF k = Kind THEN 1 ELSE 0)
      BY <1>4 DEF Away
    <2> QED
      BY <1>2, <1>3, <2>1, <2>2, <2>3
  <1>6. Enough'
    BY <1>5 DEF Enough
  <1> QED
    BY <1>1, <1>2, <1>4, <1>6 DEF CartInv, Offered

LEMMA ArmCart ==
  ASSUME TypeInv, TypeInv', CartInv, StockInv, tookone_meal \/ takemeal_erro
  PROVE  CartInv'
  <1>1. UNCHANGED <<FloorMeal, DefineMeal>> /\ at = "arm" /\ at' \in {"find", "screen"}
    BY DEF tookone_meal, takemeal_erro
  <1>2. Offered' /\ ~Fetching' /\ Fetching
    BY <1>1 DEF CartInv, Offered, Fetching, Writing
  <1>3. CASE tookone_meal
    <2>1. here.MealID \in Kinds /\ MealCnt[here.MealID] \in Byte /\ MealCnt[here.MealID] > 0
      BY <1>1, <1>2 DEF StockInv, Sent, CartInv, TypeInv, CartType
    <2>2. Less(MealCnt[here.MealID]) = MealCnt[here.MealID] - 1
      BY <2>1, PositiveByte, LessIs
    <2>3. /\ MealCnt'[here.MealID] = MealCnt[here.MealID] - 1
          /\ \A k \in Kinds : k # here.MealID => MealCnt'[k] = MealCnt[k]
      BY <1>3, <2>1, <2>2 DEF tookone_meal, TypeInv, CartType
    <2>4. ASSUME Trusted', NEW k \in Kinds
          PROVE  MealCnt'[k] <= InTable(FloorMeal', k) + Away(k)'
      <3>1. MealCnt[k] <= InTable(FloorMeal, k) + Away(k)
        BY <1>1, <1>3, <2>4 DEF CartInv, Enough, Trusted, Consistent, tookone_meal
      <3>2. Away(k)' = 0 /\ Away(k) = (IF k = here.MealID THEN 1 ELSE 0)
        BY <1>2 DEF Away
      <3>3. MealCnt[k] \in Nat /\ InTable(FloorMeal, k) \in Nat
        BY CartNumbers
      <3> QED
        BY <1>1, <2>3, <3>1, <3>2, <3>3
    <2> QED
      BY <1>1, <1>2, <2>4 DEF CartInv, Enough
  <1>4. CASE takemeal_erro
    BY <1>2, <1>4, CartEmptied DEF takemeal_erro
  <1> QED
    BY <1>3, <1>4

LEMMA PowerCart ==
  ASSUME TypeInv', CartInv, StockInv, PVD_IRQHandler \/ hardfawreInit
  PROVE  CartInv'
  <1>1. MealCnt' = NoCart /\ next' = "boot" /\ at' \in {"off", "erase"}
    <2>1. CASE PVD_IRQHandler
      BY <2>1 DEF PVD_IRQHandler
    <2>2. CASE hardfawreInit
      BY <2>2 DEF hardfawreInit, CartInv, StockInv, Kept, Starting
    <2> QED
      BY <2>1, <2>2
  <1>2. ~Fetching' /\ Offered'
    BY <1>1 DEF Fetching, Offered, Writing
  <1> QED
    BY <1>1, <1>2, CartEmptied

LEMMA FullStep ==
  ASSUME Hasty = 0, StockInv, TypeInv, CartInv, [Next]_vars
  PROVE  StockInv' /\ TypeInv' /\ CartInv'
  <1>1. StockInv'
    BY StockStep
  <1>2. CASE PutIntoShopCart \/ ClearUserBuffer \/ Settled \/ takeafter_meal
    BY <1>1, <1>2, CustomerTypes, CustomerCart
  <1>3. CASE meal_num \/ floor_num \/ row_count \/ fill_or_empty
    BY <1>1, <1>3, EnteringTypes, PageCart
  <1>4. CASE EnterPassword \/ LeaveInput \/ SPI_FLASH_SectorErase \/ Searching \/ UNCHANGED vars
    BY <1>1, <1>4, PageTypes, PageCart
  <1>5. CASE confirm \/ forget_all
    BY <1>1, <1>5, ShelfTypes, ShelfCart
  <1>6. CASE SPI_FLASH_BufferWrite
    BY <1>1, <1>6, WriteTypes, WriteCart
  <1>7. CASE FindMeal
    BY <1>1, <1>7, FindTypes, FindCart
  <1>8. CASE tookone_meal \/ takemeal_erro
    BY <1>1, <1>8, ArmTypes, ArmCart
  <1>9. CASE PVD_IRQHandler \/ hardfawreInit
    BY <1>1, <1>9, OutageTypes, StartTypes, PowerCart
  <1> QED
    BY <1>2, <1>3, <1>4, <1>5, <1>6, <1>7, <1>8, <1>9 DEF Next, Main

LEMMA FullAlways == Hasty = 0 => (Spec => [](StockInv /\ TypeInv /\ CartInv))
  <1> SUFFICES ASSUME Hasty = 0 PROVE Spec => [](StockInv /\ TypeInv /\ CartInv)
    OBVIOUS
  <1>1. Init => StockInv /\ TypeInv /\ CartInv
    BY StockInvInit, CartInit
  <1>2. StockInv /\ TypeInv /\ CartInv /\ [Next]_vars => StockInv' /\ TypeInv' /\ CartInv'
    BY FullStep
  <1> QED
    BY <1>1, <1>2, PTL DEF Spec

(* If no technician comes while a cart is filled, every count of a shelf stays  *)
(* between 0 and a full column: none is counted down below 0, where a byte     *)
(* becomes 255, though FindMeal searches in one table and counts down in two   *)
(* (bsp.c, MsgHandle.c), and no erased byte of the flash comes into RAM        *)
(* (hardfawreInit).                                                           *)
THEOREM Typing == Hasty = 0 => (Spec => []TypeOK)
  <1>1. StockInv /\ TypeInv => TypeOK
    BY TableTypes
  <1> QED
    BY <1>1, FullAlways, PTL

LEMMA CartFacts ==
  ASSUME StockInv, TypeInv, CartInv, at \in {"screen", "find"}, Trusted, NEW k \in Kinds
  PROVE  MealCnt[k] <= Findable(k)
  <1> DEFINE found == [f \in Floors |-> SumFunction(DefineMeal[k].Position[f])]
  <1>1. found \in [Floors -> Nat]
    <2>1. \A f \in Floors : DefineMeal[k].Position[f] \in [Columns -> Nat]
      <3>1. \A f \in Floors : DefineMeal[k].Position[f] \in [Columns -> Cells]
        BY DEF TypeInv, TableType, KindTable
      <3>2. [Columns -> Cells] \subseteq [Columns -> Nat]
        BY SmallSets
      <3> QED
        BY <3>1, <3>2
    <2> QED
      BY <2>1, SumIn
  <1>2. Findable(k) = SumFunction(found) /\ Findable(k) \in Nat
    <2>1. Findable(k) = SumFunction(found)
      BY DEF Findable
    <2> HIDE DEF found
    <2> QED
      BY <1>1, <2>1, FloorsFinite, SumType
  <1>3. CASE Fresh
    <2>1. SumFunction(Zero) = 0
      <3>1. Zero \in [Columns -> Nat] /\ \A c \in Columns : Zero[c] = 0
        BY DEF Zero
      <3> QED
        BY <3>1, StockAssumption, SumZero
    <2>2. \A f \in Floors : found[f] = Of(FloorMeal, k)[f]
      BY <1>3, <2>1 DEF Fresh, Of
    <2>3. Of(FloorMeal, k) \in [Floors -> Nat]
      BY OfIn DEF TypeInv, TableType
    <2>4. found = Of(FloorMeal, k)
      <3> HIDE DEF found
      <3> QED
        BY <1>1, <2>2, <2>3
    <2>5. Away(k) = 0
      BY DEF Away, Fetching, Writing
    <2>6. MealCnt[k] <= InTable(FloorMeal, k) + 0
      BY <2>5 DEF CartInv, Enough
    <2> HIDE DEF found
    <2> QED
      BY <1>2, <2>4, <2>6, CartNumbers DEF InTable
  <1>4. CASE ~Fresh
    <2>1. MealCnt = NoCart
      BY <1>4 DEF StockInv, PlacesOK, Forgotten, Starting, Writing
    <2> QED
      BY <1>2, <2>1 DEF NoCart
  <1> QED
    BY <1>3, <1>4

(* And what a customer took into the cart can be found: WaitMeal searches every  *)
(* shelf until it has a meal, and would search for ever.  What is offered is a  *)
(* sum of bytes of sums of bytes, each of which may wrap; the places searched   *)
(* are another table, which StatisticsTotal does not clear; and the cart lasts  *)
(* while the tables are counted down (bsp.c, MsgHandle.c).                     *)
THEOREM CartIsFound == Hasty = 0 => (Spec => []CartCanBeFound)
  <1>1. StockInv /\ TypeInv /\ CartInv => CartCanBeFound
    BY CartFacts DEF CartCanBeFound
  <1> QED
    BY <1>1, FullAlways, PTL
=============================================================================
