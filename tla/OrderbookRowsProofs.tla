------------------------ MODULE OrderbookRowsProofs ------------------------
(***************************************************************************)
(* Proofs about OrderbookRows for every set of orders, coins, prices and   *)
(* answers: the preferred order of the Pro view; what a merge leaves in    *)
(* the rows, by induction on the orders of its answer; and from it that    *)
(* the rows stand for their data and that a seller is told.                *)
(***************************************************************************)
EXTENDS OrderbookRows, FiniteSetTheorems, TLAPS

(* An order just preferred is of the selected pair or marked as carried.   *)
LEMMA PreferKeeps ==
  ASSUME NEW order, NEW list, Prefer(order, list), right' = right
  PROVE  PreferredOfPair'
BY DEF Prefer, PreferredOfPair

LEMMA FormClearedKeeps ==
  ASSUME FormCleared
  PROVE  PreferredOfPair'
BY DEF FormCleared, PreferredOfPair

(* Changing the right coin clears the form in the Pro view, and no other   *)
(* view has to keep the coins together.                                    *)
LEMMA ChangeRightKeeps ==
  ASSUME NEW coin, ChangeRight(coin), view' = view
  PROVE  PreferredOfPair'
<1>1. CASE view = "Pro"
  BY <1>1, FormClearedKeeps DEF ChangeRight
<1>2. CASE view # "Pro"
  BY <1>2 DEF PreferredOfPair
<1> QED
  BY <1>1, <1>2

(* A step that leaves the form, the view and the pair alone.               *)
LEMMA ElsewhereKeeps ==
  ASSUME PreferredOfPair, UNCHANGED <<preferred, carried, view, right>>
  PROVE  PreferredOfPair'
BY DEF PreferredOfPair

LEMMA ResetKeeps ==
  ASSUME PreferredOfPair, NEW answer, Reset(answer)
  PROVE  PreferredOfPair'
<1>1. view' = view /\ right' = right
  BY DEF Reset
<1>2. CASE Prefer(NoOrder, bids')
  BY <1>1, <1>2, PreferKeeps
<1>3. CASE Prefer(pending, bids')
  BY <1>1, <1>3, PreferKeeps
<1>4. CASE UNCHANGED <<preferred, carried>>
  BY <1>1, <1>4, ElsewhereKeeps
<1> QED
  BY <1>2, <1>3, <1>4 DEF Reset

LEMMA SelectBestOrderKeeps ==
  ASSUME NEW order, SelectBestOrder(order)
  PROVE  PreferredOfPair'
<1>1. view' = view
  BY DEF SelectBestOrder
<1>2. CASE order.coin = right
  <2>1. Prefer(order, bids) /\ right' = right
    BY <1>2 DEF SelectBestOrder
  <2> QED
    BY <2>1, PreferKeeps
<1>3. CASE order.coin # right
  <2>1. ChangeRight(order.coin)
    BY <1>3 DEF SelectBestOrder
  <2> QED
    BY <1>1, <2>1, ChangeRightKeeps
<1> QED
  BY <1>2, <1>3

LEMMA PreferredStep == PreferredOfPair /\ [Next]_vars => PreferredOfPair'
<1> SUFFICES ASSUME PreferredOfPair, [Next]_vars PROVE PreferredOfPair'
  OBVIOUS
<1>1. ASSUME NEW answer \in BidAnswers, Refresh(answer) PROVE PreferredOfPair'
  <2>1. UNCHANGED <<preferred, carried, view, right>>
    BY <1>1 DEF Refresh
  <2> QED
    BY <2>1, ElsewhereKeeps
<1>2. ASSUME NEW answer \in BidAnswers, Reset(answer) PROVE PreferredOfPair'
  BY <1>2, ResetKeeps
<1>3. ASSUME NEW answer \in BestAnswers, StoreBestOrders(answer) PROVE PreferredOfPair'
  BY <1>3, ElsewhereKeeps DEF StoreBestOrders, formVars
<1>4. ASSUME NEW coin \in Coins, SelectRight(coin) PROVE PreferredOfPair'
  BY <1>4, ChangeRightKeeps DEF SelectRight
<1>5. ASSUME NEW other \in {"Sell", "Buy"}, SetMarketMode(other) PROVE PreferredOfPair'
  BY <1>5, FormClearedKeeps DEF SetMarketMode
<1>6. ASSUME NEW other \in {"Pro", "Simple"}, SetTradingMode(other) PROVE PreferredOfPair'
  BY <1>6, FormClearedKeeps DEF SetTradingMode
<1>7. CASE ResetOrder
  BY <1>7, FormClearedKeeps DEF ResetOrder
<1>8. ASSUME NEW i \in DOMAIN bids.rows, SelectBid(bids.rows[i]) PROVE PreferredOfPair'
  <2>1. right' = right /\ Prefer([bids.rows[i] EXCEPT !.coin = right], bids)
    BY <1>8 DEF SelectBid
  <2> QED
    BY <2>1, PreferKeeps
<1>9. CASE ClearBestOrders
  BY <1>9, ElsewhereKeeps DEF ClearBestOrders, formVars
<1>10. ASSUME NEW order, SelectBestOrder(order) PROVE PreferredOfPair'
  BY <1>10, SelectBestOrderKeeps
<1>11. CASE UNCHANGED vars
  BY <1>11, ElsewhereKeeps DEF vars
<1> QED
  BY <1>1, <1>2, <1>3, <1>4, <1>5, <1>6, <1>7, <1>8, <1>9, <1>10, <1>11 DEF Next

(* In the Pro view the preferred order is of the selected pair, or was     *)
(* chosen for another one and adopted by a reset.                          *)
THEOREM PreferredCorrect == Spec => []PreferredOfPair
<1>1. Init => PreferredOfPair
  BY DEF Init, PreferredOfPair
<1> QED
  BY <1>1, PreferredStep, PTL DEF Spec

-----------------------------------------------------------------------------
(* Induction on the orders of an answer, for a set of numbers.             *)
LEMMA LeastOf ==
  ASSUME NEW S \in SUBSET Nat, S # {}
  PROVE  \E x \in S : \A y \in S : x <= y
<1> DEFINE R == OpToRel(<, Nat)
<1>1. IsWellFoundedOn(R, Nat)
  BY NatLessThanWellFounded
<1>2. \A x, y \in Nat : y < x => <<y, x>> \in R
  BY DEF OpToRel
<1> HIDE DEF R
<1>3. \E x \in S : \A y \in S : ~(<<y, x>> \in R)
  BY <1>1, WFMin
<1>4. PICK x \in S : \A y \in S : ~(<<y, x>> \in R)
  BY <1>3
<1>5. \A y \in S : ~(y < x) /\ y \in Nat /\ x \in Nat
  BY <1>2, <1>4
<1>6. \A y \in S : x <= y
  BY <1>5
<1> QED
  BY <1>6

LEMMA UpTo ==
  ASSUME NEW n \in Nat, NEW S, 0 \in S, \A k \in 0 .. n : k \in S /\ k # n => k + 1 \in S
  PROVE  0 .. n \subseteq S
<1> SUFFICES ASSUME (0 .. n) \ S # {} PROVE FALSE
  OBVIOUS
<1> DEFINE T == (0 .. n) \ S
<1>1. PICK x \in T : \A y \in T : x <= y
  <2>1. T \in SUBSET Nat
    OBVIOUS
  <2> HIDE DEF T
  <2> QED
    BY <2>1, LeastOf DEF T
<1>2. x \in 1 .. n /\ x - 1 \in 0 .. n
  BY <1>1
<1>3. x - 1 \in S
  BY <1>1, <1>2
<1> QED
  BY <1>1, <1>2, <1>3

(* The orders of an answer are merged one after the other.                 *)
Merging(run, start, answer, wanted) ==
  /\ run[0] = start
  /\ \A n \in 1 .. Len(answer) : run[n] = MergeOne(run[n - 1], answer[n], wanted)

LEMMA MergeAllRun ==
  ASSUME NEW start, NEW answer \in Seq(Orders), NEW wanted
  PROVE  \E run : Merging(run, start, answer, wanted) /\ MergeAll(start, answer, wanted) = run[Len(answer)]
<1> DEFINE Step(f, n) == IF n = 0 THEN start ELSE MergeOne(f[n - 1], answer[n], wanted)
           Is(f, k) == f = [n \in 0 .. k |-> Step(f, n)]
           N == Len(answer)
           S == {k \in 0 .. N : \E f : Is(f, k)}
<1>1. N \in Nat
  OBVIOUS
<1>2. 0 \in S
  <2> DEFINE f == [n \in 0 .. 0 |-> start]
  <2>1. f = [n \in 0 .. 0 |-> Step(f, n)]
    BY SMT
  <2>2. Is(f, 0)
    BY <2>1
  <2> HIDE DEF f, Is
  <2> QED
    BY <1>1, <2>2
<1>3. ASSUME NEW k \in 0 .. N, k \in S, k # N PROVE k + 1 \in S
  <2>1. PICK f : Is(f, k)
    BY <1>3
  <2> DEFINE g == [n \in 0 .. k + 1 |-> IF n = k + 1 THEN MergeOne(f[k], answer[n], wanted) ELSE f[n]]
  <2>2. \A n \in 0 .. k + 1 : g[n] = Step(g, n)
    <3> SUFFICES ASSUME NEW n \in 0 .. k + 1 PROVE g[n] = Step(g, n)
      OBVIOUS
    <3>1. CASE n = k + 1
      BY <1>1, <1>3, <3>1
    <3>2. CASE n = 0
      BY <1>1, <1>3, <2>1, <3>2
    <3>3. CASE n \in 1 .. k
      BY <1>1, <1>3, <2>1, <3>3
    <3> QED
      BY <1>1, <1>3, <3>1, <3>2, <3>3
  <2>3. Is(g, k + 1)
    <3>1. g = [n \in 0 .. k + 1 |-> g[n]]
      OBVIOUS
    <3> HIDE DEF g
    <3> QED
      BY <2>2, <3>1
  <2>4. k + 1 \in 0 .. N
    BY <1>1, <1>3
  <2> HIDE DEF g, Is
  <2> QED
    BY <2>3, <2>4
<1>4. \E f : Is(f, N)
  <2> HIDE DEF S
  <2>1. 0 .. N \subseteq S
    BY <1>1, <1>2, <1>3, UpTo
  <2> QED
    BY <1>1, <2>1 DEF S
<1> DEFINE run == CHOOSE f : Is(f, N)
<1>5. Is(run, N)
  <2> HIDE DEF Is
  <2> QED
    BY <1>4
<1>6. MergeAll(start, answer, wanted) = run[N]
  BY DEF MergeAll
<1> HIDE DEF run
<1>7. Merging(run, start, answer, wanted)
  BY <1>1, <1>5 DEF Merging
<1> QED
  BY <1>6, <1>7

-----------------------------------------------------------------------------
(* The merge of one order.                                                 *)
Merges == [rows : Seq(Orders), ids : SUBSET Ids, notice : Notices]
Kept(m) == m.ids \subseteq IdsOf(m.rows)

LEMMA FirstRow ==
  ASSUME NEW rows \in Seq(Orders), NEW id \in IdsOf(rows)
  PROVE  /\ RowOf(rows, id) \in DOMAIN rows /\ rows[RowOf(rows, id)].id = id
         /\ \A j \in 1 .. RowOf(rows, id) - 1 : rows[j].id # id
<1> DEFINE S == {i \in DOMAIN rows : rows[i].id = id}
<1>1. S \in SUBSET Nat /\ S # {}
  BY DEF IdsOf
<1>2. PICK i \in S : \A j \in S : i <= j
  <2> HIDE DEF S
  <2> QED
    BY <1>1, LeastOf
<1>3. i \in DOMAIN rows /\ rows[i].id = id /\ \A j \in 1 .. i - 1 : rows[j].id # id
  BY <1>2
<1> QED
  BY <1>3 DEF RowOf

(* What a seller has to hear of an order that takes the place of an older  *)
(* one of the same UUID, or of none.                                       *)
Better(o, wanted) == wanted # NoOrder /\ o.price > wanted.price

UpdatedRow(m, o, wanted, new, i) ==
  /\ m.rows[i].id = o.id
  /\ new.rows = [m.rows EXCEPT ![i] = [m.rows[i] EXCEPT !.price = o.price]]
  /\ m.rows[i].price # o.price /\ Better(o, wanted) => new.notice = "BetterPriceAvailable"
  /\ \/ new.notice = m.notice
     \/ new.notice = "BetterPriceAvailable"
     \/ wanted # NoOrder /\ o.id = wanted.id /\ new.notice = Told(new.rows, wanted)
NewRow(m, o, wanted, new) ==
  /\ o.id \notin m.ids
  /\ new.rows = Append(m.rows, o)
  /\ Better(o, wanted) => new.notice = "BetterPriceAvailable"
  /\ new.notice \in {m.notice, "BetterPriceAvailable"}
MergesTo(m, o, wanted, new) ==
  /\ new \in Merges /\ Kept(new)
  /\ new.ids = m.ids \cup {o.id} /\ IdsOf(new.rows) = IdsOf(m.rows) \cup {o.id}
  /\ \/ \E i \in DOMAIN m.rows : UpdatedRow(m, o, wanted, new, i)
     \/ NewRow(m, o, wanted, new)

LEMMA ToldNotice ==
  ASSUME NEW rows, NEW wanted
  PROVE  Told(rows, wanted) \in {"BetterPriceAvailable", "OrderNotExistingAnymore"}
  BY DEF Told

LEMMA MergeUpdates ==
  ASSUME NEW m \in Merges, Kept(m), NEW o \in Orders, NEW wanted \in Orders \cup {NoOrder}, o.id \in m.ids
  PROVE  MergesTo(m, o, wanted, Updated(m, o, wanted))
<1> DEFINE i == RowOf(m.rows, o.id)
           row == [m.rows[i] EXCEPT !.price = o.price]
           rows == [m.rows EXCEPT ![i] = row]
           told == IF wanted = NoOrder \/ m.rows[i].price = o.price THEN m.notice
                   ELSE IF o.price > wanted.price THEN "BetterPriceAvailable"
                   ELSE IF o.id = wanted.id THEN Told(rows, wanted)
                   ELSE m.notice
           new == [m EXCEPT !.rows = rows, !.notice = told]
<1>1. m.rows \in Seq(Orders) /\ m.ids \in SUBSET Ids /\ m.notice \in Notices
  BY DEF Merges
<1>2. i \in DOMAIN m.rows /\ m.rows[i].id = o.id
  BY <1>1, FirstRow DEF Kept
<1>3. new = Updated(m, o, wanted)
  BY DEF Updated
<1> HIDE DEF i
<1>4. row \in Orders /\ row.id = o.id /\ row.price = o.price
  <2>1. m.rows[i] \in Orders
    BY <1>1, <1>2
  <2> QED
    BY <1>2, <2>1 DEF Orders
<1> HIDE DEF row
<1>5. rows \in Seq(Orders) /\ DOMAIN rows = DOMAIN m.rows /\ IdsOf(rows) = IdsOf(m.rows)
  BY <1>1, <1>2, <1>4 DEF IdsOf
<1>6. told \in Notices
  BY <1>1, ToldNotice DEF Notices
<1>7. new.rows = rows /\ new.ids = m.ids /\ new.notice = told /\ new \in Merges
  <2> HIDE DEF rows, told
  <2> QED
    BY <1>1, <1>5, <1>6 DEF Merges
<1> HIDE DEF new
<1>8. o.id \in IdsOf(m.rows)
  BY DEF Kept
<1>9. Kept(new) /\ new.ids = m.ids \cup {o.id} /\ IdsOf(new.rows) = IdsOf(m.rows) \cup {o.id}
  <2> HIDE DEF rows, told
  <2> QED
    BY <1>5, <1>7, <1>8 DEF Kept
<1>10. UpdatedRow(m, o, wanted, new, i)
  BY <1>2, <1>7 DEF UpdatedRow, Better, row
<1> QED
  BY <1>2, <1>3, <1>7, <1>9, <1>10 DEF MergesTo

LEMMA MergeInserts ==
  ASSUME NEW m \in Merges, Kept(m), NEW o \in Orders, NEW wanted \in Orders \cup {NoOrder}, o.id \notin m.ids
  PROVE  MergesTo(m, o, wanted, Inserted(m, o, wanted))
<1> DEFINE rows == Append(m.rows, o)
           told == IF wanted # NoOrder /\ o.price > wanted.price THEN "BetterPriceAvailable" ELSE m.notice
           new == [rows |-> rows, ids |-> m.ids \cup {o.id}, notice |-> told]
<1>1. m.rows \in Seq(Orders) /\ m.ids \in SUBSET Ids /\ m.notice \in Notices /\ o.id \in Ids
  BY DEF Merges, Orders
<1>2. new = Inserted(m, o, wanted)
  BY DEF Inserted
<1>3. rows \in Seq(Orders) /\ IdsOf(rows) = IdsOf(m.rows) \cup {o.id}
  <2>1. rows \in Seq(Orders) /\ DOMAIN rows = DOMAIN m.rows \cup {Len(m.rows) + 1}
    BY <1>1
  <2>2. rows[Len(m.rows) + 1] = o /\ \A i \in DOMAIN m.rows : rows[i] = m.rows[i]
    BY <1>1
  <2> HIDE DEF rows
  <2> QED
    BY <2>1, <2>2 DEF IdsOf
<1> HIDE DEF rows
<1>4. new.rows = rows /\ new.ids = m.ids \cup {o.id} /\ new.notice = told /\ new \in Merges
  BY <1>1, <1>3 DEF Merges, Notices
<1>5. Kept(new) /\ IdsOf(new.rows) = IdsOf(m.rows) \cup {o.id}
  BY <1>3, <1>4 DEF Kept
<1>6. NewRow(m, o, wanted, new)
  BY <1>4 DEF NewRow, Better, rows
<1> QED
  BY <1>2, <1>4, <1>5, <1>6 DEF MergesTo

LEMMA MergeOneStep ==
  ASSUME NEW m \in Merges, Kept(m), NEW o \in Orders, NEW wanted \in Orders \cup {NoOrder}
  PROVE  MergesTo(m, o, wanted, MergeOne(m, o, wanted))
  BY MergeUpdates, MergeInserts DEF MergeOne

-----------------------------------------------------------------------------
(* A merge that has come to the n-th order of the answer.                  *)
Seen(answer, n) == {answer[k].id : k \in 1 .. n}
Single(list, x) ==
  /\ \A i, j \in DOMAIN list.rows : list.rows[i].id = x /\ list.rows[j].id = x => i = j
  /\ x \in IdsOf(list.rows) => x \in list.ids
Distinct(answer) == \A i, j \in DOMAIN answer : answer[i].id = answer[j].id => i = j
Raised(start, o) == \A i \in DOMAIN start.rows : start.rows[i].id = o.id => start.rows[i].price # o.price

Progress(start, answer, n, m) ==
  /\ m \in Merges /\ Kept(m)
  /\ m.ids = start.ids \cup Seen(answer, n)
  /\ IdsOf(m.rows) = IdsOf(start.rows) \cup Seen(answer, n)
  /\ \A x \in Ids : Single(start, x) => Single(m, x)
  /\ start.notice # "None" => m.notice # "None"

Untouched(start, answer, n, m) ==
  \A k \in n + 1 .. Len(answer) : \A i \in DOMAIN m.rows :
    m.rows[i].id = answer[k].id => i \in DOMAIN start.rows /\ m.rows[i] = start.rows[i]
Current(answer, n, m) ==
  \A k \in 1 .. n : \A i \in DOMAIN m.rows :
    m.rows[i].id = answer[k].id => m.rows[i].price = answer[k].price
Heard(start, answer, wanted, n, m) ==
  \A k \in 1 .. n :
    Better(answer[k], wanted) /\ Raised(start, answer[k]) => m.notice = "BetterPriceAvailable"

LEMMA SeenNext ==
  ASSUME NEW answer \in Seq(Orders), NEW n \in Nat
  PROVE  Seen(answer, n + 1) = Seen(answer, n) \cup {answer[n + 1].id}
<1>1. 1 .. n + 1 = (1 .. n) \cup {n + 1}
  OBVIOUS
<1> QED
  BY <1>1 DEF Seen

LEMMA RowsAfter ==
  ASSUME NEW m \in Merges, NEW o \in Orders, NEW wanted, NEW new, MergesTo(m, o, wanted, new)
  PROVE  \/ /\ DOMAIN new.rows = DOMAIN m.rows
            /\ \E i \in DOMAIN m.rows :
                 /\ m.rows[i].id = o.id /\ new.rows[i].id = o.id /\ new.rows[i].price = o.price
                 /\ \A j \in DOMAIN m.rows : j # i => new.rows[j] = m.rows[j]
         \/ /\ o.id \notin m.ids
            /\ DOMAIN new.rows = DOMAIN m.rows \cup {Len(m.rows) + 1}
            /\ Len(m.rows) + 1 \notin DOMAIN m.rows
            /\ new.rows[Len(m.rows) + 1] = o
            /\ \A j \in DOMAIN m.rows : new.rows[j] = m.rows[j]
<1>1. m.rows \in Seq(Orders)
  BY DEF Merges
<1>2. ASSUME NEW i \in DOMAIN m.rows, UpdatedRow(m, o, wanted, new, i)
      PROVE  /\ DOMAIN new.rows = DOMAIN m.rows
             /\ m.rows[i].id = o.id /\ new.rows[i].id = o.id /\ new.rows[i].price = o.price
             /\ \A j \in DOMAIN m.rows : j # i => new.rows[j] = m.rows[j]
  <2> DEFINE row == [m.rows[i] EXCEPT !.price = o.price]
  <2>1. m.rows[i] \in Orders
    BY <1>1
  <2>2. row.id = m.rows[i].id /\ row.price = o.price
    BY <2>1 DEF Orders
  <2>3. new.rows = [m.rows EXCEPT ![i] = row] /\ m.rows[i].id = o.id
    BY <1>2 DEF UpdatedRow
  <2> HIDE DEF row
  <2> QED
    BY <1>1, <2>2, <2>3
<1>3. ASSUME NewRow(m, o, wanted, new)
      PROVE  /\ o.id \notin m.ids
             /\ DOMAIN new.rows = DOMAIN m.rows \cup {Len(m.rows) + 1}
             /\ Len(m.rows) + 1 \notin DOMAIN m.rows
             /\ new.rows[Len(m.rows) + 1] = o
             /\ \A j \in DOMAIN m.rows : new.rows[j] = m.rows[j]
  BY <1>1, <1>3 DEF NewRow
<1> QED
  BY <1>2, <1>3 DEF MergesTo

LEMMA SingleAfter ==
  ASSUME NEW m \in Merges, Kept(m), NEW o \in Orders, NEW wanted, NEW new,
         MergesTo(m, o, wanted, new), NEW x, Single(m, x)
  PROVE  Single(new, x)
<1>1. x \in IdsOf(new.rows) => x \in new.ids
  BY DEF Single, MergesTo
<1>2. x \in IdsOf(m.rows) => x \in m.ids
  BY DEF Single
<1>3. \A j \in DOMAIN m.rows : m.rows[j].id = x => x \in m.ids
  BY <1>2 DEF IdsOf
<1>4. \A i, j \in DOMAIN m.rows : m.rows[i].id = x /\ m.rows[j].id = x => i = j
  BY DEF Single
<1>5. \A i, j \in DOMAIN new.rows : new.rows[i].id = x /\ new.rows[j].id = x => i = j
  BY <1>3, <1>4, RowsAfter
<1> QED
  BY <1>1, <1>5 DEF Single

LEMMA NoticeAfter ==
  ASSUME NEW m, NEW o, NEW wanted, NEW new, MergesTo(m, o, wanted, new), m.notice # "None"
  PROVE  new.notice # "None"
  BY ToldNotice DEF MergesTo, UpdatedRow, NewRow

LEMMA ProgressStep ==
  ASSUME NEW start, NEW answer \in Seq(Orders), NEW n \in 0 .. Len(answer), n # Len(answer),
         NEW wanted \in Orders \cup {NoOrder}, NEW m, Progress(start, answer, n, m),
         NEW new, MergesTo(m, answer[n + 1], wanted, new)
  PROVE  Progress(start, answer, n + 1, new)
<1> DEFINE o == answer[n + 1]
<1>1. o \in Orders
  OBVIOUS
<1>2. Seen(answer, n + 1) = Seen(answer, n) \cup {o.id}
  BY SeenNext
<1>3. m \in Merges /\ Kept(m) /\ MergesTo(m, o, wanted, new)
  BY DEF Progress
<1> HIDE DEF o
<1>4. \A x \in Ids : Single(start, x) => Single(new, x)
  BY <1>1, <1>3, SingleAfter DEF Progress
<1>5. start.notice # "None" => new.notice # "None"
  BY <1>3, NoticeAfter DEF Progress
<1> QED
  BY <1>2, <1>3, <1>4, <1>5 DEF Progress, MergesTo

(* When no UUID comes twice, the rows met so far have the prices of the    *)
(* answer, the others are as they were.                                    *)
LEMMA PricesStep ==
  ASSUME NEW start, NEW answer \in Seq(Orders), Distinct(answer),
         NEW n \in 0 .. Len(answer), n # Len(answer),
         NEW wanted \in Orders \cup {NoOrder}, NEW m, Progress(start, answer, n, m),
         Untouched(start, answer, n, m), Current(answer, n, m), \A x \in Ids : Single(start, x),
         NEW new, MergesTo(m, answer[n + 1], wanted, new)
  PROVE  Untouched(start, answer, n + 1, new) /\ Current(answer, n + 1, new)
<1> DEFINE o == answer[n + 1]
<1>1. o \in Orders /\ n + 1 \in DOMAIN answer
  OBVIOUS
<1>2. m \in Merges /\ Kept(m) /\ MergesTo(m, o, wanted, new)
  BY DEF Progress
<1>3. \A k \in DOMAIN answer : k # n + 1 => answer[k].id # o.id
  BY <1>1 DEF Distinct
<1>4. o.id \in Ids
  BY <1>1 DEF Orders
<1> HIDE DEF o
<1>5. Single(new, o.id)
  BY <1>1, <1>2, <1>4, SingleAfter DEF Progress
<1>6. \A i \in DOMAIN new.rows : new.rows[i].id # o.id => i \in DOMAIN m.rows /\ new.rows[i] = m.rows[i]
  BY <1>1, <1>2, RowsAfter
<1>7. \E i \in DOMAIN new.rows : new.rows[i].id = o.id /\ new.rows[i].price = o.price
  BY <1>1, <1>2, RowsAfter
<1>8. \A i \in DOMAIN new.rows : new.rows[i].id = o.id => new.rows[i].price = o.price
  BY <1>5, <1>7 DEF Single
<1>9. Untouched(start, answer, n + 1, new)
  <2> SUFFICES ASSUME NEW k \in n + 1 + 1 .. Len(answer), NEW i \in DOMAIN new.rows,
                      new.rows[i].id = answer[k].id
               PROVE  i \in DOMAIN start.rows /\ new.rows[i] = start.rows[i]
    BY DEF Untouched
  <2>1. k \in DOMAIN answer /\ k # n + 1 /\ k \in n + 1 .. Len(answer)
    OBVIOUS
  <2> QED
    BY <1>3, <1>6, <2>1 DEF Untouched
<1>10. Current(answer, n + 1, new)
  <2> SUFFICES ASSUME NEW k \in 1 .. n + 1, NEW i \in DOMAIN new.rows, new.rows[i].id = answer[k].id
               PROVE  new.rows[i].price = answer[k].price
    BY DEF Current
  <2>1. CASE k = n + 1
    BY <1>8, <2>1 DEF o
  <2>2. CASE k # n + 1
    <3>1. k \in DOMAIN answer /\ k \in 1 .. n
      BY <2>2
    <3> QED
      BY <1>3, <1>6, <2>2, <3>1 DEF Current
  <2> QED
    BY <2>1, <2>2
<1> QED
  BY <1>9, <1>10

(* A seller who has heard of a better price goes on hearing of it.         *)
LEMMA HeardStep ==
  ASSUME NEW start, NEW answer \in Seq(Orders), Distinct(answer),
         NEW n \in 0 .. Len(answer), n # Len(answer),
         NEW wanted \in Orders \cup {NoOrder}, NEW m, Progress(start, answer, n, m),
         Untouched(start, answer, n, m), Heard(start, answer, wanted, n, m),
         NEW new, MergesTo(m, answer[n + 1], wanted, new),
         Progress(start, answer, n + 1, new), Current(answer, n + 1, new)
  PROVE  Heard(start, answer, wanted, n + 1, new)
<1> DEFINE o == answer[n + 1]
<1> SUFFICES ASSUME NEW k \in 1 .. n + 1, Better(answer[k], wanted), Raised(start, answer[k])
             PROVE  new.notice = "BetterPriceAvailable"
  BY DEF Heard
<1>1. o \in Orders /\ n + 1 \in n + 1 .. Len(answer)
  OBVIOUS
<1>2. MergesTo(m, o, wanted, new)
  OBVIOUS
<1>3. wanted # NoOrder => Told(new.rows, wanted) = "BetterPriceAvailable"
  <2>1. answer[k].id \in Seen(answer, n + 1)
    BY DEF Seen
  <2>2. PICK i \in DOMAIN new.rows : new.rows[i].id = answer[k].id
    BY <2>1 DEF Progress, IdsOf
  <2>3. new.rows[i].price = answer[k].price
    BY <2>2 DEF Current
  <2> QED
    BY <2>3 DEF Told, Better
<1>4. CASE k \in 1 .. n
  <2>1. m.notice = "BetterPriceAvailable"
    BY <1>4 DEF Heard
  <2> HIDE DEF o
  <2> QED
    BY <1>2, <1>3, <2>1 DEF MergesTo, UpdatedRow, NewRow
<1>5. CASE k = n + 1
  <2>1. \A i \in DOMAIN m.rows : m.rows[i].id = o.id => m.rows[i].price # o.price
    BY <1>1, <1>5 DEF Untouched, Raised
  <2>2. Better(o, wanted)
    BY <1>5
  <2> HIDE DEF o
  <2> QED
    BY <1>2, <2>1, <2>2 DEF MergesTo, UpdatedRow, NewRow
<1> QED
  BY <1>4, <1>5

LEMMA ProgressStart ==
  ASSUME NEW start \in Merges, Kept(start), NEW answer
  PROVE  Progress(start, answer, 0, start)
<1>1. Seen(answer, 0) = {}
  BY DEF Seen
<1> QED
  BY <1>1 DEF Progress

(* A merge of a whole answer.                                              *)
LEMMA MergeAllProgress ==
  ASSUME NEW start \in Merges, Kept(start), NEW answer \in Seq(Orders),
         NEW wanted \in Orders \cup {NoOrder}
  PROVE  Progress(start, answer, Len(answer), MergeAll(start, answer, wanted))
<1> DEFINE N == Len(answer)
<1>1. N \in Nat
  OBVIOUS
<1>2. PICK run : Merging(run, start, answer, wanted) /\ MergeAll(start, answer, wanted) = run[N]
  BY MergeAllRun
<1> DEFINE S == {n \in 0 .. N : Progress(start, answer, n, run[n])}
<1>3. 0 \in S
  BY <1>1, <1>2, ProgressStart DEF Merging
<1>4. ASSUME NEW n \in 0 .. N, n \in S, n # N PROVE n + 1 \in S
  <2>1. n + 1 \in 1 .. N /\ n + 1 \in 0 .. N /\ n + 1 - 1 = n
    BY <1>1, <1>4
  <2>2. run[n + 1] = MergeOne(run[n], answer[n + 1], wanted)
    BY <1>2, <2>1 DEF Merging
  <2>3. Progress(start, answer, n, run[n]) /\ answer[n + 1] \in Orders
    BY <1>4, <2>1
  <2>4. MergesTo(run[n], answer[n + 1], wanted, run[n + 1])
    BY <2>2, <2>3, MergeOneStep DEF Progress
  <2>5. Progress(start, answer, n + 1, run[n + 1])
    BY <1>4, <2>3, <2>4, ProgressStep
  <2> QED
    BY <2>1, <2>5
<1> HIDE DEF S
<1>5. 0 .. N \subseteq S
  BY <1>1, <1>3, <1>4, UpTo
<1> QED
  BY <1>1, <1>2, <1>5 DEF S

LEMMA MergeAllPrices ==
  ASSUME NEW start \in Merges, Kept(start), NEW answer \in Seq(Orders), Distinct(answer),
         NEW wanted \in Orders \cup {NoOrder}, \A x \in Ids : Single(start, x)
  PROVE  /\ Current(answer, Len(answer), MergeAll(start, answer, wanted))
         /\ Heard(start, answer, wanted, Len(answer), MergeAll(start, answer, wanted))
<1> DEFINE N == Len(answer)
<1>1. N \in Nat
  OBVIOUS
<1>2. PICK run : Merging(run, start, answer, wanted) /\ MergeAll(start, answer, wanted) = run[N]
  BY MergeAllRun
<1> DEFINE Good(n) ==
      /\ Progress(start, answer, n, run[n])
      /\ Untouched(start, answer, n, run[n])
      /\ Current(answer, n, run[n])
      /\ Heard(start, answer, wanted, n, run[n])
    S == {n \in 0 .. N : Good(n)}
<1>3. 0 \in S
  <2>1. run[0] = start
    BY <1>2 DEF Merging
  <2>2. Progress(start, answer, 0, run[0])
    BY <2>1, ProgressStart
  <2>3. Untouched(start, answer, 0, run[0]) /\ Current(answer, 0, run[0]) /\ Heard(start, answer, wanted, 0, run[0])
    BY <2>1 DEF Untouched, Current, Heard
  <2> QED
    BY <1>1, <2>2, <2>3
<1>4. ASSUME NEW n \in 0 .. N, n \in S, n # N PROVE n + 1 \in S
  <2>1. n + 1 \in 1 .. N /\ n + 1 \in 0 .. N /\ n + 1 - 1 = n
    BY <1>1, <1>4
  <2>2. run[n + 1] = MergeOne(run[n], answer[n + 1], wanted)
    BY <1>2, <2>1 DEF Merging
  <2>3. Good(n) /\ answer[n + 1] \in Orders
    BY <1>4, <2>1
  <2>4. MergesTo(run[n], answer[n + 1], wanted, run[n + 1])
    BY <2>2, <2>3, MergeOneStep DEF Progress
  <2>5. Progress(start, answer, n + 1, run[n + 1])
    BY <1>4, <2>3, <2>4, ProgressStep
  <2>6. Untouched(start, answer, n + 1, run[n + 1]) /\ Current(answer, n + 1, run[n + 1])
    BY <1>4, <2>3, <2>4, PricesStep
  <2>7. Heard(start, answer, wanted, n + 1, run[n + 1])
    BY <1>4, <2>3, <2>4, <2>5, <2>6, HeardStep
  <2> QED
    BY <2>1, <2>5, <2>6, <2>7
<1> HIDE DEF S
<1>5. 0 .. N \subseteq S
  BY <1>1, <1>3, <1>4, UpTo
<1> QED
  BY <1>1, <1>2, <1>5 DEF S

-----------------------------------------------------------------------------
(* The removal: the kept rows in their order.                              *)
KeptRows(rows, ids) == {i \in DOMAIN rows : rows[i].id \notin ids \/ i # RowOf(rows, rows[i].id)}

(* The n-th element of a finite set of numbers.                            *)
LEMMA Ranks ==
  ASSUME NEW T \in SUBSET Nat, IsFiniteSet(T)
  PROVE  /\ Cardinality(T) \in Nat
         /\ \A i \in T : Cardinality({j \in T : j <= i}) \in 1 .. Cardinality(T)
         /\ \A i, k \in T : Cardinality({j \in T : j <= i}) = Cardinality({j \in T : j <= k}) => i = k
         /\ \A n \in 1 .. Cardinality(T) : \E i \in T : Cardinality({j \in T : j <= i}) = n
<1> DEFINE Below(i) == {j \in T : j <= i}
           rank == [i \in T |-> Cardinality(Below(i))]
           C == Cardinality(T)
<1>1. C \in Nat
  BY FS_CardinalityType
<1>2. ASSUME NEW i \in T
      PROVE  IsFiniteSet(Below(i)) /\ Cardinality(Below(i)) \in 1 .. C
  <2>1. Below(i) \subseteq T /\ i \in Below(i)
    OBVIOUS
  <2> HIDE DEF Below
  <2>2. IsFiniteSet(Below(i)) /\ Cardinality(Below(i)) <= C
    BY <2>1, FS_Subset
  <2>3. Cardinality(Below(i)) \in Nat /\ Cardinality(Below(i)) # 0
    BY <2>1, <2>2, FS_CardinalityType, FS_EmptySet
  <2> QED
    BY <1>1, <2>2, <2>3
<1>3. ASSUME NEW i \in T, NEW k \in T, i < k
      PROVE  Cardinality(Below(i)) # Cardinality(Below(k))
  <2>1. Below(i) \subseteq Below(k) /\ Below(i) # Below(k)
    <3>1. k \in Below(k) /\ k \notin Below(i)
      BY <1>3
    <3>2. \A j \in T : j <= i => j <= k
      BY <1>3
    <3>3. Below(i) \subseteq Below(k)
      BY <3>2
    <3> QED
      BY <3>1, <3>3
  <2>2. IsFiniteSet(Below(k)) /\ Cardinality(Below(k)) \in Nat
    BY <1>2
  <2> HIDE DEF Below
  <2> QED
    BY <2>1, <2>2, FS_Subset
<1>4. rank \in Injection(T, 1 .. C)
  <2>1. rank \in [T -> 1 .. C]
    BY <1>2
  <2>2. \A i, k \in T : rank[i] = rank[k] => i = k
    <3> SUFFICES ASSUME NEW i \in T, NEW k \in T, i # k PROVE rank[i] # rank[k]
      OBVIOUS
    <3>1. rank[i] = Cardinality(Below(i)) /\ rank[k] = Cardinality(Below(k))
      OBVIOUS
    <3>2. i < k \/ k < i
      OBVIOUS
    <3> HIDE DEF rank, Below
    <3> QED
      BY <1>3, <3>1, <3>2
  <2> HIDE DEF rank
  <2> QED
    BY <2>1, <2>2 DEF Injection, IsInjective
<1>5. IsFiniteSet(1 .. C) /\ Cardinality(1 .. C) = C
  BY <1>1, FS_Interval
<1>6. rank \in Surjection(T, 1 .. C)
  <2> HIDE DEF rank
  <2> QED
    BY <1>4, <1>5, FS_Injection
<1>7. \A n \in 1 .. C : \E i \in T : rank[i] = n
  <2> HIDE DEF rank
  <2> QED
    BY <1>6 DEF Surjection
<1>8. \A i, k \in T : rank[i] = rank[k] => i = k
  <2> HIDE DEF rank
  <2> QED
    BY <1>4 DEF Injection, IsInjective
<1>9. \A i \in T : rank[i] = Cardinality({j \in T : j <= i})
  OBVIOUS
<1> HIDE DEF rank
<1> QED
  BY <1>1, <1>2, <1>7, <1>8, <1>9

LEMMA WithoutRows ==
  ASSUME NEW rows \in Seq(Orders), NEW ids
  PROVE  /\ Without(rows, ids) \in Seq(Orders)
         /\ \E from :
              /\ \A n \in DOMAIN Without(rows, ids) :
                   from[n] \in KeptRows(rows, ids) /\ Without(rows, ids)[n] = rows[from[n]]
              /\ \A n, k \in DOMAIN Without(rows, ids) : from[n] = from[k] => n = k
              /\ \A i \in KeptRows(rows, ids) : \E n \in DOMAIN Without(rows, ids) : from[n] = i
<1> DEFINE T == KeptRows(rows, ids)
           C == Cardinality(T)
           Rank(i) == Cardinality({j \in T : j <= i})
           from == [n \in 1 .. C |-> CHOOSE i \in T : Rank(i) = n]
           W == Without(rows, ids)
<1>1. T \in SUBSET Nat /\ T \subseteq 1 .. Len(rows) /\ Len(rows) \in Nat
  BY DEF KeptRows
<1> HIDE DEF T
<1>2. IsFiniteSet(T)
  <2>1. IsFiniteSet(1 .. Len(rows))
    BY <1>1, FS_Interval
  <2> QED
    BY <1>1, <2>1, FS_Subset
<1>3. /\ C \in Nat
      /\ \A i \in T : Rank(i) \in 1 .. C
      /\ \A i, k \in T : Rank(i) = Rank(k) => i = k
      /\ \A n \in 1 .. C : \E i \in T : Rank(i) = n
  BY <1>1, <1>2, Ranks
<1>4. W = [n \in 1 .. C |-> rows[CHOOSE i \in T : Rank(i) = n]]
  BY DEF Without, T, KeptRows
<1> HIDE DEF Rank
<1>5. \A n \in 1 .. C : from[n] \in T /\ Rank(from[n]) = n
  BY <1>3
<1>6. W = [n \in 1 .. C |-> rows[from[n]]]
  BY <1>4
<1> HIDE DEF from, C, W
<1>7. W \in Seq(Orders) /\ DOMAIN W = 1 .. C /\ \A n \in 1 .. C : W[n] = rows[from[n]]
  <2>1. \A n \in 1 .. C : rows[from[n]] \in Orders
    <3>1. \A i \in 1 .. Len(rows) : rows[i] \in Orders
      OBVIOUS
    <3> QED
      BY <1>1, <1>5, <3>1
  <2> QED
    BY <1>3, <1>6, <2>1
<1>8. \A n, k \in 1 .. C : from[n] = from[k] => n = k
  BY <1>5
<1>9. \A i \in T : \E n \in 1 .. C : from[n] = i
  BY <1>3, <1>5
<1> QED
  BY <1>5, <1>7, <1>8, <1>9 DEF T, W

(* The removal takes the only row of a UUID, and leaves the rows of every  *)
(* other UUID.                                                             *)
OneRow(rows, x) == \A i, j \in DOMAIN rows : rows[i].id = x /\ rows[j].id = x => i = j

LEMMA WithoutKeeps ==
  ASSUME NEW rows \in Seq(Orders), NEW ids
  PROVE  /\ Without(rows, ids) \in Seq(Orders)
         /\ \A n \in DOMAIN Without(rows, ids) : \E i \in DOMAIN rows : Without(rows, ids)[n] = rows[i]
         /\ \A i \in DOMAIN rows : rows[i].id \notin ids =>
              \E n \in DOMAIN Without(rows, ids) : Without(rows, ids)[n] = rows[i]
         /\ \A x : OneRow(rows, x) => OneRow(Without(rows, ids), x)
         /\ \A x \in ids : OneRow(rows, x) => x \notin IdsOf(Without(rows, ids))
<1> DEFINE W == Without(rows, ids)
<1>1. PICK from :
        /\ \A n \in DOMAIN W : from[n] \in KeptRows(rows, ids) /\ W[n] = rows[from[n]]
        /\ \A n, k \in DOMAIN W : from[n] = from[k] => n = k
        /\ \A i \in KeptRows(rows, ids) : \E n \in DOMAIN W : from[n] = i
  BY WithoutRows
<1>2. W \in Seq(Orders)
  BY WithoutRows
<1> HIDE DEF W
<1>3. \A n \in DOMAIN W : from[n] \in DOMAIN rows /\ W[n] = rows[from[n]]
  BY <1>1 DEF KeptRows
<1>4. ASSUME NEW i \in DOMAIN rows, rows[i].id \notin ids PROVE \E n \in DOMAIN W : W[n] = rows[i]
  <2>1. i \in KeptRows(rows, ids)
    BY <1>4 DEF KeptRows
  <2> QED
    BY <1>1, <2>1
<1>5. ASSUME NEW x, OneRow(rows, x) PROVE OneRow(W, x)
  <2> SUFFICES ASSUME NEW i \in DOMAIN W, NEW j \in DOMAIN W, W[i].id = x, W[j].id = x PROVE i = j
    BY DEF OneRow
  <2>1. from[i] = from[j]
    BY <1>3, <1>5 DEF OneRow
  <2> QED
    BY <1>1, <2>1
<1>6. ASSUME NEW x \in ids, OneRow(rows, x), NEW n \in DOMAIN W, W[n].id = x PROVE FALSE
  <2>1. from[n] \in DOMAIN rows /\ rows[from[n]].id = x /\ from[n] \in KeptRows(rows, ids)
    BY <1>1, <1>3, <1>6
  <2>2. from[n] # RowOf(rows, x)
    BY <2>1 DEF KeptRows
  <2>3. x \in IdsOf(rows)
    BY <2>1 DEF IdsOf
  <2>4. RowOf(rows, x) \in DOMAIN rows /\ rows[RowOf(rows, x)].id = x
    BY <2>3, FirstRow
  <2> QED
    BY <1>6, <2>1, <2>2, <2>4 DEF OneRow
<1>7. \A x \in ids : OneRow(rows, x) => x \notin IdsOf(W)
  BY <1>6 DEF IdsOf
<1> QED
  BY <1>2, <1>3, <1>4, <1>5, <1>7 DEF W

LEMMA WithoutLeaves ==
  ASSUME NEW rows \in Seq(Orders), NEW ids, NEW i \in DOMAIN rows, rows[i].id \notin ids
  PROVE  \E n \in DOMAIN Without(rows, ids) : Without(rows, ids)[n] = rows[i]
<1>1. \A k \in DOMAIN rows : rows[k].id \notin ids =>
        \E n \in DOMAIN Without(rows, ids) : Without(rows, ids)[n] = rows[k]
  BY WithoutKeeps
<1> QED
  BY <1>1

-----------------------------------------------------------------------------
(* A whole merge, with its removals.                                       *)
Priced(rows, answer) ==
  \A i \in DOMAIN rows : \A k \in DOMAIN answer :
    rows[i].id = answer[k].id => rows[i].price = answer[k].price

LEMMA SeenAll ==
  ASSUME NEW answer \in Seq(Orders)
  PROVE  Seen(answer, Len(answer)) = IdsOf(answer) /\ IdsOf(answer) \subseteq Ids
<1>1. DOMAIN answer = 1 .. Len(answer) /\ \A k \in DOMAIN answer : answer[k] \in Orders
  OBVIOUS
<1>2. \A k \in DOMAIN answer : answer[k].id \in Ids
  BY <1>1 DEF Orders
<1> QED
  BY <1>1, <1>2 DEF Seen, IdsOf

LEMMA MergedShape ==
  ASSUME NEW list \in Lists, NEW answer, NEW wanted, NEW merged \in Merged(list, answer, wanted)
  PROVE  \E start, m, gone, before :
           /\ start = [rows |-> list.rows, ids |-> list.ids, notice |-> notice]
           /\ m = MergeAll(start, answer, wanted) /\ gone = m.ids \ IdsOf(answer)
           /\ before \in SUBSET gone /\ (wanted = NoOrder \/ wanted.id \notin before)
           /\ merged.rows = Without(m.rows, gone) /\ merged.ids = m.ids \ gone
           /\ merged.notice = NoticeOf(m, gone, before, wanted)
  BY DEF Merged

LEMMA MergedList ==
  ASSUME NEW list \in Lists, Kept(list), notice \in Notices, NEW answer \in Seq(Orders),
         NEW wanted \in Orders \cup {NoOrder}, NEW merged \in Merged(list, answer, wanted)
  PROVE  /\ merged.rows \in Seq(Orders) /\ merged.ids \in SUBSET Ids /\ merged.notice \in Notices
         /\ merged.ids = IdsOf(answer) /\ Kept(merged)
         /\ \A x \in Ids : Single(list, x) => Single(merged, x)
         /\ notice # "None" => merged.notice # "None"
         /\ wanted # NoOrder /\ wanted.id \in list.ids /\ wanted.id \notin IdsOf(answer) =>
              merged.notice # "None"
<1>1. PICK start, m, gone, before :
           /\ start = [rows |-> list.rows, ids |-> list.ids, notice |-> notice]
           /\ m = MergeAll(start, answer, wanted) /\ gone = m.ids \ IdsOf(answer)
           /\ before \in SUBSET gone /\ (wanted = NoOrder \/ wanted.id \notin before)
           /\ merged.rows = Without(m.rows, gone) /\ merged.ids = m.ids \ gone
           /\ merged.notice = NoticeOf(m, gone, before, wanted)
  BY MergedShape
<1>2. /\ start \in Merges /\ Kept(start) /\ start.notice = notice /\ start.ids = list.ids
      /\ start.rows = list.rows
  BY <1>1 DEF Merges, Lists, Kept
<1>3. Progress(start, answer, Len(answer), m)
  BY <1>1, <1>2, MergeAllProgress
<1>4. m \in Merges /\ m.rows \in Seq(Orders) /\ m.ids \in SUBSET Ids /\ m.notice \in Notices /\ Kept(m)
  BY <1>3 DEF Progress, Merges
<1>5. m.ids = list.ids \cup IdsOf(answer) /\ IdsOf(m.rows) = IdsOf(list.rows) \cup IdsOf(answer)
  BY <1>2, <1>3, SeenAll DEF Progress
<1>6. merged.ids = IdsOf(answer) /\ IdsOf(answer) \subseteq Ids
  BY <1>1, <1>5, SeenAll
<1>7. merged.rows \in Seq(Orders)
  BY <1>1, <1>4, WithoutKeeps
<1>8. Kept(merged)
  <2> SUFFICES ASSUME NEW x \in IdsOf(answer) PROVE x \in IdsOf(merged.rows)
    BY <1>6 DEF Kept
  <2>1. PICK i \in DOMAIN m.rows : m.rows[i].id = x
    BY <1>5 DEF IdsOf
  <2>2. m.rows[i].id \notin gone
    BY <1>1, <2>1
  <2>3. \E n \in DOMAIN Without(m.rows, gone) : Without(m.rows, gone)[n] = m.rows[i]
    BY <1>4, <2>2, WithoutLeaves
  <2>4. PICK n \in DOMAIN merged.rows : merged.rows[n] = m.rows[i]
    BY <1>1, <2>3
  <2> QED
    BY <2>1, <2>4 DEF IdsOf
<1>9. ASSUME NEW x \in Ids, Single(list, x) PROVE Single(merged, x)
  <2>1. Single(start, x)
    BY <1>2, <1>9 DEF Single
  <2>2. Single(m, x)
    BY <1>3, <2>1 DEF Progress
  <2>3. OneRow(m.rows, x)
    BY <2>2 DEF Single, OneRow
  <2>4. OneRow(merged.rows, x) /\ (x \in gone => x \notin IdsOf(merged.rows))
    BY <1>1, <1>4, <2>3, WithoutKeeps
  <2>5. x \in IdsOf(merged.rows) => x \in IdsOf(m.rows)
    <3> SUFFICES ASSUME NEW n \in DOMAIN merged.rows, merged.rows[n].id = x PROVE x \in IdsOf(m.rows)
      BY DEF IdsOf
    <3>1. PICK i \in DOMAIN m.rows : merged.rows[n] = m.rows[i]
      BY <1>1, <1>4, WithoutKeeps
    <3> QED
      BY <3>1 DEF IdsOf
  <2>6. x \in IdsOf(merged.rows) => x \in merged.ids
    BY <1>1, <2>2, <2>4, <2>5 DEF Single
  <2> QED
    BY <2>4, <2>6 DEF Single, OneRow
<1>10. notice # "None" => m.notice # "None"
  BY <1>2, <1>3 DEF Progress
<1>11. /\ merged.notice \in Notices /\ (notice # "None" => merged.notice # "None")
       /\ wanted # NoOrder /\ wanted.id \in gone => merged.notice # "None"
  BY <1>1, <1>4, <1>10, ToldNotice DEF NoticeOf, Notices
<1> QED
  BY <1>1, <1>5, <1>6, <1>7, <1>8, <1>9, <1>11

(* When no UUID comes twice, the rows are those of the answer at its       *)
(* prices, and a seller hears of a better price.                           *)
LEMMA MergedPrices ==
  ASSUME NEW list \in Lists, Kept(list), notice \in Notices, NEW answer \in Seq(Orders), Distinct(answer),
         NEW wanted \in Orders \cup {NoOrder}, NEW merged \in Merged(list, answer, wanted),
         \A x \in Ids : Single(list, x)
  PROVE  /\ Priced(merged.rows, answer)
         /\ \A k \in DOMAIN answer :
              Better(answer[k], wanted) /\ Raised(list, answer[k]) => merged.notice = "BetterPriceAvailable"
<1>1. PICK start, m, gone, before :
           /\ start = [rows |-> list.rows, ids |-> list.ids, notice |-> notice]
           /\ m = MergeAll(start, answer, wanted) /\ gone = m.ids \ IdsOf(answer)
           /\ before \in SUBSET gone /\ (wanted = NoOrder \/ wanted.id \notin before)
           /\ merged.rows = Without(m.rows, gone) /\ merged.ids = m.ids \ gone
           /\ merged.notice = NoticeOf(m, gone, before, wanted)
  BY MergedShape
<1>2. /\ start \in Merges /\ Kept(start) /\ start.notice = notice /\ start.ids = list.ids
      /\ start.rows = list.rows
  BY <1>1 DEF Merges, Lists, Kept
<1>3. \A x \in Ids : Single(start, x)
  BY <1>2 DEF Single
<1>4. /\ Progress(start, answer, Len(answer), m) /\ Current(answer, Len(answer), m)
      /\ Heard(start, answer, wanted, Len(answer), m)
  BY <1>1, <1>2, <1>3, MergeAllProgress, MergeAllPrices
<1>5. m.rows \in Seq(Orders) /\ IdsOf(answer) \subseteq IdsOf(m.rows)
  BY <1>4, SeenAll DEF Progress, Merges
<1>6. \A i \in DOMAIN m.rows : \A k \in DOMAIN answer :
        m.rows[i].id = answer[k].id => m.rows[i].price = answer[k].price
  BY <1>4 DEF Current
<1>7. Priced(merged.rows, answer)
  <2> SUFFICES ASSUME NEW n \in DOMAIN merged.rows, NEW k \in DOMAIN answer,
                      merged.rows[n].id = answer[k].id
               PROVE  merged.rows[n].price = answer[k].price
    BY DEF Priced
  <2>1. PICK i \in DOMAIN m.rows : merged.rows[n] = m.rows[i]
    BY <1>1, <1>5, WithoutKeeps
  <2> QED
    BY <1>6, <2>1
<1>8. ASSUME NEW k \in DOMAIN answer, Better(answer[k], wanted), Raised(list, answer[k])
      PROVE  merged.notice = "BetterPriceAvailable"
  <2>1. Raised(start, answer[k])
    BY <1>2, <1>8 DEF Raised
  <2>2. m.notice = "BetterPriceAvailable"
    BY <1>4, <1>8, <2>1 DEF Heard
  <2>3. answer[k].id \in IdsOf(answer)
    BY DEF IdsOf
  <2>4. PICK i \in DOMAIN m.rows : m.rows[i].id = answer[k].id
    BY <1>5, <2>3 DEF IdsOf
  <2>5. m.rows[i].price = answer[k].price /\ m.rows[i].id \notin before
    BY <1>1, <1>6, <2>3, <2>4
  <2>6. PICK n \in DOMAIN Without(m.rows, before) : Without(m.rows, before)[n] = m.rows[i]
    BY <1>5, <2>5, WithoutLeaves
  <2>7. Told(Without(m.rows, before), wanted) = "BetterPriceAvailable"
    BY <1>8, <2>5, <2>6 DEF Told, Better
  <2> QED
    BY <1>1, <2>2, <2>7 DEF NoticeOf
<1> QED
  BY <1>7, <1>8

-----------------------------------------------------------------------------
(* The rows stand for their data: every UUID of the data is registered and *)
(* has a row, and one row only, but for the twins of the best orders.      *)
Stands(list, data) == list \in Lists /\ Kept(list) /\ list.ids = IdsOf(data)
BidsStand(list, data) ==
  Stands(list, data) /\ Priced(list.rows, data) /\ \A x \in Ids : Single(list, x)
BestStand(list, data, twice) ==
  Stands(list, data) /\ \A x \in Ids \ twice : Single(list, x)

FormTyped ==
  /\ right \in Coins /\ view \in {"Pro", "Simple"} /\ mode \in {"Sell", "Buy"}
  /\ preferred \in Orders \cup {NoOrder} /\ pending \in Orders \cup {NoOrder}
  /\ notice \in Notices /\ watched \in BOOLEAN /\ carried \in BOOLEAN
DataTyped ==
  /\ found \in BestAnswers \cup {<< >>} /\ latest \in BidAnswers \cup {<< >>}
  /\ bestLatest \in BestAnswers \cup {<< >>} /\ twins \subseteq Ids
RowsInv ==
  /\ FormTyped /\ DataTyped
  /\ BidsStand(bids, latest) /\ BestStand(best, bestLatest, twins)
  /\ MissingIsTold

LEMMA Answers ==
  /\ \A a \in BidAnswers \cup {<< >>} : a \in Seq(Orders) /\ Distinct(a)
  /\ \A a \in BestAnswers \cup {<< >>} : a \in Seq(Orders)
  /\ NoOrder \notin Orders
<1>1. ASSUME NEW a \in BidAnswers PROVE Distinct(a)
  <2> DEFINE f == [i \in DOMAIN a |-> a[i].id]
  <2>1. IsInjective(f)
    BY RowsAssumption
  <2>2. DOMAIN f = DOMAIN a /\ \A i \in DOMAIN a : f[i] = a[i].id
    OBVIOUS
  <2> HIDE DEF f
  <2> QED
    BY <2>1, <2>2 DEF IsInjective, Distinct
<1>2. BidAnswers \cup BestAnswers \subseteq Seq(Orders)
  BY RowsAssumption DEF Orders
<1>3. << >> \in Seq(Orders) /\ Distinct(<< >>)
  BY DEF Distinct
<1> QED
  BY <1>1, <1>2, <1>3, RowsAssumption

LEMMA FilledStands ==
  ASSUME NEW data \in Seq(Orders)
  PROVE  /\ Stands(Filled(data), data) /\ Filled(data).rows = data
         /\ Distinct(data) => BidsStand(Filled(data), data)
         /\ \A x : OneRow(data, x) => Single(Filled(data), x)
<1> DEFINE list == Filled(data)
<1>1. list.rows = data /\ list.ids = IdsOf(data) /\ IdsOf(data) \subseteq Ids
  BY SeenAll DEF Filled
<1>2. list \in Lists
  BY <1>1 DEF Filled, Lists
<1>3. Stands(list, data)
  BY <1>1, <1>2 DEF Stands, Kept
<1>4. \A x : OneRow(data, x) => Single(list, x)
  BY <1>1 DEF Single, OneRow
<1>5. ASSUME Distinct(data) PROVE Priced(data, data) /\ \A x \in Ids : OneRow(data, x)
  <2>1. \A i, j \in DOMAIN data : data[i].id = data[j].id => i = j
    BY <1>5 DEF Distinct
  <2> QED
    BY <2>1 DEF Priced, OneRow
<1> HIDE DEF list
<1>6. Distinct(data) => BidsStand(list, data)
  BY <1>1, <1>3, <1>4, <1>5 DEF BidsStand
<1> QED
  BY <1>1, <1>3, <1>4, <1>6 DEF list

LEMMA EmptyStands == BidsStand(Empty, << >>) /\ BestStand(Empty, << >>, {})
<1>1. Empty = Filled(<< >>)
  <2>1. IdsOf(<< >>) = {}
    BY DEF IdsOf
  <2> QED
    BY <2>1 DEF Empty, Filled
<1>2. Distinct(<< >>) /\ << >> \in Seq(Orders)
  BY DEF Distinct
<1>3. BidsStand(Empty, << >>)
  BY <1>1, <1>2, FilledStands
<1> QED
  BY <1>3 DEF BidsStand, BestStand

(* The orders of the rows, which the user chooses among.                   *)
LEMMA RowOrders ==
  ASSUME RowsInv
  PROVE  /\ \A i \in DOMAIN bids.rows : bids.rows[i] \in Orders
         /\ \A id \in IdsOf(best.rows) : best.rows[RowOf(best.rows, id)] \in Orders
<1>1. bids.rows \in Seq(Orders) /\ best.rows \in Seq(Orders)
  BY DEF RowsInv, BidsStand, BestStand, Stands, Lists
<1>2. \A id \in IdsOf(best.rows) : RowOf(best.rows, id) \in DOMAIN best.rows
  BY <1>1, FirstRow
<1> QED
  BY <1>1, <1>2

(* A refresh.                                                              *)
LEMMA RefreshBids ==
  ASSUME RowsInv, NEW answer \in BidAnswers, Refresh(answer)
  PROVE  BidsStand(bids', latest') /\ notice' \in Notices /\ MissingIsTold'
<1> DEFINE wanted == IF mode = "Sell" THEN preferred ELSE NoOrder
<1>1. PICK merged \in Merged(bids, answer, wanted) :
        bids' = [rows |-> merged.rows, ids |-> merged.ids] /\ notice' = merged.notice
  BY DEF Refresh
<1>2. /\ latest' = answer /\ watched' = (watched \/ Shows(bids', preferred))
      /\ mode' = mode /\ preferred' = preferred
  BY DEF Refresh
<1>3. /\ bids \in Lists /\ Kept(bids) /\ notice \in Notices /\ \A x \in Ids : Single(bids, x)
      /\ MissingIsTold /\ watched \in BOOLEAN
  BY DEF RowsInv, FormTyped, BidsStand, Stands
<1>4. wanted \in Orders \cup {NoOrder}
  BY DEF RowsInv, FormTyped
<1>5. answer \in Seq(Orders) /\ Distinct(answer)
  BY Answers
<1> HIDE DEF wanted
<1>6. /\ merged.rows \in Seq(Orders) /\ merged.ids \in SUBSET Ids /\ merged.notice \in Notices
      /\ merged.ids = IdsOf(answer) /\ Kept(merged)
      /\ \A x \in Ids : Single(merged, x)
      /\ notice # "None" => merged.notice # "None"
      /\ wanted # NoOrder /\ wanted.id \in bids.ids /\ wanted.id \notin IdsOf(answer) =>
           merged.notice # "None"
  BY <1>1, <1>3, <1>4, <1>5, MergedList
<1>7. Priced(merged.rows, answer)
  BY <1>1, <1>3, <1>4, <1>5, MergedPrices
<1>8. bids'.rows = merged.rows /\ bids'.ids = merged.ids
  BY <1>1
<1>9. bids' \in Lists
  BY <1>1, <1>6 DEF Lists
<1>10. BidsStand(bids', latest')
  BY <1>2, <1>6, <1>7, <1>8, <1>9 DEF BidsStand, Stands, Kept, Single
<1>11. MissingIsTold'
  <2> SUFFICES ASSUME watched', mode' = "Sell", ~Shows(bids', preferred') PROVE notice' # "None"
    BY DEF MissingIsTold, Shows
  <2>1. watched /\ mode = "Sell" /\ ~Shows(bids', preferred)
    BY <1>2
  <2>2. CASE Shows(bids, preferred)
    <3>1. preferred # NoOrder /\ preferred.id \in bids.ids /\ preferred.id \notin IdsOf(answer)
      BY <1>6, <1>8, <2>1, <2>2 DEF Shows
    <3>2. wanted = preferred
      BY <2>1 DEF wanted
    <3> QED
      BY <1>1, <1>6, <3>1, <3>2
  <2>3. CASE ~Shows(bids, preferred)
    BY <1>1, <1>3, <1>6, <2>1, <2>3 DEF MissingIsTold
  <2> QED
    BY <2>2, <2>3
<1> QED
  BY <1>1, <1>6, <1>10, <1>11

LEMMA RefreshBestRows ==
  ASSUME RowsInv, RefreshBest
  PROVE  BestStand(best', bestLatest', twins') /\ twins' \subseteq Ids /\ bestLatest' = found
<1>1. found \in Seq(Orders) /\ twins \subseteq Ids /\ notice \in Notices
  BY Answers DEF RowsInv, DataTyped, FormTyped
<1>2. best \in Lists /\ Kept(best) /\ \A x \in Ids \ twins : Single(best, x)
  BY DEF RowsInv, BestStand, Stands
<1>3. bestLatest' = found
  BY DEF RefreshBest
<1>4. CASE found = << >>
  <2>1. best' = Empty /\ twins' = {}
    BY <1>4 DEF RefreshBest
  <2> QED
    BY <1>3, <1>4, <2>1, EmptyStands
<1>5. CASE found # << >> /\ best.rows = << >>
  <2>1. /\ best' = Filled(found)
        /\ twins' = {id \in IdsOf(found) :
                       \E i, j \in DOMAIN found : i # j /\ found[i].id = id /\ found[j].id = id}
    BY <1>5 DEF RefreshBest
  <2>2. \A x \in Ids \ twins' : OneRow(found, x)
    BY <2>1 DEF OneRow, IdsOf
  <2>3. Stands(best', found) /\ \A x \in Ids \ twins' : Single(best', x)
    BY <1>1, <2>1, <2>2, FilledStands
  <2>4. twins' \subseteq Ids
    BY <1>1, <2>1, SeenAll
  <2> QED
    BY <1>3, <2>3, <2>4 DEF BestStand
<1>6. CASE found # << >> /\ best.rows # << >>
  <2>1. twins' = twins /\ \E merged \in Merged(best, found, NoOrder) : best' = [rows |-> merged.rows, ids |-> merged.ids]
    BY <1>6 DEF RefreshBest
  <2>2. PICK merged \in Merged(best, found, NoOrder) : best' = [rows |-> merged.rows, ids |-> merged.ids]
    BY <2>1
  <2>3. /\ merged.rows \in Seq(Orders) /\ merged.ids \in SUBSET Ids
        /\ merged.ids = IdsOf(found) /\ Kept(merged)
        /\ \A x \in Ids : Single(best, x) => Single(merged, x)
    BY <1>1, <1>2, MergedList
  <2>4. best'.rows = merged.rows /\ best'.ids = merged.ids /\ best' \in Lists
    BY <2>2, <2>3 DEF Lists
  <2>5. BestStand(best', found, twins)
    BY <1>2, <2>3, <2>4 DEF BestStand, Stands, Kept, Single
  <2> QED
    BY <1>1, <1>3, <2>1, <2>5
<1> QED
  BY <1>4, <1>5, <1>6

(* A step leaves both lists standing for their data.                       *)
LEMMA StandKept ==
  ASSUME RowsInv, UNCHANGED bidVars \/ BidsCleared, UNCHANGED bestVars \/ BestCleared
  PROVE  /\ BidsStand(bids', latest') /\ BestStand(best', bestLatest', twins')
         /\ latest' \in BidAnswers \cup {<< >>} /\ bestLatest' \in BestAnswers \cup {<< >>} /\ twins' \subseteq Ids
<1>1. BidsStand(bids', latest')
  BY EmptyStands DEF RowsInv, bidVars, BidsCleared
<1>2. BestStand(best', bestLatest', twins')
  BY EmptyStands DEF RowsInv, bestVars, BestCleared
<1> QED
  BY <1>1, <1>2 DEF RowsInv, DataTyped, bidVars, bestVars, BidsCleared, BestCleared

(* An order preferred while the bids show it, or not at all: nothing to    *)
(* tell yet.                                                               *)
LEMMA PreferTells ==
  ASSUME NEW order, NEW list, Prefer(order, list), bids' = list
  PROVE  MissingIsTold' /\ watched' \in BOOLEAN /\ carried' \in BOOLEAN
<1>1. watched' = Shows(bids', preferred') /\ watched' \in BOOLEAN /\ carried' \in BOOLEAN
  BY DEF Prefer, Shows
<1> QED
  BY <1>1 DEF MissingIsTold, Shows

LEMMA ClearedTells ==
  ASSUME FormCleared
  PROVE  MissingIsTold' /\ watched' \in BOOLEAN /\ carried' \in BOOLEAN
         /\ preferred' = NoOrder /\ notice' = "None"
  BY DEF FormCleared, MissingIsTold

LEMMA SameTells ==
  ASSUME RowsInv, UNCHANGED <<watched, mode, preferred, notice>>, bids' = bids
  PROVE  MissingIsTold'
  BY DEF RowsInv, MissingIsTold, Shows

LEMMA ChangeRightInv ==
  ASSUME RowsInv, NEW coin \in Coins, ChangeRight(coin), UNCHANGED <<found, view, mode>>,
         pending' \in Orders \cup {NoOrder}
  PROVE  RowsInv'
<1>1. right' = coin
  BY DEF ChangeRight
<1>2. CASE view = "Pro"
  <2>1. BidsCleared /\ BestCleared /\ FormCleared
    BY <1>2 DEF ChangeRight
  <2> QED
    BY <1>1, <2>1, StandKept, ClearedTells DEF RowsInv, FormTyped, DataTyped, Notices
<1>3. CASE view # "Pro"
  <2>1. UNCHANGED bidVars /\ UNCHANGED bestVars /\ UNCHANGED formVars
    BY <1>3 DEF ChangeRight
  <2>2. MissingIsTold'
    BY <2>1, SameTells DEF bidVars, formVars
  <2> QED
    BY <1>1, <2>1, <2>2, StandKept DEF RowsInv, FormTyped, DataTyped, formVars
<1> QED
  BY <1>2, <1>3

LEMMA RowsStep == RowsInv /\ [Next]_vars => RowsInv'
<1> SUFFICES ASSUME RowsInv, [Next]_vars PROVE RowsInv'
  OBVIOUS
<1>0. NoOrder \notin Orders
  BY Answers
<1>1. ASSUME NEW answer \in BidAnswers, Refresh(answer) PROVE RowsInv'
  <2>1. /\ latest' = answer /\ watched' = (watched \/ Shows(bids', preferred)) /\ RefreshBest
        /\ UNCHANGED <<found, right, view, mode, preferred, pending, carried>>
    BY <1>1 DEF Refresh
  <2>2. BidsStand(bids', latest') /\ notice' \in Notices /\ MissingIsTold'
    BY <1>1, RefreshBids
  <2>3. BestStand(best', bestLatest', twins') /\ twins' \subseteq Ids /\ bestLatest' = found
    BY <2>1, RefreshBestRows
  <2>4. watched' \in BOOLEAN
    BY <2>1 DEF RowsInv, FormTyped, Shows
  <2> QED
    BY <2>1, <2>2, <2>3, <2>4 DEF RowsInv, FormTyped, DataTyped
<1>2. ASSUME NEW answer \in BidAnswers, Reset(answer) PROVE RowsInv'
  <2>1. /\ bids' = Filled(answer) /\ latest' = answer /\ pending' = NoOrder /\ BestCleared
        /\ UNCHANGED <<found, right, view, mode, notice>>
    BY <1>2 DEF Reset
  <2>2. \/ Prefer(NoOrder, bids')
        \/ Prefer(pending, bids')
        \/ watched' = Shows(bids', preferred) /\ UNCHANGED <<preferred, carried>>
    BY <1>2 DEF Reset
  <2>3. BidsStand(bids', latest')
    BY <2>1, Answers, FilledStands
  <2>4. BestStand(best', bestLatest', twins') /\ bestLatest' = << >> /\ twins' = {}
    BY <2>1, EmptyStands DEF BestCleared
  <2>5. /\ MissingIsTold' /\ watched' \in BOOLEAN /\ carried' \in BOOLEAN
        /\ preferred' \in Orders \cup {NoOrder}
    <3>1. CASE Prefer(NoOrder, bids')
      BY <3>1, PreferTells DEF Prefer
    <3>2. CASE Prefer(pending, bids')
      BY <3>2, PreferTells DEF Prefer, RowsInv, FormTyped
    <3>3. CASE watched' = Shows(bids', preferred) /\ UNCHANGED <<preferred, carried>>
      BY <3>3 DEF MissingIsTold, Shows, RowsInv, FormTyped
    <3> QED
      BY <2>2, <3>1, <3>2, <3>3
  <2> QED
    BY <2>1, <2>3, <2>4, <2>5 DEF RowsInv, FormTyped, DataTyped
<1>3. ASSUME NEW answer \in BestAnswers, StoreBestOrders(answer) PROVE RowsInv'
  <2>1. found' = answer /\ UNCHANGED bidVars /\ UNCHANGED bestVars /\ UNCHANGED formVars
        /\ UNCHANGED <<right, view, mode, pending>>
    BY <1>3 DEF StoreBestOrders
  <2>2. MissingIsTold'
    BY <2>1, SameTells DEF bidVars, formVars
  <2> QED
    BY <2>1, <2>2, StandKept DEF RowsInv, FormTyped, DataTyped, formVars
<1>4. ASSUME NEW coin \in Coins, SelectRight(coin) PROVE RowsInv'
  <2>1. ChangeRight(coin) /\ UNCHANGED <<found, view, mode>> /\ pending' = pending
    BY <1>4 DEF SelectRight
  <2> QED
    BY <2>1, ChangeRightInv DEF RowsInv, FormTyped
<1>5. ASSUME NEW other \in {"Sell", "Buy"}, SetMarketMode(other) PROVE RowsInv'
  <2>1. /\ mode' = other /\ FormCleared /\ UNCHANGED bidVars /\ UNCHANGED bestVars
        /\ UNCHANGED <<found, right, view, pending>>
    BY <1>5 DEF SetMarketMode
  <2> QED
    BY <2>1, StandKept, ClearedTells DEF RowsInv, FormTyped, DataTyped, Notices
<1>6. ASSUME NEW other \in {"Pro", "Simple"}, SetTradingMode(other) PROVE RowsInv'
  <2>1. /\ view' = other /\ mode' = "Sell" /\ FormCleared /\ UNCHANGED bidVars /\ UNCHANGED bestVars
        /\ UNCHANGED <<found, right, pending>>
    BY <1>6 DEF SetTradingMode
  <2> QED
    BY <2>1, StandKept, ClearedTells DEF RowsInv, FormTyped, DataTyped, Notices
<1>7. CASE ResetOrder
  <2>1. /\ FormCleared /\ UNCHANGED bidVars /\ UNCHANGED bestVars
        /\ UNCHANGED <<found, right, view, mode, pending>>
    BY <1>7 DEF ResetOrder
  <2> QED
    BY <2>1, StandKept, ClearedTells DEF RowsInv, FormTyped, DataTyped, Notices
<1>8. ASSUME NEW i \in DOMAIN bids.rows, SelectBid(bids.rows[i]) PROVE RowsInv'
  <2> DEFINE order == [bids.rows[i] EXCEPT !.coin = right]
  <2>1. /\ mode' = "Sell" /\ notice' \in {notice, "None"} /\ Prefer(order, bids)
        /\ UNCHANGED bidVars /\ UNCHANGED bestVars /\ UNCHANGED <<found, right, view, pending>>
    BY <1>8 DEF SelectBid
  <2>2. order \in Orders
    <3>1. bids.rows[i] \in Orders /\ right \in Coins
      BY RowOrders DEF RowsInv, FormTyped
    <3> QED
      BY <3>1 DEF Orders
  <2> HIDE DEF order
  <2>3. MissingIsTold' /\ watched' \in BOOLEAN /\ carried' \in BOOLEAN /\ preferred' = order
    BY <2>1, PreferTells DEF Prefer, bidVars
  <2>4. notice' \in Notices
    BY <2>1 DEF RowsInv, FormTyped, Notices
  <2> QED
    BY <2>1, <2>2, <2>3, <2>4, StandKept DEF RowsInv, FormTyped, DataTyped
<1>9. CASE ClearBestOrders
  <2>1. BestCleared /\ UNCHANGED bidVars /\ UNCHANGED formVars /\ UNCHANGED <<found, right, view, mode, pending>>
    BY <1>9 DEF ClearBestOrders
  <2>2. MissingIsTold'
    BY <2>1, SameTells DEF bidVars, formVars
  <2> QED
    BY <2>1, <2>2, StandKept DEF RowsInv, FormTyped, DataTyped, formVars
<1>10. ASSUME NEW order \in Orders, SelectBestOrder(order) PROVE RowsInv'
  <2>1. pending' = order /\ UNCHANGED <<found, view, mode>>
    BY <1>10 DEF SelectBestOrder
  <2>2. CASE order.coin = right
    <3>1. /\ Prefer(order, bids) /\ (BestCleared \/ UNCHANGED bestVars) /\ UNCHANGED bidVars
          /\ UNCHANGED <<right, notice>>
      BY <1>10, <2>2 DEF SelectBestOrder
    <3>2. MissingIsTold' /\ watched' \in BOOLEAN /\ carried' \in BOOLEAN /\ preferred' = order
      BY <3>1, PreferTells DEF Prefer, bidVars
    <3> QED
      BY <2>1, <3>1, <3>2, StandKept DEF RowsInv, FormTyped, DataTyped
  <2>3. CASE order.coin # right
    <3>1. ChangeRight(order.coin) /\ order.coin \in Coins
      BY <1>10, <2>3 DEF SelectBestOrder, Orders
    <3> QED
      BY <2>1, <3>1, ChangeRightInv
  <2> QED
    BY <2>2, <2>3
<1>11. CASE UNCHANGED vars
  <2>1. UNCHANGED bidVars /\ UNCHANGED bestVars /\ UNCHANGED formVars
        /\ UNCHANGED <<found, right, view, mode, pending>>
    BY <1>11 DEF vars, bidVars, bestVars, formVars
  <2>2. MissingIsTold'
    BY <2>1, SameTells DEF bidVars, formVars
  <2> QED
    BY <2>1, <2>2, StandKept DEF RowsInv, FormTyped, DataTyped, formVars
<1>12. \A id \in IdsOf(best.rows) : best.rows[RowOf(best.rows, id)] \in Orders
  BY RowOrders
<1> QED
  BY <1>1, <1>2, <1>3, <1>4, <1>5, <1>6, <1>7, <1>8, <1>9, <1>10, <1>11, <1>12 DEF Next

LEMMA RowsInvCorrect == Spec => []RowsInv
<1>1. Init => RowsInv
  <2> SUFFICES ASSUME Init PROVE RowsInv
    OBVIOUS
  <2>1. FormTyped /\ DataTyped /\ MissingIsTold
    BY DEF Init, FormTyped, DataTyped, MissingIsTold, Notices
  <2>2. BidsStand(bids, latest) /\ BestStand(best, bestLatest, twins)
    BY EmptyStands DEF Init
  <2> QED
    BY <2>1, <2>2 DEF RowsInv
<1> QED
  BY <1>1, RowsStep, PTL DEF Spec

(* The types, for all answers: no other notice, and every registered UUID  *)
(* has a row.                                                              *)
THEOREM TypeCorrect == Spec => []TypeOK
<1>1. RowsInv => TypeOK
  BY DEF RowsInv, FormTyped, DataTyped, BidsStand, BestStand, Stands, Kept, TypeOK
<1> QED
  BY <1>1, RowsInvCorrect, PTL

LEMMA Numbers ==
  ASSUME NEW n \in Nat
  PROVE  IsFiniteSet(1 .. n) /\ Cardinality(1 .. n) = n
  BY FS_Interval

(* Rows that stand for some orders without twins are as many as those.     *)
LEMMA OneToOne ==
  ASSUME NEW list, NEW data \in Seq(Orders), Distinct(data), BidsStand(list, data)
  PROVE  Len(list.rows) = Len(data)
<1> DEFINE I == 1 .. Len(list.rows)
           K == 1 .. Len(data)
           f == [i \in I |-> CHOOSE k \in K : data[k].id = list.rows[i].id]
<1>1. list.rows \in Seq(Orders) /\ Len(list.rows) \in Nat /\ Len(data) \in Nat
  BY DEF BidsStand, Stands, Lists
<1>2. \A i \in I : list.rows[i].id \in Ids
  <2>1. \A i \in I : list.rows[i] \in Orders
    BY <1>1
  <2> QED
    BY <2>1 DEF Orders
<1>3. \A i \in I : \E k \in K : data[k].id = list.rows[i].id
  <2> SUFFICES ASSUME NEW i \in I PROVE \E k \in K : data[k].id = list.rows[i].id
    OBVIOUS
  <2>1. list.rows[i].id \in IdsOf(list.rows)
    BY <1>1 DEF IdsOf
  <2>2. list.rows[i].id \in IdsOf(data)
    BY <1>2, <2>1 DEF BidsStand, Stands, Single
  <2> QED
    BY <2>2 DEF IdsOf
<1>4. \A i \in I : f[i] \in K /\ data[f[i]].id = list.rows[i].id
  BY <1>3
<1>5. f \in [I -> K]
  BY <1>4
<1> HIDE DEF f
<1>6. \A i, j \in I : f[i] = f[j] => i = j
  <2> SUFFICES ASSUME NEW i \in I, NEW j \in I, f[i] = f[j] PROVE i = j
    OBVIOUS
  <2>1. list.rows[i].id = list.rows[j].id /\ Single(list, list.rows[i].id)
    BY <1>2, <1>4 DEF BidsStand
  <2> QED
    BY <1>1, <2>1 DEF Single
<1>7. \A k \in K : \E i \in I : f[i] = k
  <2> SUFFICES ASSUME NEW k \in K PROVE \E i \in I : f[i] = k
    OBVIOUS
  <2>1. data[k].id \in IdsOf(data)
    BY DEF IdsOf
  <2>2. data[k].id \in IdsOf(list.rows)
    BY <2>1 DEF BidsStand, Stands, Kept
  <2>3. PICK i \in I : list.rows[i].id = data[k].id
    BY <1>1, <2>2 DEF IdsOf
  <2>4. f[i] = k
    BY <1>4, <2>3 DEF Distinct
  <2> QED
    BY <2>4
<1>8. f \in Injection(I, K) /\ f \in Surjection(I, K)
  BY <1>5, <1>6, <1>7 DEF Injection, IsInjective, Surjection
<1>9. IsFiniteSet(I) /\ IsFiniteSet(K) /\ Cardinality(I) = Len(list.rows) /\ Cardinality(K) = Len(data)
  BY <1>1, Numbers
<1> QED
  BY <1>8, <1>9, FS_Injection

(* Resets and merges in any order leave the bids of the last answer, each  *)
(* order once and at its last price, for all answers.                      *)
THEOREM BidsAreTheAnswerCorrect == Spec => []BidsAreTheAnswer
<1>1. ASSUME RowsInv PROVE BidsAreTheAnswer
  <2>1. BidsStand(bids, latest) /\ latest \in Seq(Orders) /\ Distinct(latest)
    BY <1>1, Answers DEF RowsInv, DataTyped
  <2>2. Len(bids.rows) = Len(latest) /\ bids.ids = IdsOf(latest)
    BY <2>1, OneToOne DEF BidsStand, Stands
  <2>3. bids.rows \in Seq(Orders)
    BY <2>1 DEF BidsStand, Stands, Lists
  <2>4. ASSUME NEW i \in DOMAIN bids.rows
        PROVE  \E k \in DOMAIN latest : latest[k].id = bids.rows[i].id /\ latest[k].price = bids.rows[i].price
    <3>1. bids.rows[i].id \in Ids
      <4>1. bids.rows[i] \in Orders
        BY <2>3
      <4> QED
        BY <4>1 DEF Orders
    <3>2. bids.rows[i].id \in IdsOf(latest)
      BY <2>1, <3>1 DEF BidsStand, Stands, Single, IdsOf
    <3>3. PICK k \in DOMAIN latest : latest[k].id = bids.rows[i].id
      BY <3>2 DEF IdsOf
    <3> QED
      BY <2>1, <3>3 DEF BidsStand, Priced
  <2>5. ASSUME NEW k \in DOMAIN latest
        PROVE  \E i \in DOMAIN bids.rows : latest[k].id = bids.rows[i].id /\ latest[k].price = bids.rows[i].price
    <3>1. latest[k].id \in IdsOf(bids.rows)
      BY <2>1 DEF BidsStand, Stands, Kept, IdsOf
    <3>2. PICK i \in DOMAIN bids.rows : bids.rows[i].id = latest[k].id
      BY <3>1 DEF IdsOf
    <3> QED
      BY <2>1, <3>2 DEF BidsStand, Priced
  <2>6. {<<bids.rows[i].id, bids.rows[i].price>> : i \in DOMAIN bids.rows}
          = {<<latest[i].id, latest[i].price>> : i \in DOMAIN latest}
    BY <2>4, <2>5
  <2> QED
    BY <2>2, <2>6 DEF BidsAreTheAnswer
<1> QED
  BY <1>1, RowsInvCorrect, PTL

(* The best orders show the data, and beyond it only second rows.          *)
THEOREM BestOrdersShownCorrect == Spec => []BestOrdersShown
<1>1. ASSUME RowsInv PROVE BestOrdersShown
  <2>1. /\ best.rows \in Seq(Orders) /\ best.ids \subseteq IdsOf(best.rows) /\ best.ids = IdsOf(bestLatest)
        /\ \A x \in Ids \ twins : x \in IdsOf(best.rows) => x \in best.ids
    BY <1>1 DEF RowsInv, BestStand, Stands, Kept, Lists, Single
  <2>2. IdsOf(best.rows) \subseteq Ids
    BY <2>1, SeenAll
  <2> QED
    BY <2>1, <2>2 DEF BestOrdersShown
<1> QED
  BY <1>1, RowsInvCorrect, PTL

(* A seller whose preferred order leaves the bids is told, for all orders  *)
(* and answers.                                                            *)
THEOREM MissingIsToldCorrect == Spec => []MissingIsTold
<1>1. RowsInv => MissingIsTold
  BY DEF RowsInv
<1> QED
  BY <1>1, RowsInvCorrect, PTL

(* A merge that brings a better order ends with the seller told of a       *)
(* better price, in whatever order the orders come and go.                 *)
THEOREM BetterIsToldCorrect == Spec => BetterIsTold
<1> DEFINE TellsBetter ==
      \A answer \in BidAnswers :
        /\ mode = "Sell" /\ preferred # NoOrder /\ latest' = answer
        /\ \E order \in ToSet(answer) :
             /\ order.price > preferred.price
             /\ \A i \in DOMAIN bids.rows :
                  bids.rows[i].id = order.id => bids.rows[i].price # order.price
        /\ Refresh(answer)
        => notice' = "BetterPriceAvailable"
<1>1. ASSUME RowsInv PROVE TellsBetter
  <2> SUFFICES ASSUME NEW answer \in BidAnswers, mode = "Sell", preferred # NoOrder,
                      NEW order \in ToSet(answer), order.price > preferred.price,
                      \A i \in DOMAIN bids.rows :
                        bids.rows[i].id = order.id => bids.rows[i].price # order.price,
                      Refresh(answer)
               PROVE  notice' = "BetterPriceAvailable"
    OBVIOUS
  <2>1. PICK merged \in Merged(bids, answer, preferred) : notice' = merged.notice
    BY DEF Refresh
  <2>2. PICK k \in DOMAIN answer : answer[k] = order
    BY DEF ToSet
  <2>3. Better(answer[k], preferred) /\ Raised(bids, answer[k])
    BY <2>2 DEF Better, Raised
  <2>4. /\ bids \in Lists /\ Kept(bids) /\ notice \in Notices /\ preferred \in Orders \cup {NoOrder}
        /\ \A x \in Ids : Single(bids, x)
    BY <1>1 DEF RowsInv, FormTyped, BidsStand, Stands
  <2>5. answer \in Seq(Orders) /\ Distinct(answer)
    BY Answers
  <2> QED
    BY <2>1, <2>3, <2>4, <2>5, MergedPrices
<1>2. RowsInv => [TellsBetter]_vars
  BY <1>1
<1> QED
  BY <1>2, RowsInvCorrect, PTL DEF BetterIsTold
=============================================================================
