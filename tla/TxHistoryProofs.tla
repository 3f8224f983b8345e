--------------------------- MODULE TxHistoryProofs ---------------------------
(* Of the transactions page, for every set of coins and fetches and every  *)
(* bound: what a busy page waits for, by the invariant IInv, which looks   *)
(* at the stages of the fetches only; and what its rows are, by TxInv,     *)
(* which says what each list of transactions that is stored or on its way  *)
(* may hold, and what a handler that is alone at work may rely on.         *)
EXTENDS TxHistory, FiniteSetTheorems, TLAPS

(* A slot is idle or holds a fetch with a stage, a coin and some value.    *)
Shaped(f) == f = Idle \/ \E p, c, t : f = [pc |-> p, coin |-> c, txs |-> t]
Working(i) == flight[i].pc \notin {"idle", "empty"}

Shapes ==
  /\ flight = [i \in Slots |-> flight[i]]
  /\ \A i \in Slots : Shaped(flight[i])
  /\ faults \in Nat

IInv == Shapes /\ BusyHasCause

(* The next stage of a fetch, and its new transactions.                    *)
LEMMA StageShape ==
  ASSUME NEW f, Shaped(f), f.pc # "idle", NEW p
  PROVE  Shaped([f EXCEPT !.pc = p]) /\ [f EXCEPT !.pc = p].pc = p
<1>1. PICK q, c, u : f = [pc |-> q, coin |-> c, txs |-> u]
  BY DEF Shaped, Idle
<1>2. [f EXCEPT !.pc = p] = [pc |-> p, coin |-> c, txs |-> u]
  BY <1>1
<1> QED
  BY <1>2 DEF Shaped

LEMMA TxsShape ==
  ASSUME NEW f, Shaped(f), f.pc # "idle", NEW t
  PROVE  Shaped([f EXCEPT !.txs = t]) /\ [f EXCEPT !.txs = t].pc = f.pc
<1>1. PICK q, c, u : f = [pc |-> q, coin |-> c, txs |-> u]
  BY DEF Shaped, Idle
<1>2. [f EXCEPT !.txs = t] = [pc |-> q, coin |-> c, txs |-> t]
  BY <1>1
<1> QED
  BY <1>1, <1>2 DEF Shaped

(* A slot takes a value of the right shape.                                *)
LEMMA PutShape ==
  ASSUME Shapes, NEW i \in Slots, NEW f, Shaped(f), flight' = [flight EXCEPT ![i] = f],
         faults' \in Nat
  PROVE  /\ Shapes' /\ flight'[i] = f
         /\ \A j \in Slots \ {i} : flight'[j] = flight[j]
<1>1. flight'[i] = f /\ \A j \in Slots \ {i} : flight'[j] = flight[j]
  BY DEF Shapes
<1>2. flight' = [j \in Slots |-> flight'[j]]
  BY DEF Shapes
<1>3. \A j \in Slots : Shaped(flight'[j])
  BY <1>1 DEF Shapes
<1> QED
  BY <1>1, <1>2, <1>3 DEF Shapes

(* A fetch that goes on working is a cause, and leaves the others alone.   *)
LEMMA GoesOn ==
  ASSUME IInv, NEW i \in Slots, NEW f, Shaped(f), f.pc \notin {"idle", "empty"},
         flight' = [flight EXCEPT ![i] = f], UNCHANGED <<busy, blank, faults>>
  PROVE  IInv'
<1>1. faults' \in Nat
  BY DEF IInv, Shapes
<1>2. Shapes' /\ flight'[i] = f
  BY <1>1, PutShape DEF IInv
<1> QED
  BY <1>2 DEF IInv, BusyHasCause

(* A fetch that ends with the page no longer busy.                         *)
LEMMA EndsIdle ==
  ASSUME IInv, NEW i \in Slots, flight' = [flight EXCEPT ![i] = Idle], ~busy',
         faults' \in Nat
  PROVE  IInv'
<1>1. Shaped(Idle)
  BY DEF Shaped
<1>2. Shapes'
  BY <1>1, PutShape DEF IInv
<1> QED
  BY <1>2 DEF IInv, BusyHasCause

(* What fetching for a coin puts in a slot.                                *)
LEMMA FetchPut ==
  ASSUME Shapes, NEW i \in Slots, NEW c, Fetch(i, c), faults' = faults
  PROVE  /\ Shapes' /\ flight[i] = Idle
         /\ flight'[i].pc = IF c \in scanning THEN "empty" ELSE "sent"
         /\ \A j \in Slots \ {i} : flight'[j] = flight[j]
<1> DEFINE f == [pc |-> IF c \in scanning THEN "empty" ELSE "sent", coin |-> c, txs |-> hist[c]]
<1>1. Shaped(f)
  BY DEF Shaped
<1>2. flight[i] = Idle /\ flight' = [flight EXCEPT ![i] = f]
  BY DEF Fetch
<1>3. f.pc = IF c \in scanning THEN "empty" ELSE "sent"
  OBVIOUS
<1>4. faults' \in Nat
  BY DEF Shapes
<1> HIDE DEF f
<1> QED
  BY <1>1, <1>2, <1>3, <1>4, PutShape

LEMMA ShowCorrect ==
  ASSUME IInv, NEW i \in Slots, Show(i)
  PROVE  IInv'
<1>1. /\ Fetch(i, ticker) /\ faults' = faults
      /\ blank' = (ticker \in scanning)
  BY DEF Show
<1>2. Shapes' /\ flight'[i].pc = IF ticker \in scanning THEN "empty" ELSE "sent"
  BY <1>1, FetchPut DEF IInv
<1>3. BusyHasCause'
  <2>1. CASE ticker \in scanning
    BY <1>1, <2>1 DEF BusyHasCause
  <2>2. CASE ticker \notin scanning
    <3>1. flight'[i].pc = "sent"
      BY <1>2, <2>2
    <3> QED
      BY <3>1 DEF BusyHasCause
  <2> QED
    BY <2>1, <2>2
<1> QED
  BY <1>2, <1>3 DEF IInv

LEMMA PeriodicCorrect ==
  ASSUME IInv, NEW i \in Slots, Periodic(i)
  PROVE  IInv'
<1>1. Fetch(i, ticker) /\ UNCHANGED <<busy, blank, faults>>
  BY DEF Periodic, historyVars
<1>2. Shapes' /\ flight[i] = Idle /\ \A j \in Slots \ {i} : flight'[j] = flight[j]
  BY <1>1, FetchPut DEF IInv
<1>3. \A j \in Slots : Working(j) => j # i /\ Working(j)'
  BY <1>2 DEF Working, Idle
<1> QED
  BY <1>1, <1>2, <1>3 DEF IInv, BusyHasCause, Working

(* The stages of an answer and of its handler.                             *)
LEMMA AdvanceCorrect ==
  ASSUME IInv, NEW i \in Slots, NEW p, flight[i].pc # "idle", p \notin {"idle", "empty"},
         Goto(i, p), UNCHANGED <<busy, blank, faults>>
  PROVE  IInv'
<1> DEFINE f == [flight[i] EXCEPT !.pc = p]
<1>1. Shaped(f) /\ f.pc = p
  BY StageShape DEF IInv, Shapes
<1>2. flight' = [flight EXCEPT ![i] = f]
  BY DEF Goto
<1> HIDE DEF f
<1> QED
  BY <1>1, <1>2, GoesOn

LEMMA ReadCorrect ==
  ASSUME IInv, NEW i \in Slots, Read(i)
  PROVE  IInv'
<1> DEFINE t == store[Key(ticker)]
           f == [flight[i] EXCEPT !.pc = "read"]
           g == [f EXCEPT !.txs = t]
<1>1. flight[i].pc # "idle" /\ Shaped(flight[i])
  BY DEF Read, Flying, IInv, Shapes
<1>2. Shaped(f) /\ f.pc = "read"
  BY <1>1, StageShape
<1>3. [flight[i] EXCEPT !.pc = "read", !.txs = t] = g
  OBVIOUS
<1>4. /\ flight' = [flight EXCEPT ![i] = [flight[i] EXCEPT !.pc = "read", !.txs = t]]
      /\ UNCHANGED <<busy, blank, faults>>
  BY DEF Read, historyVars
<1> HIDE DEF f, t
<1>5. Shaped(g) /\ g.pc = "read"
  BY <1>2, TxsShape
<1>6. flight' = [flight EXCEPT ![i] = g]
  BY <1>3, <1>4
<1> HIDE DEF g
<1> QED
  BY <1>4, <1>5, <1>6, GoesOn

(* A fetch of which nobody is told worked for nobody, or was lost.         *)
LEMMA EmptyAnsweredCorrect ==
  ASSUME IInv, NEW i \in Slots, EmptyAnswered(i)
  PROVE  IInv'
<1>1. flight' = [flight EXCEPT ![i] = Idle] /\ UNCHANGED <<busy, blank, faults>>
  BY DEF EmptyAnswered, historyVars
<1>2. Shaped(Idle) /\ faults' \in Nat
  BY <1>1 DEF Shaped, IInv, Shapes
<1>3. Shapes' /\ \A j \in Slots \ {i} : flight'[j] = flight[j]
  BY <1>1, <1>2, PutShape DEF IInv
<1>4. \A j \in Slots : Working(j) => j # i /\ Working(j)'
  BY <1>3 DEF Working, EmptyAnswered, Flying
<1> QED
  BY <1>1, <1>3, <1>4 DEF IInv, BusyHasCause, Working

LEMMA LostCorrect ==
  ASSUME IInv, NEW i \in Slots, Lost(i)
  PROVE  IInv'
<1>1. flight' = [flight EXCEPT ![i] = Idle] /\ faults' \in Nat /\ faults' > 0
  BY DEF Lost, IInv, Shapes
<1>2. Shaped(Idle)
  BY DEF Shaped
<1>3. Shapes'
  BY <1>1, <1>2, PutShape DEF IInv
<1> QED
  BY <1>1, <1>3 DEF IInv, BusyHasCause

LEMMA FetchStepCorrect ==
  ASSUME IInv, NEW i \in Slots, FetchStep(i)
  PROVE  IInv'
<1>1. CASE DaemonAnswers(i)
  BY <1>1, AdvanceCorrect DEF DaemonAnswers, Keep, Flying
<1>2. CASE AskProxy(i)
  BY <1>2, AdvanceCorrect DEF AskProxy, historyVars, Flying
<1>3. CASE ProxyAnswers(i)
  BY <1>3, AdvanceCorrect DEF ProxyAnswers, Keep, Flying
<1>4. CASE EmptyAnswered(i)
  BY <1>4, EmptyAnsweredCorrect
<1>5. CASE Refused(i)
  <2>1. faults' \in Nat
    BY <1>5 DEF Refused, IInv, Shapes
  <2> QED
    BY <1>5, <2>1, EndsIdle DEF Refused, Finish
<1>6. CASE Lost(i)
  BY <1>6, LostCorrect
<1>7. CASE Check(i)
  <2>1. UNCHANGED <<blank, faults>> /\ faults' \in Nat /\ flight[i].pc # "idle"
    BY <1>7 DEF Check, historyVars, Flying, IInv, Shapes
  <2>2. CASE Goto(i, "checked") /\ UNCHANGED <<rows, busy>>
    BY <2>1, <2>2, AdvanceCorrect
  <2>3. CASE Finish(i)
    BY <2>1, <2>3, EndsIdle DEF Finish
  <2> QED
    BY <1>7, <2>2, <2>3 DEF Check
<1>8. CASE Read(i)
  BY <1>8, ReadCorrect
<1>9. CASE Insert(i)
  BY <1>9, EndsIdle DEF Insert, IInv, Shapes
<1> QED
  BY <1>1, <1>2, <1>3, <1>4, <1>5, <1>6, <1>7, <1>8, <1>9 DEF FetchStep

(* A step that touches neither the fetches nor the page.                   *)
LEMMA ElsewhereCorrect ==
  ASSUME IInv, UNCHANGED <<flight, busy, blank, faults>>
  PROVE  IInv'
BY DEF IInv, Shapes, BusyHasCause

LEMMA StepCorrect == IInv /\ [Next]_vars => IInv'
<1> SUFFICES ASSUME IInv, [Next]_vars PROVE IInv'
  OBVIOUS
<1>1. ASSUME NEW c \in Coins, Choose(c) PROVE IInv'
  BY <1>1, ElsewhereCorrect DEF Choose
<1>2. ASSUME NEW c \in Coins, NewTx(c) PROVE IInv'
  BY <1>2, ElsewhereCorrect DEF NewTx, historyVars
<1>3. ASSUME NEW c \in Coins, Confirm(c) PROVE IInv'
  BY <1>3, ElsewhereCorrect DEF Confirm, historyVars
<1>4. ASSUME NEW c \in Coins, ScanEnds(c) PROVE IInv'
  BY <1>4, ElsewhereCorrect DEF ScanEnds, historyVars
<1>5. ASSUME NEW i \in Slots, Show(i) PROVE IInv'
  BY <1>5, ShowCorrect
<1>6. ASSUME NEW i \in Slots, Periodic(i) PROVE IInv'
  BY <1>6, PeriodicCorrect
<1>7. ASSUME NEW i \in Slots, FetchStep(i) PROVE IInv'
  BY <1>7, FetchStepCorrect
<1>8. CASE UNCHANGED vars
  BY <1>8, ElsewhereCorrect DEF vars
<1> QED
  BY <1>1, <1>2, <1>3, <1>4, <1>5, <1>6, <1>7, <1>8 DEF Next

(* A busy page has a fetch that will end it, showed a coin that was still  *)
(* scanning, or an answer was lost: for every set of coins and fetches.    *)
THEOREM BusyCorrect == Spec => []BusyHasCause
<1>1. Init => IInv
  <2>1. Init => flight = [i \in Slots |-> flight[i]] /\ \A i \in Slots : Shaped(flight[i])
    BY DEF Init, Shaped
  <2> QED
    BY <2>1 DEF Init, IInv, Shapes, BusyHasCause
<1>2. IInv => BusyHasCause
  BY DEF IInv
<1> QED
  BY <1>1, <1>2, StepCorrect, PTL DEF Spec

-----------------------------------------------------------------------------
(* Numbers, and the places of a list.                                      *)
LEMMA LeastOf ==
  ASSUME NEW S \in SUBSET Nat, S # {}
  PROVE  \E x \in S : \A y \in S : x <= y
<1> DEFINE R == OpToRel(<, Nat)
<1>1. IsWellFoundedOn(R, Nat)
  BY NatLessThanWellFounded
<1>2. \A x, y \in Nat : y < x => <<y, x>> \in R
  BY DEF OpToRel
<1> HIDE DEF R
<1>3. PICK x \in S : \A y \in S : ~(<<y, x>> \in R)
  BY <1>1, WFMin
<1>4. \A y \in S : ~(y < x) /\ y \in Nat /\ x \in Nat
  BY <1>2, <1>3
<1>5. \A y \in S : x <= y
  BY <1>4
<1> QED
  BY <1>5

LEMMA Numbers ==
  ASSUME NEW n \in Nat
  PROVE  IsFiniteSet(1 .. n) /\ Cardinality(1 .. n) = n
  BY FS_Interval

LEMMA PlacesFinite ==
  ASSUME NEW S, NEW s \in Seq(S), NEW T \in SUBSET DOMAIN s
  PROVE  IsFiniteSet(T) /\ Cardinality(T) \in 0 .. Len(s) /\ T \in SUBSET Nat
<1> DEFINE n == Len(s)
<1>1. n \in Nat /\ T \subseteq 1 .. n
  OBVIOUS
<1> HIDE DEF n
<1>2. IsFiniteSet(1 .. n) /\ Cardinality(1 .. n) = n
  BY <1>1, Numbers
<1>3. IsFiniteSet(T) /\ Cardinality(T) <= n
  BY <1>1, <1>2, FS_Subset
<1>4. Cardinality(T) \in Nat
  BY <1>3, FS_CardinalityType
<1> QED
  BY <1>1, <1>3, <1>4 DEF n

(* The n-th element of a finite set of numbers.                            *)
LEMMA Ranks ==
  ASSUME NEW T \in SUBSET Nat, IsFiniteSet(T)
  PROVE  /\ Cardinality(T) \in Nat
         /\ \A i \in T : Cardinality({j \in T : j <= i}) \in 1 .. Cardinality(T)
         /\ \A i, k \in T : Cardinality({j \in T : j <= i}) = Cardinality({j \in T : j <= k}) => i = k
         /\ \A n \in 1 .. Cardinality(T) : \E i \in T : Cardinality({j \in T : j <= i}) = n
<1> DEFINE Below(i) == {j \in T : j <= i}
           rank == [i \in T |-> Cardinality(Below(i))]
           C == Cardinality(T)
<1>1. C \in Nat
  BY FS_CardinalityType
<1>2. ASSUME NEW i \in T
      PROVE  IsFiniteSet(Below(i)) /\ Cardinality(Below(i)) \in 1 .. C
  <2>1. Below(i) \subseteq T /\ i \in Below(i)
    OBVIOUS
  <2> HIDE DEF Below
  <2>2. IsFiniteSet(Below(i)) /\ Cardinality(Below(i)) <= C
    BY <2>1, FS_Subset
  <2>3. Cardinality(Below(i)) \in Nat /\ Cardinality(Below(i)) # 0
    BY <2>1, <2>2, FS_CardinalityType, FS_EmptySet
  <2> QED
    BY <1>1, <2>2, <2>3
<1>3. ASSUME NEW i \in T, NEW k \in T, i < k
      PROVE  Cardinality(Below(i)) # Cardinality(Below(k))
  <2>1. Below(i) \subseteq Below(k) /\ Below(i) # Below(k)
    <3>1. k \in Below(k) /\ k \notin Below(i)
      BY <1>3
    <3>2. \A j \in T : j <= i => j <= k
      BY <1>3
    <3>3. Below(i) \subseteq Below(k)
      BY <3>2
    <3> QED
      BY <3>1, <3>3
  <2>2. IsFiniteSet(Below(k)) /\ Cardinality(Below(k)) \in Nat
    BY <1>2
  <2> HIDE DEF Below
  <2> QED
    BY <2>1, <2>2, FS_Subset
<1>4. rank \in Injection(T, 1 .. C)
  <2>1. rank \in [T -> 1 .. C]
    BY <1>2
  <2>2. \A i, k \in T : rank[i] = rank[k] => i = k
    <3> SUFFICES ASSUME NEW i \in T, NEW k \in T, i # k PROVE rank[i] # rank[k]
      OBVIOUS
    <3>1. rank[i] = Cardinality(Below(i)) /\ rank[k] = Cardinality(Below(k))
      OBVIOUS
    <3>2. i < k \/ k < i
      OBVIOUS
    <3> HIDE DEF rank, Below
    <3> QED
      BY <1>3, <3>1, <3>2
  <2> HIDE DEF rank
  <2> QED
    BY <2>1, <2>2 DEF Injection, IsInjective
<1>5. IsFiniteSet(1 .. C) /\ Cardinality(1 .. C) = C
  BY <1>1, FS_Interval
<1>6. rank \in Surjection(T, 1 .. C)
  <2> HIDE DEF rank
  <2> QED
    BY <1>4, <1>5, FS_Injection
<1>7. \A n \in 1 .. C : \E i \in T : rank[i] = n
  <2> HIDE DEF rank
  <2> QED
    BY <1>6 DEF Surjection
<1>8. \A i, k \in T : rank[i] = rank[k] => i = k
  <2> HIDE DEF rank
  <2> QED
    BY <1>4 DEF Injection, IsInjective
<1>9. \A i \in T : rank[i] = Cardinality({j \in T : j <= i})
  OBVIOUS
<1> HIDE DEF rank
<1> QED
  BY <1>1, <1>2, <1>7, <1>8, <1>9

(* The transactions at some places come from those places, one from each.  *)
OneFromEach(from, txs, places, those) ==
  /\ \A n \in 1 .. Cardinality(places) : from[n] \in places /\ those[n] = txs[from[n]]
  /\ \A n, k \in 1 .. Cardinality(places) : from[n] = from[k] => n = k
  /\ \A i \in places : \E n \in 1 .. Cardinality(places) : from[n] = i

LEMMA ThosePlaces ==
  ASSUME NEW S, NEW txs \in Seq(S), NEW places \in SUBSET DOMAIN txs
  PROVE  /\ Those(txs, places) \in Seq(S) /\ Len(Those(txs, places)) = Cardinality(places)
         /\ Cardinality(places) \in 0 .. Len(txs)
         /\ \E from : OneFromEach(from, txs, places, Those(txs, places))
<1> DEFINE C == Cardinality(places)
           Rank(i) == Cardinality({j \in places : j <= i})
           from == [n \in 1 .. C |-> CHOOSE i \in places : Rank(i) = n]
           W == Those(txs, places)
<1>1. IsFiniteSet(places) /\ C \in 0 .. Len(txs) /\ C \in Nat /\ places \in SUBSET Nat
  <2>1. IsFiniteSet(places) /\ C \in 0 .. Len(txs) /\ places \in SUBSET Nat
    BY PlacesFinite
  <2> QED
    BY <2>1
<1>2. /\ \A i \in places : Rank(i) \in 1 .. C
      /\ \A i, k \in places : Rank(i) = Rank(k) => i = k
      /\ \A n \in 1 .. C : \E i \in places : Rank(i) = n
  BY <1>1, Ranks
<1>3. W = [n \in 1 .. C |-> txs[CHOOSE i \in places : Rank(i) = n]]
  BY DEF Those
<1> HIDE DEF Rank
<1>4. \A n \in 1 .. C : from[n] \in places /\ Rank(from[n]) = n /\ from[n] = CHOOSE i \in places : Rank(i) = n
  BY <1>2
<1>5. W = [n \in 1 .. C |-> txs[from[n]]]
  BY <1>3, <1>4
<1> HIDE DEF from, W, C
<1>6. W \in Seq(S) /\ Len(W) = C /\ \A n \in 1 .. C : W[n] = txs[from[n]]
  <2>1. \A n \in 1 .. C : txs[from[n]] \in S
    <3>1. \A i \in DOMAIN txs : txs[i] \in S
      OBVIOUS
    <3> QED
      BY <1>4, <3>1
  <2> QED
    BY <1>1, <1>5, <2>1
<1>7. \A n, k \in 1 .. C : from[n] = from[k] => n = k
  BY <1>4
<1>8. \A i \in places : \E n \in 1 .. C : from[n] = i
  BY <1>2, <1>4
<1>9. OneFromEach(from, txs, places, W)
  BY <1>4, <1>6, <1>7, <1>8 DEF OneFromEach, C
<1> QED
  BY <1>1, <1>6, <1>9 DEF C, W

-----------------------------------------------------------------------------
(* The transactions of a coin: numbered without gaps, unconfirmed first.   *)
Listed(txs, c) ==
  /\ txs \in Seq(Txs)
  /\ \A n \in DOMAIN txs : txs[n].coin = c /\ txs[n].id \in 1 .. Len(txs)
  /\ \A m, n \in DOMAIN txs : txs[m].id = txs[n].id => m = n
  /\ \A m, n \in DOMAIN txs : m < n /\ txs[n].unconfirmed => txs[m].unconfirmed

(* The places before every other place are the first ones.                 *)
LEMMA FrontPlaces ==
  ASSUME NEW n \in Nat, NEW P \in SUBSET (1 .. n),
         \A i, j \in 1 .. n : i < j /\ j \in P => i \in P
  PROVE  Cardinality(P) \in 0 .. n /\ P = 1 .. Cardinality(P)
<1> DEFINE Q == (1 .. n + 1) \ P
<1>1. Q \in SUBSET Nat /\ n + 1 \in Q
  OBVIOUS
<1>2. PICK e \in Q : \A y \in Q : e <= y
  BY <1>1, LeastOf
<1>3. e \in 1 .. n + 1 /\ e \notin P
  OBVIOUS
<1>4. \A i \in 1 .. e - 1 : i \in P
  BY <1>2, <1>3
<1>5. \A i \in P : i \in 1 .. e - 1
  BY <1>3
<1>6. P = 1 .. e - 1
  BY <1>4, <1>5
<1>7. e - 1 \in Nat /\ Cardinality(1 .. e - 1) = e - 1
  <2>1. e - 1 \in Nat
    BY <1>3
  <2> QED
    BY <2>1, Numbers
<1> QED
  BY <1>3, <1>6, <1>7

LEMMA NothingListed ==
  ASSUME NEW c PROVE Listed(<<>>, c)
BY DEF Listed

LEMMA TxFields ==
  ASSUME NEW c \in Coins, NEW id \in Ids, NEW u \in BOOLEAN
  PROVE  [coin |-> c, id |-> id, unconfirmed |-> u] \in Txs
BY DEF Txs

(* A new unconfirmed transaction.                                          *)
LEMMA PendingListed ==
  ASSUME NEW c \in Coins, NEW txs, Listed(txs, c), Len(txs) + 1 \in Ids
  PROVE  Listed(<<[coin |-> c, id |-> Len(txs) + 1, unconfirmed |-> TRUE]>> \o txs, c)
<1> DEFINE t == [coin |-> c, id |-> Len(txs) + 1, unconfirmed |-> TRUE]
           W == <<t>> \o txs
<1>1. t \in Txs /\ t.coin = c /\ t.id = Len(txs) + 1 /\ t.unconfirmed = TRUE
  BY TxFields
<1>2. txs \in Seq(Txs) /\ Len(txs) \in Nat
  BY DEF Listed
<1> HIDE DEF t
<1>3. /\ W \in Seq(Txs) /\ Len(W) = Len(txs) + 1 /\ W[1] = t
      /\ \A n \in 2 .. Len(W) : W[n] = txs[n - 1] /\ n - 1 \in DOMAIN txs
  BY <1>1, <1>2
<1> HIDE DEF W
<1>4. \A n \in 1 .. Len(W) : W[n].coin = c /\ W[n].id \in 1 .. Len(W)
  <2> SUFFICES ASSUME NEW n \in 1 .. Len(W) PROVE W[n].coin = c /\ W[n].id \in 1 .. Len(W)
    OBVIOUS
  <2>1. CASE n = 1
    BY <1>1, <1>2, <1>3, <2>1
  <2>2. CASE n # 1
    <3>1. n - 1 \in DOMAIN txs /\ W[n] = txs[n - 1]
      BY <1>2, <1>3, <2>2
    <3>2. txs[n - 1].coin = c /\ txs[n - 1].id \in 1 .. Len(txs)
      BY <3>1 DEF Listed
    <3> QED
      BY <1>2, <1>3, <3>1, <3>2
  <2> QED
    BY <2>1, <2>2
<1>5. \A m, n \in 1 .. Len(W) : W[m].id = W[n].id => m = n
  <2>1. \A n \in 2 .. Len(W) : W[n].id \in 1 .. Len(txs)
    BY <1>3 DEF Listed
  <2>2. W[1].id \notin 1 .. Len(txs)
    BY <1>1, <1>2, <1>3
  <2>3. \A m, n \in DOMAIN txs : txs[m].id = txs[n].id => m = n
    BY DEF Listed
  <2>4. \A m, n \in 2 .. Len(W) : W[m].id = W[n].id => m = n
    <3> SUFFICES ASSUME NEW m \in 2 .. Len(W), NEW n \in 2 .. Len(W), W[m].id = W[n].id PROVE m = n
      OBVIOUS
    <3>1. m - 1 = n - 1
      <4>1. /\ W[m] = txs[m - 1] /\ W[n] = txs[n - 1]
            /\ m - 1 \in DOMAIN txs /\ n - 1 \in DOMAIN txs
        BY <1>3
      <4>2. txs[m - 1].id = txs[n - 1].id
        BY <4>1
      <4> QED
        BY <2>3, <4>1, <4>2
    <3> QED
      BY <1>2, <1>3, <3>1
  <2> SUFFICES ASSUME NEW m \in 1 .. Len(W), NEW n \in 1 .. Len(W), W[m].id = W[n].id PROVE m = n
    OBVIOUS
  <2>5. CASE m = 1 /\ n = 1
    BY <2>5
  <2>6. CASE m # 1 /\ n # 1
    BY <1>2, <1>3, <2>4, <2>6
  <2>7. CASE m = 1 /\ n # 1
    <3>1. n \in 2 .. Len(W)
      BY <1>2, <1>3, <2>7
    <3> QED
      BY <2>1, <2>2, <2>7, <3>1
  <2>8. CASE m # 1 /\ n = 1
    <3>1. m \in 2 .. Len(W)
      BY <1>2, <1>3, <2>8
    <3> QED
      BY <2>1, <2>2, <2>8, <3>1
  <2> QED
    BY <2>5, <2>6, <2>7, <2>8
<1>6. \A m, n \in 1 .. Len(W) : m < n /\ W[n].unconfirmed => W[m].unconfirmed
  <2>1. \A m, n \in 2 .. Len(W) : m < n /\ W[n].unconfirmed => W[m].unconfirmed
    <3>1. \A m, n \in DOMAIN txs : m < n /\ txs[n].unconfirmed => txs[m].unconfirmed
      BY DEF Listed
    <3> QED
      BY <1>2, <1>3, <3>1
  <2> SUFFICES ASSUME NEW m \in 1 .. Len(W), NEW n \in 1 .. Len(W), m < n, W[n].unconfirmed
               PROVE  W[m].unconfirmed
    OBVIOUS
  <2>2. CASE m = 1
    BY <1>1, <1>3, <2>2
  <2>3. CASE m # 1
    <3>1. m \in 2 .. Len(W) /\ n \in 2 .. Len(W)
      BY <1>2, <1>3, <2>3
    <3> QED
      BY <2>1, <3>1
  <2> QED
    BY <2>2, <2>3
<1>7. Listed(W, c)
  BY <1>3, <1>4, <1>5, <1>6 DEF Listed
<1> QED
  BY <1>7 DEF W, t

(* A new confirmed transaction, after the unconfirmed ones.                *)
LEMMA ConfirmedListed ==
  ASSUME NEW c \in Coins, NEW txs, Listed(txs, c), Len(txs) + 1 \in Ids
  PROVE  Listed(Unconfirmed(txs) \o <<[coin |-> c, id |-> Len(txs) + 1, unconfirmed |-> FALSE]>>
                  \o Confirmed(txs), c)
<1> DEFINE t == [coin |-> c, id |-> Len(txs) + 1, unconfirmed |-> FALSE]
           PU == {n \in DOMAIN txs : txs[n].unconfirmed}
           PC == {n \in DOMAIN txs : ~txs[n].unconfirmed}
           L == Len(txs)
           u == Cardinality(PU)
           v == Cardinality(PC)
           U == Unconfirmed(txs)
           V == Confirmed(txs)
           W == U \o <<t>> \o V
<1>1. t \in Txs /\ t.coin = c /\ t.id = L + 1 /\ t.unconfirmed = FALSE
  BY TxFields
<1>2. txs \in Seq(Txs) /\ L \in Nat /\ DOMAIN txs = 1 .. L
  BY DEF Listed
<1>3. PU \in SUBSET DOMAIN txs /\ PC \in SUBSET DOMAIN txs /\ PC = DOMAIN txs \ PU
  OBVIOUS
<1>4. \A n \in PU : txs[n].unconfirmed
  OBVIOUS
<1>5. \A n \in PC : ~txs[n].unconfirmed
  OBVIOUS
<1>6. U = Those(txs, PU) /\ V = Those(txs, PC)
  BY DEF Unconfirmed, Confirmed
<1> HIDE DEF PU, PC, t, U, V
<1>7. PICK f : /\ \A n \in 1 .. u : f[n] \in PU /\ Those(txs, PU)[n] = txs[f[n]]
               /\ \A n, k \in 1 .. u : f[n] = f[k] => n = k
  <2>1. \E from : OneFromEach(from, txs, PU, Those(txs, PU))
    BY <1>2, <1>3, ThosePlaces
  <2> QED
    BY <2>1 DEF OneFromEach
<1>8. PICK g : /\ \A n \in 1 .. v : g[n] \in PC /\ Those(txs, PC)[n] = txs[g[n]]
               /\ \A n, k \in 1 .. v : g[n] = g[k] => n = k
  <2>1. \E from : OneFromEach(from, txs, PC, Those(txs, PC))
    BY <1>2, <1>3, ThosePlaces
  <2> QED
    BY <2>1 DEF OneFromEach
<1>9. U \in Seq(Txs) /\ Len(U) = u /\ V \in Seq(Txs) /\ Len(V) = v /\ u \in Nat /\ v \in Nat
  BY <1>2, <1>3, <1>6, ThosePlaces
<1>10. u + v = L
  <2>1. IsFiniteSet(1 .. L) /\ Cardinality(1 .. L) = L
    BY <1>2, Numbers
  <2>2. PU = (1 .. L) \cap PU
    BY <1>2, <1>3
  <2>3. v = L - Cardinality((1 .. L) \cap PU)
    BY <1>2, <1>3, <2>1, FS_Difference
  <2> HIDE DEF L, v
  <2>4. v = L - u
    BY <2>2, <2>3
  <2> QED
    BY <1>2, <1>9, <2>4 DEF v
<1> HIDE DEF u, v, L
<1> DEFINE Old(n) == IF n <= u THEN f[n] ELSE g[n - u - 1]
<1>11. /\ W \in Seq(Txs) /\ Len(W) = L + 1
       /\ \A n \in 1 .. u : W[n] = U[n]
       /\ W[u + 1] = t
       /\ \A n \in u + 2 .. L + 1 : W[n] = V[n - u - 1] /\ n - u - 1 \in 1 .. v
  BY <1>1, <1>2, <1>9, <1>10
<1> HIDE DEF W
<1>12. \A n \in 1 .. L + 1 : n # u + 1 => Old(n) \in 1 .. L /\ W[n] = txs[Old(n)]
  <2> SUFFICES ASSUME NEW n \in 1 .. L + 1, n # u + 1
               PROVE  Old(n) \in 1 .. L /\ W[n] = txs[Old(n)]
    OBVIOUS
  <2>1. CASE n <= u
    <3>1. n \in 1 .. u
      BY <1>2, <1>9, <2>1
    <3> QED
      BY <1>2, <1>3, <1>6, <1>7, <1>11, <2>1, <3>1
  <2>2. CASE ~(n <= u)
    <3>1. n \in u + 2 .. L + 1
      BY <1>2, <1>9, <2>2
    <3> QED
      BY <1>2, <1>3, <1>6, <1>8, <1>11, <2>2, <3>1
  <2> QED
    BY <2>1, <2>2
<1>13. \A m, n \in 1 .. L + 1 : m # u + 1 /\ n # u + 1 /\ Old(m) = Old(n) => m = n
  <2> SUFFICES ASSUME NEW m \in 1 .. L + 1, NEW n \in 1 .. L + 1, m # u + 1, n # u + 1, Old(m) = Old(n)
               PROVE  m = n
    OBVIOUS
  <2>1. CASE m <= u /\ n <= u
    BY <1>2, <1>7, <1>9, <2>1
  <2>2. CASE ~(m <= u) /\ ~(n <= u)
    <3>1. m - u - 1 \in 1 .. v /\ n - u - 1 \in 1 .. v
      BY <1>2, <1>9, <1>10, <2>2
    <3>2. m - u - 1 = n - u - 1
      BY <1>8, <2>2, <3>1
    <3> QED
      BY <1>2, <1>9, <3>2
  <2>3. CASE m <= u /\ ~(n <= u)
    <3>1. n - u - 1 \in 1 .. v /\ m \in 1 .. u
      BY <1>2, <1>9, <1>10, <2>3
    <3>2. Old(m) \in PU /\ Old(n) \in PC
      BY <1>7, <1>8, <2>3, <3>1
    <3> QED
      BY <1>3, <3>2
  <2>4. CASE ~(m <= u) /\ n <= u
    <3>1. m - u - 1 \in 1 .. v /\ n \in 1 .. u
      BY <1>2, <1>9, <1>10, <2>4
    <3>2. Old(n) \in PU /\ Old(m) \in PC
      BY <1>7, <1>8, <2>4, <3>1
    <3> QED
      BY <1>3, <3>2
  <2> QED
    BY <2>1, <2>2, <2>3, <2>4
<1>14. \A m, n \in 1 .. L + 1 : m < n /\ W[n].unconfirmed => W[m].unconfirmed
  <2> SUFFICES ASSUME NEW m \in 1 .. L + 1, NEW n \in 1 .. L + 1, m < n, W[n].unconfirmed
               PROVE  W[m].unconfirmed
    OBVIOUS
  <2>1. n # u + 1
    BY <1>1, <1>11
  <2>2. n <= u
    <3> SUFFICES ASSUME ~(n <= u) PROVE FALSE
      OBVIOUS
    <3>1. n \in u + 2 .. L + 1
      BY <1>2, <1>9, <2>1
    <3>2. n - u - 1 \in 1 .. v /\ W[n] = txs[g[n - u - 1]]
      BY <1>6, <1>8, <1>11, <3>1
    <3>3. g[n - u - 1] \in PC
      BY <1>8, <3>2
    <3> QED
      BY <1>5, <3>2, <3>3
  <2>3. m \in 1 .. u
    BY <1>9, <2>2
  <2>4. f[m] \in PU /\ W[m] = txs[f[m]]
    BY <1>6, <1>7, <1>11, <2>3
  <2> QED
    BY <1>4, <2>4
<1> HIDE DEF Old
<1>15. /\ \A n \in 1 .. L : txs[n].coin = c /\ txs[n].id \in 1 .. L
       /\ \A m, n \in 1 .. L : txs[m].id = txs[n].id => m = n
  BY <1>2 DEF Listed, L
<1>16. \A n \in 1 .. L + 1 : W[n].coin = c /\ W[n].id \in 1 .. L + 1
  <2> SUFFICES ASSUME NEW n \in 1 .. L + 1 PROVE W[n].coin = c /\ W[n].id \in 1 .. L + 1
    OBVIOUS
  <2>1. CASE n = u + 1
    BY <1>1, <1>2, <1>11, <2>1
  <2>2. CASE n # u + 1
    <3>1. W[n].coin = c /\ W[n].id \in 1 .. L
      BY <1>12, <1>15, <2>2
    <3> QED
      BY <1>2, <3>1
  <2> QED
    BY <2>1, <2>2
<1>17. \A m, n \in 1 .. L + 1 : W[m].id = W[n].id => m = n
  <2> SUFFICES ASSUME NEW m \in 1 .. L + 1, NEW n \in 1 .. L + 1, W[m].id = W[n].id PROVE m = n
    OBVIOUS
  <2>1. \A k \in 1 .. L + 1 : k # u + 1 => W[k].id \in 1 .. L
    BY <1>12, <1>15
  <2>2. W[u + 1].id \notin 1 .. L
    BY <1>1, <1>2, <1>11
  <2>3. CASE m # u + 1 /\ n # u + 1
    <3>1. Old(m) = Old(n)
      BY <1>12, <1>15, <2>3
    <3> QED
      BY <1>13, <2>3, <3>1
  <2> QED
    BY <2>1, <2>2, <2>3
<1>18. Listed(W, c)
  BY <1>11, <1>14, <1>16, <1>17 DEF Listed
<1> QED
  BY <1>18 DEF W, U, V, t, L

(* The oldest unconfirmed transaction is confirmed.                        *)
LEMMA OldestConfirmedListed ==
  ASSUME NEW c \in Coins, NEW txs, Listed(txs, c), Unconfirmed(txs) # <<>>
  PROVE  /\ Len(Unconfirmed(txs)) \in DOMAIN txs
         /\ Listed([txs EXCEPT ![Len(Unconfirmed(txs))] = [txs[Len(Unconfirmed(txs))] EXCEPT !.unconfirmed = FALSE]], c)
<1> DEFINE PU == {n \in DOMAIN txs : txs[n].unconfirmed}
           L == Len(txs)
           k == Len(Unconfirmed(txs))
           t == [txs[k] EXCEPT !.unconfirmed = FALSE]
           W == [txs EXCEPT ![k] = t]
<1>1. txs \in Seq(Txs) /\ L \in Nat /\ DOMAIN txs = 1 .. L
  BY DEF Listed
<1>2. PU \in SUBSET DOMAIN txs /\ \A n \in DOMAIN txs : n \in PU <=> txs[n].unconfirmed
  OBVIOUS
<1>3. \A i, j \in 1 .. L : i < j /\ j \in PU => i \in PU
  BY <1>1 DEF Listed
<1>4. Unconfirmed(txs) = Those(txs, PU)
  BY DEF Unconfirmed
<1> HIDE DEF PU
<1>5. k = Cardinality(PU) /\ Unconfirmed(txs) \in Seq(Txs)
  BY <1>1, <1>2, <1>4, ThosePlaces
<1>6. k # 0
  BY <1>5
<1> HIDE DEF k
<1>7. k \in 1 .. L /\ PU = 1 .. k
  <2>1. PU \in SUBSET (1 .. L)
    BY <1>1, <1>2
  <2> HIDE DEF L
  <2>2. Cardinality(PU) \in 0 .. L /\ PU = 1 .. Cardinality(PU)
    BY <1>1, <1>3, <2>1, FrontPlaces
  <2> QED
    BY <1>1, <1>5, <1>6, <2>2
<1>8. txs[k] \in Txs
  BY <1>1, <1>7
<1>9. t \in Txs /\ t.coin = txs[k].coin /\ t.id = txs[k].id /\ t.unconfirmed = FALSE
  BY <1>8 DEF Txs
<1> HIDE DEF t
<1>10. /\ W \in Seq(Txs) /\ Len(W) = L /\ DOMAIN W = 1 .. L
       /\ W[k] = t /\ \A n \in 1 .. L : n # k => W[n] = txs[n]
  BY <1>1, <1>7, <1>9
<1> HIDE DEF W
<1>11. \A n \in 1 .. L : W[n].coin = txs[n].coin /\ W[n].id = txs[n].id
  BY <1>9, <1>10
<1>12. \A m, n \in 1 .. L : m < n /\ W[n].unconfirmed => W[m].unconfirmed
  <2> SUFFICES ASSUME NEW m \in 1 .. L, NEW n \in 1 .. L, m < n, W[n].unconfirmed
               PROVE  W[m].unconfirmed
    OBVIOUS
  <2>1. n # k
    BY <1>9, <1>10
  <2>2. n \in PU
    BY <1>1, <1>2, <1>10, <2>1
  <2>3. m # k /\ m \in PU
    BY <1>7, <2>1, <2>2
  <2> QED
    BY <1>1, <1>2, <1>10, <2>3
<1>13. \A n \in 1 .. L : W[n].coin = c /\ W[n].id \in 1 .. L
  BY <1>1, <1>11 DEF Listed
<1>14. \A m, n \in 1 .. L : W[m].id = W[n].id => m = n
  BY <1>1, <1>11 DEF Listed
<1>15. Listed(W, c)
  BY <1>10, <1>12, <1>13, <1>14 DEF Listed
<1> QED
  BY <1>1, <1>7, <1>15 DEF W, t, k

-----------------------------------------------------------------------------
(* The rows after an answer.                                               *)
OfCoin(txs, c) == \A n \in DOMAIN txs : txs[n].coin = c
Distinct(txs) == \A m, n \in 1 .. Len(txs) : Same(txs[m], txs[n]) => m = n

(* Transactions of a list that have no row, each once.                     *)
Fresh(new, rs, txs) ==
  /\ new \in Seq(Txs)
  /\ \E from :
       /\ \A n \in 1 .. Len(new) :
            from[n] \in DOMAIN txs /\ new[n] = txs[from[n]] /\ ~Has(rs, txs[from[n]])
       /\ \A n, k \in 1 .. Len(new) : from[n] = from[k] => n = k

(* A new confirmed transaction comes after one that has a row, or is       *)
(* unconfirmed.                                                            *)
Behind(rs, txs) ==
  \E n \in DOMAIN txs : \E m \in 1 .. n - 1 :
    ~txs[n].unconfirmed /\ ~Has(rs, txs[n]) /\ (txs[m].unconfirmed \/ Has(rs, txs[m]))

LEMMA Appended ==
  ASSUME NEW S, NEW a \in Seq(S), NEW b \in Seq(S)
  PROVE  /\ a \o b \in Seq(S) /\ Len(a \o b) = Len(a) + Len(b)
         /\ \A n \in 1 .. Len(a \o b) :
              \/ n \in 1 .. Len(a) /\ (a \o b)[n] = a[n]
              \/ n - Len(a) \in 1 .. Len(b) /\ (a \o b)[n] = b[n - Len(a)]
<1>1. a \o b \in Seq(S) /\ Len(a \o b) = Len(a) + Len(b)
  OBVIOUS
<1>2. ASSUME NEW n \in 1 .. Len(a) + Len(b), n <= Len(a)
      PROVE  n \in 1 .. Len(a) /\ (a \o b)[n] = a[n]
  BY <1>2
<1>3. ASSUME NEW n \in 1 .. Len(a) + Len(b), ~(n <= Len(a))
      PROVE  n - Len(a) \in 1 .. Len(b) /\ (a \o b)[n] = b[n - Len(a)]
  BY <1>3
<1> QED
  BY <1>1, <1>2, <1>3

(* A row that is updated stays the row of its transaction.                 *)
LEMMA UpdatedRows ==
  ASSUME NEW rs \in Seq(Txs), NEW txs \in Seq(Txs), NEW d \in Nat
  PROVE  /\ Updated(rs, txs, d + 1) \in Seq(Txs) /\ Len(Updated(rs, txs, d + 1)) = Len(rs)
         /\ \A m \in 1 .. Len(rs) : Same(Updated(rs, txs, d + 1)[m], rs[m])
<1> DEFINE K(m) == {k \in d + 1 .. Len(txs) : Same(txs[k], rs[m])}
           row(m) == IF \E k \in d + 1 .. Len(txs) : Same(txs[k], rs[m])
                     THEN txs[CHOOSE k \in d + 1 .. Len(txs) : Same(txs[k], rs[m])] ELSE rs[m]
           U == Updated(rs, txs, d + 1)
<1>1. U = [m \in DOMAIN rs |-> row(m)]
  BY DEF Updated
<1>2. \A m \in DOMAIN rs : row(m) \in Txs /\ Same(row(m), rs[m])
  <2> SUFFICES ASSUME NEW m \in DOMAIN rs PROVE row(m) \in Txs /\ Same(row(m), rs[m])
    OBVIOUS
  <2>1. rs[m] \in Txs
    OBVIOUS
  <2>2. CASE \E k \in d + 1 .. Len(txs) : Same(txs[k], rs[m])
    <3> DEFINE k == CHOOSE k \in d + 1 .. Len(txs) : Same(txs[k], rs[m])
    <3>1. k \in d + 1 .. Len(txs) /\ Same(txs[k], rs[m])
      BY <2>2
    <3>2. row(m) = txs[k]
      BY <2>2
    <3> HIDE DEF k, row
    <3>3. k \in DOMAIN txs
      BY <3>1
    <3>4. txs[k] \in Txs
      BY <3>3
    <3> QED
      BY <3>1, <3>2, <3>4
  <2>3. CASE ~\E k \in d + 1 .. Len(txs) : Same(txs[k], rs[m])
    <3>1. row(m) = rs[m]
      BY <2>3
    <3> HIDE DEF row
    <3> QED
      BY <2>1, <3>1 DEF Same
  <2> QED
    BY <2>2, <2>3
<1> HIDE DEF row, U
<1>3. U \in Seq(Txs) /\ Len(U) = Len(rs)
  BY <1>1, <1>2
<1> QED
  BY <1>1, <1>2, <1>3 DEF U

(* Rows and transactions that have none.                                   *)
LEMMA FreshDistinct ==
  ASSUME NEW rs \in Seq(Txs), Distinct(rs), NEW up \in Seq(Txs), Len(up) = Len(rs),
         \A m \in 1 .. Len(rs) : Same(up[m], rs[m]),
         NEW txs, NEW c, Listed(txs, c), NEW new, Fresh(new, rs, txs)
  PROVE  Distinct(up \o new)
<1>1. PICK from : /\ \A n \in 1 .. Len(new) :
                       from[n] \in DOMAIN txs /\ new[n] = txs[from[n]] /\ ~Has(rs, txs[from[n]])
                  /\ \A n, k \in 1 .. Len(new) : from[n] = from[k] => n = k
  BY DEF Fresh
<1> DEFINE L == Len(rs)
           N == Len(new)
           W == up \o new
<1>2. new \in Seq(Txs) /\ L \in Nat /\ N \in Nat
  BY DEF Fresh
<1>3. /\ Len(W) = L + N
      /\ \A m \in 1 .. L : W[m] = up[m]
      /\ \A m \in 1 .. L + N : ~(m <= L) => W[m] = new[m - L] /\ m - L \in 1 .. N
  BY <1>2
<1> HIDE DEF W
<1>4. \A m \in 1 .. L, n \in 1 .. N : ~Same(up[m], new[n]) /\ ~Same(new[n], up[m])
  <2> SUFFICES ASSUME NEW m \in 1 .. L, NEW n \in 1 .. N, Same(up[m], new[n]) \/ Same(new[n], up[m])
               PROVE  FALSE
    OBVIOUS
  <2>1. Same(rs[m], new[n])
    BY DEF Same
  <2>2. m \in DOMAIN rs
    OBVIOUS
  <2> QED
    BY <1>1, <2>1, <2>2 DEF Has
<1>5. \A m, n \in 1 .. L : Same(up[m], up[n]) => m = n
  <2> SUFFICES ASSUME NEW m \in 1 .. L, NEW n \in 1 .. L, Same(up[m], up[n]) PROVE m = n
    OBVIOUS
  <2>1. Same(rs[m], rs[n])
    BY DEF Same
  <2> QED
    BY <2>1 DEF Distinct
<1>6. \A m, n \in 1 .. N : Same(new[m], new[n]) => m = n
  <2> SUFFICES ASSUME NEW m \in 1 .. N, NEW n \in 1 .. N, Same(new[m], new[n]) PROVE m = n
    OBVIOUS
  <2>1. txs[from[m]].id = txs[from[n]].id /\ from[m] \in DOMAIN txs /\ from[n] \in DOMAIN txs
    BY <1>1 DEF Same
  <2>2. from[m] = from[n]
    BY <2>1 DEF Listed
  <2> QED
    BY <1>1, <2>2
<1> SUFFICES ASSUME NEW m \in 1 .. L + N, NEW n \in 1 .. L + N, Same(W[m], W[n]) PROVE m = n
  BY <1>3 DEF Distinct, W
<1>7. CASE m <= L /\ n <= L
  <2>1. m \in 1 .. L /\ n \in 1 .. L
    BY <1>2, <1>7
  <2> QED
    BY <1>3, <1>5, <2>1
<1>8. CASE ~(m <= L) /\ ~(n <= L)
  <2>1. /\ m - L \in 1 .. N /\ W[m] = new[m - L]
        /\ n - L \in 1 .. N /\ W[n] = new[n - L]
    BY <1>3, <1>8
  <2>2. m - L = n - L
    BY <1>6, <2>1
  <2> QED
    BY <1>2, <2>2
<1>9. CASE m <= L /\ ~(n <= L)
  <2>1. m \in 1 .. L /\ W[m] = up[m] /\ n - L \in 1 .. N /\ W[n] = new[n - L]
    BY <1>2, <1>3, <1>9
  <2> QED
    BY <1>4, <2>1
<1>10. CASE ~(m <= L) /\ n <= L
  <2>1. n \in 1 .. L /\ W[n] = up[n] /\ m - L \in 1 .. N /\ W[m] = new[m - L]
    BY <1>2, <1>3, <1>10
  <2> QED
    BY <1>4, <2>1
<1> QED
  BY <1>7, <1>8, <1>9, <1>10

(* The unconfirmed transactions that are inserted.                         *)
LEMMA PendingFresh ==
  ASSUME NEW rs, NEW txs \in Seq(Txs)
  PROVE  Fresh(NewPending(rs, txs), rs, txs)
<1> DEFINE P == {n \in DOMAIN txs : (\A m \in 1 .. n : txs[m].unconfirmed) /\ ~Has(rs, txs[n])}
           W == NewPending(rs, txs)
<1>1. W = Those(txs, P)
  BY DEF NewPending
<1>2. P \in SUBSET DOMAIN txs /\ \A n \in P : ~Has(rs, txs[n])
  OBVIOUS
<1> HIDE DEF P, W
<1>3. W \in Seq(Txs) /\ Len(W) = Cardinality(P)
  BY <1>1, <1>2, ThosePlaces
<1>4. PICK from : OneFromEach(from, txs, P, W)
  BY <1>1, <1>2, ThosePlaces
<1>5. /\ \A n \in 1 .. Len(W) : from[n] \in DOMAIN txs /\ W[n] = txs[from[n]] /\ ~Has(rs, txs[from[n]])
      /\ \A n, k \in 1 .. Len(W) : from[n] = from[k] => n = k
  <2>1. \A n \in 1 .. Len(W) : from[n] \in P /\ W[n] = txs[from[n]]
    BY <1>3, <1>4 DEF OneFromEach
  <2>2. \A n, k \in 1 .. Len(W) : from[n] = from[k] => n = k
    BY <1>3, <1>4 DEF OneFromEach
  <2> QED
    BY <1>2, <2>1, <2>2
<1>6. Fresh(W, rs, txs)
  BY <1>3, <1>5 DEF Fresh
<1> QED
  BY <1>6 DEF W

(* No unconfirmed transaction is inserted: all of them have rows.          *)
LEMMA NonePending ==
  ASSUME NEW rs, NEW txs, NEW c, Listed(txs, c), NewPending(rs, txs) = <<>>,
         NEW n \in DOMAIN txs, txs[n].unconfirmed
  PROVE  Has(rs, txs[n])
<1> SUFFICES ASSUME ~Has(rs, txs[n]) PROVE FALSE
  OBVIOUS
<1> DEFINE P == {k \in DOMAIN txs : (\A m \in 1 .. k : txs[m].unconfirmed) /\ ~Has(rs, txs[k])}
<1>1. txs \in Seq(Txs) /\ DOMAIN txs = 1 .. Len(txs) /\ Len(txs) \in Nat
  BY DEF Listed
<1>2. \A m \in 1 .. n : txs[m].unconfirmed
  <2> SUFFICES ASSUME NEW m \in 1 .. n PROVE txs[m].unconfirmed
    OBVIOUS
  <2>1. m \in DOMAIN txs /\ (m = n \/ m < n)
    BY <1>1
  <2> QED
    BY <2>1 DEF Listed
<1>3. n \in P /\ P \in SUBSET DOMAIN txs
  BY <1>2
<1>4. NewPending(rs, txs) = Those(txs, P)
  BY DEF NewPending
<1> HIDE DEF P
<1>5. Len(Those(txs, P)) = Cardinality(P) /\ Those(txs, P) \in Seq(Txs)
  BY <1>1, <1>3, ThosePlaces
<1>6. IsFiniteSet(P)
  BY <1>1, <1>3, PlacesFinite
<1>7. Cardinality(P) = 0
  BY <1>4, <1>5
<1> QED
  BY <1>3, <1>6, <1>7, FS_EmptySet

(* Then the transactions without a row come first, and there are at least  *)
(* as many as the list is longer than the rows.                            *)
LEMMA FirstFresh ==
  ASSUME NEW rs \in Seq(Txs), NEW txs, NEW c, Listed(txs, c), ~Behind(rs, txs),
         NewPending(rs, txs) = <<>>, NEW e \in 1 .. Len(txs) - Len(rs)
  PROVE  ~Has(rs, txs[e])
<1> DEFINE L == Len(txs)
           R == Len(rs)
<1>1. txs \in Seq(Txs) /\ L \in Nat /\ R \in Nat /\ DOMAIN txs = 1 .. L /\ DOMAIN rs = 1 .. R
  BY DEF Listed
<1>2. e \in 1 .. L
  BY <1>1
<1> SUFFICES ASSUME Has(rs, txs[e]) PROVE FALSE
  OBVIOUS
<1>3. \A n \in e .. L : Has(rs, txs[n])
  <2> SUFFICES ASSUME NEW n \in e .. L, ~Has(rs, txs[n]) PROVE FALSE
    OBVIOUS
  <2>1. n \in DOMAIN txs /\ n # e /\ e \in 1 .. n - 1
    BY <1>1, <1>2
  <2>2. ~txs[n].unconfirmed
    BY <2>1, NonePending
  <2> QED
    BY <2>1, <2>2 DEF Behind
<1> HIDE DEF L, R
<1> DEFINE row == [n \in e .. L |-> CHOOSE m \in 1 .. R : Same(rs[m], txs[n])]
<1>4. \A n \in e .. L : row[n] \in 1 .. R /\ Same(rs[row[n]], txs[n])
  <2> SUFFICES ASSUME NEW n \in e .. L PROVE row[n] \in 1 .. R /\ Same(rs[row[n]], txs[n])
    OBVIOUS
  <2>1. \E m \in 1 .. R : Same(rs[m], txs[n])
    BY <1>1, <1>3 DEF Has
  <2> QED
    BY <2>1
<1>5. row \in [e .. L -> 1 .. R]
  BY <1>4
<1> HIDE DEF row
<1>6. \A n, k \in e .. L : row[n] = row[k] => n = k
  <2> SUFFICES ASSUME NEW n \in e .. L, NEW k \in e .. L, row[n] = row[k] PROVE n = k
    OBVIOUS
  <2>1. txs[n].id = txs[k].id
    BY <1>4 DEF Same
  <2>2. n \in DOMAIN txs /\ k \in DOMAIN txs
    BY <1>1, <1>2
  <2> QED
    BY <2>1, <2>2 DEF Listed
<1>7. row \in Injection(e .. L, 1 .. R)
  BY <1>5, <1>6 DEF Injection, IsInjective
<1>8. IsFiniteSet(1 .. R) /\ Cardinality(1 .. R) = R
  BY <1>1, Numbers
<1>9. Cardinality(e .. L) <= R
  BY <1>7, <1>8, FS_Injection
<1>10. Cardinality(e .. L) = L - e + 1
  BY <1>1, <1>2, FS_Interval
<1>11. e <= L - R
  BY <1>1 DEF L, R
<1> QED
  BY <1>1, <1>2, <1>9, <1>10, <1>11

LEMMA DifferenceFresh ==
  ASSUME NEW rs \in Seq(Txs), NEW txs, NEW c, Listed(txs, c), ~Behind(rs, txs),
         NewPending(rs, txs) = <<>>, NEW d \in Nat, d = Len(txs) - Len(rs)
  PROVE  Fresh(SubSeq(txs, 1, d), rs, txs)
<1> DEFINE W == SubSeq(txs, 1, d)
           from == [n \in 1 .. d |-> n]
<1>1. txs \in Seq(Txs) /\ Len(txs) \in Nat /\ d \in 0 .. Len(txs)
  BY DEF Listed
<1>2. W \in Seq(Txs) /\ Len(W) = d /\ \A n \in 1 .. d : W[n] = txs[n]
  BY <1>1
<1>3. \A n \in 1 .. d : ~Has(rs, txs[n])
  BY FirstFresh
<1> HIDE DEF W
<1>4. /\ \A n \in 1 .. Len(W) : from[n] \in DOMAIN txs /\ W[n] = txs[from[n]] /\ ~Has(rs, txs[from[n]])
      /\ \A n, k \in 1 .. Len(W) : from[n] = from[k] => n = k
  BY <1>1, <1>2, <1>3
<1> HIDE DEF from
<1>5. Fresh(W, rs, txs)
  BY <1>2, <1>4 DEF Fresh
<1> QED
  BY <1>5 DEF W

(* The rows stay transactions, of the same coin, and without a repetition. *)
LEMMA InsertedRows ==
  ASSUME NEW rs \in Seq(Txs), NEW txs, NEW c, Listed(txs, c)
  PROVE  /\ UpdateOrInsert(rs, txs) \in Seq(Txs)
         /\ \A k : OfCoin(rs, k) /\ OfCoin(txs, k) => OfCoin(UpdateOrInsert(rs, txs), k)
         /\ Distinct(rs) /\ ~Behind(rs, txs) => Distinct(UpdateOrInsert(rs, txs))
<1> DEFINE d == Len(txs) - Len(rs)
           new == IF d = 0 THEN <<>>
                  ELSE IF NewPending(rs, txs) # <<>> THEN NewPending(rs, txs)
                  ELSE SubSeq(txs, 1, d)
           up == Updated(rs, txs, d + 1)
           W == UpdateOrInsert(rs, txs)
<1>1. txs \in Seq(Txs) /\ Len(txs) \in Nat /\ Len(rs) \in Nat /\ d \in Int
  BY DEF Listed
<1>2. W = IF d < 0 THEN rs ELSE up \o new
  BY DEF UpdateOrInsert
<1>3. CASE d < 0
  <2>1. W = rs
    BY <1>2, <1>3
  <2> QED
    BY <2>1
<1>4. CASE ~(d < 0)
  <2>1. d \in Nat /\ d <= Len(txs)
    BY <1>1, <1>4
  <2>2. W = up \o new
    BY <1>2, <1>4
  <2>3. /\ up \in Seq(Txs) /\ Len(up) = Len(rs)
        /\ \A m \in 1 .. Len(rs) : Same(up[m], rs[m])
    <3> HIDE DEF d
    <3> QED
      BY <1>1, <2>1, UpdatedRows
  <2>4. Fresh(NewPending(rs, txs), rs, txs)
    BY <1>1, PendingFresh
  <2>5. /\ new \in Seq(Txs)
        /\ \A n \in 1 .. Len(new) : \E i \in DOMAIN txs : new[n] = txs[i]
    <3>1. CASE d = 0
      <4>1. new = <<>>
        BY <3>1
      <4> HIDE DEF new
      <4> QED
        BY <4>1
    <3>2. CASE d # 0 /\ NewPending(rs, txs) # <<>>
      <4>1. new = NewPending(rs, txs)
        BY <3>2
      <4> HIDE DEF new
      <4> QED
        BY <2>4, <4>1 DEF Fresh
    <3>3. CASE d # 0 /\ NewPending(rs, txs) = <<>>
      <4>1. new = SubSeq(txs, 1, d)
        BY <3>3
      <4> HIDE DEF new, d
      <4>2. new \in Seq(Txs) /\ Len(new) = d /\ \A n \in 1 .. d : new[n] = txs[n]
        BY <1>1, <2>1, <4>1
      <4>3. \A n \in 1 .. d : n \in DOMAIN txs
        BY <1>1, <2>1
      <4> QED
        BY <4>2, <4>3
    <3> QED
      BY <3>1, <3>2, <3>3
  <2>6. ASSUME Distinct(rs), ~Behind(rs, txs) PROVE Distinct(W)
    <3>1. Fresh(new, rs, txs)
      <4>1. CASE d = 0
        <5>1. new = <<>>
          BY <4>1
        <5> HIDE DEF new
        <5> QED
          BY <5>1 DEF Fresh
      <4>2. CASE d # 0 /\ NewPending(rs, txs) # <<>>
        BY <2>4, <4>2
      <4>3. CASE d # 0 /\ NewPending(rs, txs) = <<>>
        <5>1. new = SubSeq(txs, 1, d)
          BY <4>3
        <5>2. Fresh(SubSeq(txs, 1, d), rs, txs)
          <6>1. d = Len(txs) - Len(rs)
            OBVIOUS
          <6> HIDE DEF d
          <6> QED
            BY <2>1, <2>6, <4>3, <6>1, DifferenceFresh
        <5> HIDE DEF new
        <5> QED
          BY <5>1, <5>2
      <4> QED
        BY <4>1, <4>2, <4>3
    <3> HIDE DEF new, up, W
    <3> QED
      BY <2>2, <2>3, <2>6, <3>1, FreshDistinct
  <2> HIDE DEF new, up, W, d
  <2>7. /\ W \in Seq(Txs) /\ Len(W) = Len(rs) + Len(new)
        /\ \A n \in 1 .. Len(W) : \/ n \in 1 .. Len(rs) /\ W[n] = up[n]
                                  \/ n - Len(rs) \in 1 .. Len(new) /\ W[n] = new[n - Len(rs)]
    <3>1. new \in Seq(Txs) /\ up \in Seq(Txs) /\ Len(up) = Len(rs)
      BY <2>3, <2>5
    <3>2. /\ up \o new \in Seq(Txs) /\ Len(up \o new) = Len(up) + Len(new)
          /\ \A n \in 1 .. Len(up \o new) :
               \/ n \in 1 .. Len(up) /\ (up \o new)[n] = up[n]
               \/ n - Len(up) \in 1 .. Len(new) /\ (up \o new)[n] = new[n - Len(up)]
      BY <3>1, Appended
    <3> QED
      BY <2>2, <3>1, <3>2
  <2>8. ASSUME NEW k, OfCoin(rs, k), OfCoin(txs, k) PROVE OfCoin(W, k)
    <3>1. \A n \in 1 .. Len(rs) : up[n].coin = k
      BY <2>3, <2>8 DEF OfCoin, Same
    <3>2. \A n \in 1 .. Len(new) : new[n].coin = k
      BY <2>5, <2>8 DEF OfCoin
    <3> QED
      BY <2>7, <3>1, <3>2 DEF OfCoin
  <2> QED
    BY <2>6, <2>7, <2>8 DEF W
<1> QED
  BY <1>3, <1>4

-----------------------------------------------------------------------------
(* The inductive invariant of the rows.                                    *)
AtWork(f) == f.pc \in {"stored", "checked", "read"}

(* A fetch carries the transactions of its coin, until its handler has     *)
(* read those stored.                                                      *)
Fetched(f) ==
  \/ f = Idle
  \/ /\ f \in Fetches /\ (f.pc = "proxy" => f.coin \in Tokens)
     /\ \E c \in Coins : Listed(f.txs, c)
     /\ f.pc # "read" => Listed(f.txs, f.coin)

(* What a handler relies on while it is alone at work.                     *)
Relies(f, st, tk) ==
  /\ f.pc = "stored" => OfCoin(st[Key(f.coin)], f.coin)
  /\ f.pc = "checked" => f.coin = tk /\ OfCoin(st[Key(tk)], tk)
  /\ f.pc = "read" => OfCoin(f.txs, tk)

Plain ==
  /\ ticker \in Coins /\ choosing \in BOOLEAN /\ busy \in BOOLEAN
  /\ scanning \subseteq Coins
  /\ blank \in BOOLEAN /\ overlap \in BOOLEAN /\ behind \in BOOLEAN
  /\ choices \in 0 .. MaxChoices /\ faults \in 0 .. MaxFaults /\ news \in 0 .. MaxNew

InFlight ==
  /\ flight = [i \in Slots |-> flight[i]]
  /\ \A i \in Slots : Fetched(flight[i])

Histories ==
  /\ hist = [c \in Coins |-> hist[c]]
  /\ \A c \in Coins : Listed(hist[c], c)

Stored ==
  /\ store = [k \in Keys |-> store[k]]
  /\ \A k \in Keys : \E c \in Coins : Listed(store[k], c)

RowsOnce == rows \in Seq(Txs) /\ (Distinct(rows) \/ behind)

OneHandler ==
  overlap \/ /\ \A i, j \in Slots : AtWork(flight[i]) /\ AtWork(flight[j]) => i = j
             /\ \A i \in Slots : Relies(flight[i], store, ticker)
             /\ choosing \/ OfCoin(rows, ticker)

TxInv == Plain /\ InFlight /\ Histories /\ Stored /\ RowsOnce /\ OneHandler

-----------------------------------------------------------------------------
LEMMA KeyIn ==
  ASSUME NEW c \in Coins PROVE Key(c) \in Keys
BY DEF Key, Keys

LEMMA IdleFetched ==
  /\ Fetched(Idle) /\ ~AtWork(Idle) /\ Idle.pc = "idle"
  /\ \A st, tk : Relies(Idle, st, tk)
BY DEF Fetched, AtWork, Idle, Relies

(* The parts of a fetch that is in flight.                                 *)
LEMMA FetchedParts ==
  ASSUME NEW f, Fetched(f), f.pc # "idle"
  PROVE  /\ f.pc \in Pcs /\ f.coin \in Coins /\ f.txs \in Seq(Txs)
         /\ f = [pc |-> f.pc, coin |-> f.coin, txs |-> f.txs]
         /\ \E c \in Coins : Listed(f.txs, c)
         /\ f.pc # "read" => Listed(f.txs, f.coin)
         /\ f.pc = "proxy" => f.coin \in Tokens
BY DEF Fetched, Idle, Fetches

(* The next stage of a fetch.                                              *)
LEMMA StageFetched ==
  ASSUME NEW f, Fetched(f), f.pc \notin {"idle", "read"}, NEW p \in Pcs,
         p = "proxy" => f.coin \in Tokens
  PROVE  /\ Fetched([f EXCEPT !.pc = p]) /\ [f EXCEPT !.pc = p].pc = p
         /\ [f EXCEPT !.pc = p].coin = f.coin /\ [f EXCEPT !.pc = p].txs = f.txs
<1> DEFINE g == [f EXCEPT !.pc = p]
<1>1. /\ f.pc \in Pcs /\ f.coin \in Coins /\ f.txs \in Seq(Txs)
      /\ f = [pc |-> f.pc, coin |-> f.coin, txs |-> f.txs]
      /\ \E c \in Coins : Listed(f.txs, c)
      /\ Listed(f.txs, f.coin)
  BY FetchedParts
<1>2. g = [pc |-> p, coin |-> f.coin, txs |-> f.txs]
  BY <1>1
<1> HIDE DEF g
<1>3. g.pc = p /\ g.coin = f.coin /\ g.txs = f.txs
  BY <1>2
<1>4. g \in Fetches
  BY <1>1, <1>2 DEF Fetches
<1>5. Fetched(g)
  BY <1>1, <1>3, <1>4 DEF Fetched
<1> QED
  BY <1>3, <1>5 DEF g

(* One slot gets a new value.                                              *)
LEMMA SlotFetched ==
  ASSUME InFlight, NEW i \in Slots, NEW f, Fetched(f), flight' = [flight EXCEPT ![i] = f]
  PROVE  InFlight' /\ flight'[i] = f /\ \A j \in Slots \ {i} : flight'[j] = flight[j]
<1>1. flight'[i] = f /\ \A j \in Slots \ {i} : flight'[j] = flight[j]
  BY DEF InFlight
<1>2. flight' = [j \in Slots |-> flight'[j]]
  BY DEF InFlight
<1> QED
  BY <1>1, <1>2 DEF InFlight

(* A fetch that was not at work, or its handler, gets an end or a stage    *)
(* with no handler.                                                        *)
LEMMA HandlerLeaves ==
  ASSUME OneHandler, InFlight, NEW i \in Slots, NEW f, Fetched(f), ~AtWork(f),
         flight' = [flight EXCEPT ![i] = f], UNCHANGED <<store, ticker, choosing, overlap>>,
         overlap \/ choosing \/ OfCoin(rows', ticker)
  PROVE  OneHandler' /\ InFlight'
<1>1. InFlight' /\ flight'[i] = f /\ \A j \in Slots \ {i} : flight'[j] = flight[j]
  BY SlotFetched
<1>2. Relies(f, store, ticker)
  BY DEF AtWork, Relies
<1>3. CASE overlap
  BY <1>1, <1>3 DEF OneHandler
<1>4. CASE ~overlap
  <2>1. /\ \A j, k \in Slots : AtWork(flight[j]) /\ AtWork(flight[k]) => j = k
        /\ \A j \in Slots : Relies(flight[j], store, ticker)
    BY <1>4 DEF OneHandler
  <2>2. \A j, k \in Slots : AtWork(flight'[j]) /\ AtWork(flight'[k]) => j = k
    BY <1>1, <2>1
  <2>3. \A j \in Slots : Relies(flight'[j], store, ticker)
    BY <1>1, <1>2, <2>1
  <2>4. choosing \/ OfCoin(rows', ticker)
    BY <1>4
  <2> QED
    BY <1>1, <2>2, <2>3, <2>4 DEF OneHandler
<1> QED
  BY <1>3, <1>4

(* A handler goes on.                                                      *)
LEMMA HandlerGoesOn ==
  ASSUME OneHandler, InFlight, NEW i \in Slots, AtWork(flight[i]), NEW f, Fetched(f),
         flight' = [flight EXCEPT ![i] = f],
         UNCHANGED <<store, rows, ticker, choosing, overlap>>,
         overlap \/ Relies(f, store, ticker)
  PROVE  OneHandler' /\ InFlight'
<1>1. InFlight' /\ flight'[i] = f /\ \A j \in Slots \ {i} : flight'[j] = flight[j]
  BY SlotFetched
<1>2. CASE overlap
  BY <1>1, <1>2 DEF OneHandler
<1>3. CASE ~overlap
  <2>1. /\ \A j, k \in Slots : AtWork(flight[j]) /\ AtWork(flight[k]) => j = k
        /\ \A j \in Slots : Relies(flight[j], store, ticker)
        /\ choosing \/ OfCoin(rows, ticker)
    BY <1>3 DEF OneHandler
  <2>2. \A j, k \in Slots : AtWork(flight'[j]) /\ AtWork(flight'[k]) => j = k
    <3>1. \A j \in Slots : AtWork(flight'[j]) => AtWork(flight[j])
      BY <1>1
    <3> QED
      BY <2>1, <3>1
  <2>3. \A j \in Slots : Relies(flight'[j], store, ticker)
    BY <1>1, <1>3, <2>1
  <2> QED
    BY <1>1, <2>1, <2>2, <2>3 DEF OneHandler
<1> QED
  BY <1>2, <1>3

-----------------------------------------------------------------------------
(* What fetching puts in a slot.                                           *)
LEMMA FetchFetched ==
  ASSUME InFlight, Histories, NEW i \in Slots, NEW c \in Coins, Fetch(i, c)
  PROVE  \E f : Fetched(f) /\ ~AtWork(f) /\ flight' = [flight EXCEPT ![i] = f]
<1> DEFINE f == [pc |-> IF c \in scanning THEN "empty" ELSE "sent", coin |-> c, txs |-> hist[c]]
<1>1. Listed(hist[c], c)
  BY DEF Histories
<1>2. f \in Fetches /\ f.pc \in {"empty", "sent"} /\ f.coin = c /\ f.txs = hist[c]
  BY <1>1 DEF Fetches, Pcs, Listed
<1>3. flight' = [flight EXCEPT ![i] = f]
  BY DEF Fetch
<1> HIDE DEF f
<1>4. Fetched(f) /\ ~AtWork(f)
  BY <1>1, <1>2 DEF Fetched, AtWork
<1> QED
  BY <1>3, <1>4

LEMMA RowsShown ==
  ASSUME OneHandler PROVE overlap \/ choosing \/ OfCoin(rows, ticker)
BY DEF OneHandler

LEMMA NoRows ==
  <<>> \in Seq(Txs) /\ Distinct(<<>>) /\ \A c : OfCoin(<<>>, c)
BY DEF Distinct, OfCoin

LEMMA Bounds ==
  /\ MaxChoices \in Nat /\ MaxFaults \in Nat /\ MaxNew \in Nat
  /\ \A M \in Nat : \A n \in 0 .. M : n < M => n + 1 \in 0 .. M
<1>1. MaxChoices \in Nat /\ MaxFaults \in Nat /\ MaxNew \in Nat
  BY TxHistoryAssumption
<1> QED
  BY <1>1

LEMMA HandlingIs ==
  /\ Handling \in BOOLEAN
  /\ Handling <=> \E i \in Slots : AtWork(flight[i])
BY DEF Handling, AtWork

LEMMA ChooseTx ==
  ASSUME TxInv, NEW c \in Coins, Choose(c)
  PROVE  TxInv'
<1>1. Plain'
  BY Bounds, HandlingIs DEF TxInv, Plain, Choose, daemonVars
<1>2. InFlight' /\ Histories' /\ Stored' /\ RowsOnce'
  BY DEF TxInv, Choose, InFlight, Histories, Stored, RowsOnce, daemonVars
<1>3. OneHandler'
  <2> SUFFICES ASSUME ~overlap' PROVE OneHandler'
    BY DEF OneHandler
  <2>1. \A i \in Slots : ~AtWork(flight[i])
    BY DEF Choose, Handling, AtWork
  <2>2. \A i \in Slots : Relies(flight[i], store', ticker')
    BY <2>1 DEF AtWork, Relies
  <2>3. flight' = flight /\ choosing' = TRUE
    BY DEF Choose
  <2> QED
    BY <2>1, <2>2, <2>3 DEF OneHandler
<1> QED
  BY <1>1, <1>2, <1>3 DEF TxInv

LEMMA ShowTx ==
  ASSUME TxInv, NEW i \in Slots, Show(i)
  PROVE  TxInv'
<1>1. Plain' /\ Histories' /\ Stored'
  <2>1. blank' \in BOOLEAN /\ overlap' \in BOOLEAN /\ behind' \in BOOLEAN
    <3>1. overlap' = Handling
      BY DEF Show
    <3>2. overlap' \in BOOLEAN
      BY <3>1, HandlingIs
    <3>3. blank' = (ticker \in scanning) /\ behind' = FALSE
      BY DEF Show
    <3>4. blank' \in BOOLEAN
      BY <3>3
    <3> QED
      BY <3>2, <3>3, <3>4
  <2> QED
    BY <2>1 DEF TxInv, Plain, Histories, Stored, Show, daemonVars
<1>2. PICK f : Fetched(f) /\ ~AtWork(f) /\ flight' = [flight EXCEPT ![i] = f]
  BY FetchFetched DEF Show, TxInv, Plain
<1>3. InFlight' /\ flight'[i] = f /\ \A j \in Slots \ {i} : flight'[j] = flight[j]
  BY <1>2, SlotFetched DEF TxInv
<1>4. RowsOnce'
  BY NoRows DEF Show, RowsOnce
<1>5. OneHandler'
  <2> SUFFICES ASSUME ~overlap' PROVE OneHandler'
    BY DEF OneHandler
  <2>1. \A j \in Slots : ~AtWork(flight[j])
    BY DEF Show, Handling, AtWork
  <2>2. \A j \in Slots : ~AtWork(flight'[j])
    BY <1>2, <1>3, <2>1
  <2>3. \A j \in Slots : Relies(flight'[j], store', ticker')
    BY <2>2 DEF AtWork, Relies
  <2>4. OfCoin(rows', ticker')
    BY NoRows DEF Show
  <2> QED
    BY <2>2, <2>3, <2>4 DEF OneHandler
<1> QED
  BY <1>1, <1>3, <1>4, <1>5 DEF TxInv

LEMMA PeriodicTx ==
  ASSUME TxInv, NEW i \in Slots, Periodic(i)
  PROVE  TxInv'
<1>1. Plain' /\ Histories' /\ Stored' /\ RowsOnce'
  BY DEF TxInv, Plain, Histories, Stored, RowsOnce, Periodic, daemonVars, historyVars
<1>2. PICK f : Fetched(f) /\ ~AtWork(f) /\ flight' = [flight EXCEPT ![i] = f]
  BY FetchFetched DEF Periodic, TxInv, Plain
<1>3. /\ UNCHANGED <<store, ticker, choosing, overlap>> /\ rows' = rows
      /\ overlap \/ choosing \/ OfCoin(rows, ticker)
  BY RowsShown DEF Periodic, historyVars, TxInv
<1>4. OneHandler' /\ InFlight'
  BY <1>2, <1>3, HandlerLeaves DEF TxInv
<1> QED
  BY <1>1, <1>4 DEF TxInv

(* An answer is stored: a handler at work, or this one alone.              *)
LEMMA KeepTx ==
  ASSUME TxInv, NEW i \in Slots, flight[i].pc \in {"sent", "proxy"},
         NEW k, k = Key(flight[i].coin), Keep(i, k)
  PROVE  TxInv'
<1> DEFINE f == flight[i]
           g == [f EXCEPT !.pc = "stored"]
<1>1. Fetched(f) /\ f.pc \notin {"idle", "read"} /\ ~AtWork(f)
  BY DEF TxInv, InFlight, AtWork
<1>2. f.coin \in Coins /\ Listed(f.txs, f.coin)
  BY <1>1, FetchedParts
<1>3. k \in Keys
  BY <1>2, KeyIn
<1>4. flight' = [flight EXCEPT ![i] = g]
  BY DEF Keep, Goto
<1> HIDE DEF f
<1>5. Fetched(g) /\ g.pc = "stored" /\ g.coin = f.coin /\ g.txs = f.txs
  BY <1>1, StageFetched DEF Pcs
<1> HIDE DEF g
<1>6. InFlight' /\ flight'[i] = g /\ \A j \in Slots \ {i} : flight'[j] = flight[j]
  BY <1>4, <1>5, SlotFetched DEF TxInv
<1>7. store' = [store EXCEPT ![k] = f.txs]
  BY DEF Keep, f
<1>8. Stored' /\ store'[k] = f.txs
  <2>1. store' = [l \in Keys |-> store'[l]] /\ store'[k] = f.txs
        /\ \A l \in Keys : l # k => store'[l] = store[l]
    BY <1>3, <1>7 DEF TxInv, Stored
  <2>2. \A l \in Keys : \E c \in Coins : Listed(store'[l], c)
    BY <1>2, <2>1 DEF TxInv, Stored
  <2> QED
    BY <2>1, <2>2 DEF Stored
<1>9. Plain' /\ Histories' /\ RowsOnce'
  BY DEF TxInv, Plain, Histories, RowsOnce, Keep, daemonVars, Handling
<1>10. OneHandler'
  <2> SUFFICES ASSUME ~overlap' PROVE OneHandler'
    BY DEF OneHandler
  <2>1. ~overlap /\ \A j \in Slots : ~AtWork(flight[j])
    BY DEF Keep, Handling, AtWork
  <2>2. UNCHANGED <<ticker, choosing, rows>>
    BY DEF Keep
  <2>3. choosing' \/ OfCoin(rows', ticker')
    BY <2>1, <2>2, RowsShown DEF TxInv
  <2>4. \A j \in Slots : AtWork(flight'[j]) => j = i
    BY <1>6, <2>1
  <2>5. OfCoin(f.txs, f.coin)
    BY <1>2 DEF OfCoin, Listed
  <2>6. Relies(g, store', ticker')
    BY <1>5, <1>8, <2>5 DEF Relies, f
  <2>7. \A j \in Slots : Relies(flight'[j], store', ticker')
    <3>1. \A j \in Slots : ~AtWork(flight'[j]) => Relies(flight'[j], store', ticker')
      BY DEF AtWork, Relies
    <3> QED
      BY <1>6, <2>4, <2>6, <3>1
  <2> QED
    BY <2>3, <2>4, <2>7 DEF OneHandler
<1> QED
  BY <1>6, <1>8, <1>9, <1>10 DEF TxInv

LEMMA AskProxyTx ==
  ASSUME TxInv, NEW i \in Slots, AskProxy(i)
  PROVE  TxInv'
<1> DEFINE f == flight[i]
           g == [f EXCEPT !.pc = "proxy"]
<1>1. Fetched(f) /\ f.pc \notin {"idle", "read"} /\ f.coin \in Tokens
  BY DEF TxInv, InFlight, AskProxy, Flying
<1>2. flight' = [flight EXCEPT ![i] = g]
  BY DEF AskProxy, Goto
<1> HIDE DEF f
<1>3. Fetched(g) /\ g.pc = "proxy"
  BY <1>1, StageFetched DEF Pcs
<1> HIDE DEF g
<1>4. ~AtWork(g)
  BY <1>3 DEF AtWork
<1>5. /\ UNCHANGED <<store, ticker, choosing, overlap>> /\ rows' = rows
      /\ overlap \/ choosing \/ OfCoin(rows, ticker)
  BY RowsShown DEF AskProxy, historyVars, TxInv
<1>6. OneHandler' /\ InFlight'
  BY <1>2, <1>3, <1>4, <1>5, HandlerLeaves DEF TxInv
<1>7. Plain' /\ Histories' /\ Stored' /\ RowsOnce'
  BY DEF TxInv, Plain, Histories, Stored, RowsOnce, AskProxy, daemonVars, historyVars
<1> QED
  BY <1>6, <1>7 DEF TxInv

(* A fetch that ends with the rows as they are, or cleared.                *)
LEMMA EndsTx ==
  ASSUME TxInv, NEW i \in Slots, flight' = [flight EXCEPT ![i] = Idle],
         rows' = rows \/ rows' = <<>>, busy' \in BOOLEAN, faults' \in 0 .. MaxFaults,
         UNCHANGED <<ticker, choosing, store, daemonVars, blank, overlap, behind, choices>>
  PROVE  TxInv'
<1>1. /\ UNCHANGED <<store, ticker, choosing, overlap>>
      /\ overlap \/ choosing \/ OfCoin(rows', ticker)
  BY RowsShown, NoRows DEF TxInv
<1>2. OneHandler' /\ InFlight'
  BY <1>1, HandlerLeaves, IdleFetched DEF TxInv
<1>3. Plain' /\ Histories' /\ Stored'
  BY DEF TxInv, Plain, Histories, Stored, daemonVars
<1>4. RowsOnce'
  BY NoRows DEF TxInv, RowsOnce
<1> QED
  BY <1>2, <1>3, <1>4 DEF TxInv

LEMMA RefusedTx ==
  ASSUME TxInv, NEW i \in Slots, Refused(i)
  PROVE  TxInv'
<1>1. faults' \in 0 .. MaxFaults
  BY Bounds DEF Refused, TxInv, Plain
<1> QED
  BY <1>1, EndsTx DEF Refused, Finish

LEMMA LostTx ==
  ASSUME TxInv, NEW i \in Slots, Lost(i)
  PROVE  TxInv'
<1>1. faults' \in 0 .. MaxFaults /\ busy' \in BOOLEAN
  BY Bounds DEF Lost, TxInv, Plain
<1> QED
  BY <1>1, EndsTx DEF Lost

LEMMA EmptyAnsweredTx ==
  ASSUME TxInv, NEW i \in Slots, EmptyAnswered(i)
  PROVE  TxInv'
<1>1. faults' \in 0 .. MaxFaults /\ busy' \in BOOLEAN
  BY DEF EmptyAnswered, historyVars, TxInv, Plain
<1> QED
  BY <1>1, EndsTx DEF EmptyAnswered, historyVars

LEMMA CheckTx ==
  ASSUME TxInv, NEW i \in Slots, Check(i)
  PROVE  TxInv'
<1>1. CASE flight[i].coin = ticker /\ Goto(i, "checked") /\ UNCHANGED <<rows, busy>>
  <2> DEFINE f == flight[i]
             g == [f EXCEPT !.pc = "checked"]
  <2>1. Fetched(f) /\ f.pc = "stored" /\ f.coin = ticker
    BY <1>1 DEF TxInv, InFlight, Check, Flying
  <2>2. flight' = [flight EXCEPT ![i] = g]
    BY <1>1 DEF Goto
  <2>3. overlap \/ Relies(f, store, ticker)
    BY DEF TxInv, OneHandler
  <2>4. AtWork(flight[i])
    BY <2>1 DEF AtWork
  <2> HIDE DEF f
  <2>5. Fetched(g) /\ g.pc = "checked" /\ g.coin = f.coin
    BY <2>1, StageFetched DEF Pcs
  <2> HIDE DEF g
  <2>6. overlap \/ Relies(g, store, ticker)
    BY <2>1, <2>3, <2>5 DEF Relies
  <2>7. UNCHANGED <<store, rows, ticker, choosing, overlap>>
    BY <1>1 DEF Check, historyVars
  <2>8. OneHandler' /\ InFlight'
    BY <2>2, <2>4, <2>5, <2>6, <2>7, HandlerGoesOn DEF TxInv
  <2>9. Plain' /\ Histories' /\ Stored' /\ RowsOnce'
    BY <1>1 DEF TxInv, Plain, Histories, Stored, RowsOnce, Check, daemonVars, historyVars
  <2> QED
    BY <2>8, <2>9 DEF TxInv
<1>2. CASE Finish(i)
  <2>1. faults' \in 0 .. MaxFaults
    BY DEF Check, historyVars, TxInv, Plain
  <2> QED
    BY <1>2, <2>1, EndsTx DEF Check, Finish, historyVars
<1> QED
  BY <1>1, <1>2 DEF Check

LEMMA ReadTx ==
  ASSUME TxInv, NEW i \in Slots, Read(i)
  PROVE  TxInv'
<1> DEFINE t == store[Key(ticker)]
           f == flight[i]
           g == [f EXCEPT !.pc = "read", !.txs = t]
<1>1. Fetched(f) /\ f.pc = "checked"
  BY DEF TxInv, InFlight, Read, Flying
<1>2. /\ f.pc \in Pcs /\ f.coin \in Coins
      /\ f = [pc |-> f.pc, coin |-> f.coin, txs |-> f.txs]
  BY <1>1, FetchedParts
<1>3. overlap \/ Relies(f, store, ticker)
  BY DEF TxInv, OneHandler
<1>4. AtWork(flight[i])
  BY <1>1 DEF AtWork
<1>5. flight' = [flight EXCEPT ![i] = g]
  BY DEF Read
<1>6. \E c \in Coins : Listed(t, c)
  BY KeyIn DEF TxInv, Plain, Stored
<1>7. overlap \/ OfCoin(t, ticker)
  BY <1>1, <1>3 DEF Relies
<1> HIDE DEF f, t
<1>8. g = [pc |-> "read", coin |-> f.coin, txs |-> t]
  <2> DEFINE h == [f EXCEPT !.pc = "read"]
  <2>1. g = [h EXCEPT !.txs = t]
    OBVIOUS
  <2>2. h = [pc |-> "read", coin |-> f.coin, txs |-> f.txs]
    BY <1>2
  <2> HIDE DEF g, h
  <2> QED
    BY <2>1, <2>2
<1> HIDE DEF g
<1>9. g.pc = "read" /\ g.coin = f.coin /\ g.txs = t
  BY <1>8
<1>10. g \in Fetches
  BY <1>2, <1>6, <1>8 DEF Fetches, Pcs, Listed
<1>11. Fetched(g)
  BY <1>6, <1>9, <1>10 DEF Fetched
<1>12. overlap \/ Relies(g, store, ticker)
  BY <1>7, <1>9 DEF Relies
<1>13. UNCHANGED <<store, rows, ticker, choosing, overlap>>
  BY DEF Read, historyVars
<1>14. OneHandler' /\ InFlight'
  BY <1>4, <1>5, <1>11, <1>12, <1>13, HandlerGoesOn DEF TxInv
<1>15. Plain' /\ Histories' /\ Stored' /\ RowsOnce'
  BY DEF TxInv, Plain, Histories, Stored, RowsOnce, Read, daemonVars, historyVars
<1> QED
  BY <1>14, <1>15 DEF TxInv

LEMMA InsertTx ==
  ASSUME TxInv, NEW i \in Slots, Insert(i)
  PROVE  TxInv'
<1> DEFINE txs == flight[i].txs
<1>1. Fetched(flight[i]) /\ flight[i].pc = "read"
  BY DEF TxInv, InFlight, Insert, Flying
<1>2. PICK c \in Coins : Listed(txs, c)
  BY <1>1, FetchedParts
<1>3. overlap \/ OfCoin(txs, ticker)
  <2>1. overlap \/ Relies(flight[i], store, ticker)
    BY DEF TxInv, OneHandler
  <2> QED
    BY <1>1, <2>1 DEF Relies
<1>4. rows' = IF rows = <<>> THEN txs ELSE UpdateOrInsert(rows, txs)
  BY DEF Insert
<1>5. behind' = (behind \/ (rows # <<>> /\ Behind(rows, txs)))
  BY DEF Insert, Behind
<1>6. flight' = [flight EXCEPT ![i] = Idle]
  BY DEF Insert
<1>7. rows \in Seq(Txs) /\ (Distinct(rows) \/ behind)
  BY DEF TxInv, RowsOnce
<1> HIDE DEF txs
<1>8. RowsOnce' /\ (overlap \/ choosing \/ OfCoin(rows', ticker))
  <2>1. overlap \/ choosing \/ OfCoin(rows, ticker)
    BY RowsShown DEF TxInv
  <2>2. CASE rows = <<>>
    <3>1. rows' = txs
      BY <1>4, <2>2
    <3>2. rows' \in Seq(Txs) /\ Distinct(rows')
      BY <1>2, <3>1 DEF Listed, Distinct, Same
    <3> QED
      BY <1>3, <3>1, <3>2 DEF RowsOnce
  <2>3. CASE rows # <<>>
    <3>1. rows' = UpdateOrInsert(rows, txs)
      BY <1>4, <2>3
    <3>2. rows' \in Seq(Txs) /\ (Distinct(rows) /\ ~Behind(rows, txs) => Distinct(rows'))
      BY <1>2, <1>7, <3>1, InsertedRows
    <3>3. OfCoin(rows, ticker) /\ OfCoin(txs, ticker) => OfCoin(rows', ticker)
      BY <1>2, <1>7, <3>1, InsertedRows
    <3>4. Distinct(rows') \/ behind'
      BY <1>5, <1>7, <2>3, <3>2
    <3> QED
      BY <1>3, <2>1, <3>2, <3>3, <3>4 DEF RowsOnce
  <2> QED
    BY <2>2, <2>3
<1>9. OneHandler' /\ InFlight'
  <2>1. UNCHANGED <<store, ticker, choosing, overlap>>
    BY DEF Insert
  <2> QED
    BY <1>6, <1>8, <2>1, HandlerLeaves, IdleFetched DEF TxInv
<1>10. Plain' /\ Histories' /\ Stored'
  BY <1>5 DEF TxInv, Plain, Histories, Stored, Insert, daemonVars
<1> QED
  BY <1>8, <1>9, <1>10 DEF TxInv

-----------------------------------------------------------------------------
(* New transactions, and the end of a scan.                                *)
LEMMA HistoriesTx ==
  ASSUME TxInv, Histories', scanning' \subseteq Coins, news' \in 0 .. MaxNew,
         UNCHANGED <<ticker, choosing, store, flight, rows, busy, blank, overlap, behind, choices, faults>>
  PROVE  TxInv'
<1>1. Plain' /\ InFlight' /\ Stored' /\ RowsOnce'
  BY DEF TxInv, Plain, InFlight, Stored, RowsOnce
<1>2. OneHandler'
  BY DEF TxInv, OneHandler
<1> QED
  BY <1>1, <1>2 DEF TxInv

(* The history of one coin changes.                                        *)
LEMMA OneHistory ==
  ASSUME Histories, NEW c \in Coins, NEW txs, Listed(txs, c), hist' = [hist EXCEPT ![c] = txs]
  PROVE  Histories'
<1>1. /\ hist' = [k \in Coins |-> hist'[k]] /\ hist'[c] = txs
      /\ \A k \in Coins : k # c => hist'[k] = hist[k]
  BY DEF Histories
<1>2. \A k \in Coins : Listed(hist'[k], k)
  BY <1>1 DEF Histories
<1> QED
  BY <1>1, <1>2 DEF Histories

LEMMA NewTxTx ==
  ASSUME TxInv, NEW c \in Coins, NewTx(c)
  PROVE  TxInv'
<1> DEFINE old == hist[c]
<1>1. Listed(old, c) /\ Len(old) + 1 \in Ids /\ Histories
  BY DEF TxInv, Histories, NewTx
<1>2. /\ news < MaxNew /\ news' = news + 1 /\ scanning' = scanning
      /\ UNCHANGED <<ticker, choosing, store, flight, rows, busy, blank, overlap, behind, choices, faults>>
  BY DEF NewTx, historyVars
<1>3. \/ hist' = [hist EXCEPT ![c] = <<[coin |-> c, id |-> Len(old) + 1, unconfirmed |-> TRUE]>> \o old]
      \/ hist' = [hist EXCEPT ![c] = Unconfirmed(old) \o <<[coin |-> c, id |-> Len(old) + 1, unconfirmed |-> FALSE]>>
                                      \o Confirmed(old)]
  BY DEF NewTx
<1> HIDE DEF old
<1>4. Histories'
  <2> DEFINE one == <<[coin |-> c, id |-> Len(old) + 1, unconfirmed |-> TRUE]>> \o old
             two == Unconfirmed(old) \o <<[coin |-> c, id |-> Len(old) + 1, unconfirmed |-> FALSE]>>
                      \o Confirmed(old)
  <2>1. Listed(one, c) /\ Listed(two, c)
    BY <1>1, PendingListed, ConfirmedListed
  <2>2. hist' = [hist EXCEPT ![c] = one] \/ hist' = [hist EXCEPT ![c] = two]
    BY <1>3
  <2> HIDE DEF one, two
  <2> QED
    BY <1>1, <2>1, <2>2, OneHistory
<1>5. news' \in 0 .. MaxNew /\ scanning' \subseteq Coins
  BY <1>2, Bounds DEF TxInv, Plain
<1> QED
  BY <1>2, <1>4, <1>5, HistoriesTx

LEMMA ConfirmTx ==
  ASSUME TxInv, NEW c \in Coins, Confirm(c)
  PROVE  TxInv'
<1> DEFINE old == hist[c]
           k == Len(Unconfirmed(old))
           t == [old[k] EXCEPT !.unconfirmed = FALSE]
           W == [old EXCEPT ![k] = t]
<1>1. Listed(old, c) /\ Histories /\ Unconfirmed(old) # <<>>
  BY DEF TxInv, Histories, Confirm
<1>2. hist' = [hist EXCEPT ![c] = W]
  <2>1. hist' = [hist EXCEPT ![c][k].unconfirmed = FALSE]
    BY DEF Confirm
  <2>2. [hist EXCEPT ![c][k].unconfirmed = FALSE] = [hist EXCEPT ![c] = W]
    OBVIOUS
  <2> QED
    BY <2>1, <2>2
<1> HIDE DEF old
<1>3. Listed(W, c)
  BY <1>1, OldestConfirmedListed
<1> HIDE DEF W
<1>4. Histories'
  BY <1>1, <1>2, <1>3, OneHistory
<1>5. /\ scanning' = scanning /\ news' = news
      /\ UNCHANGED <<ticker, choosing, store, flight, rows, busy, blank, overlap, behind, choices, faults>>
  BY DEF Confirm, historyVars
<1>6. news' \in 0 .. MaxNew /\ scanning' \subseteq Coins
  BY <1>5 DEF TxInv, Plain
<1> QED
  BY <1>4, <1>5, <1>6, HistoriesTx

LEMMA ScanEndsTx ==
  ASSUME TxInv, NEW c \in Coins, ScanEnds(c)
  PROVE  TxInv'
<1>1. Histories'
  BY DEF TxInv, Histories, ScanEnds
<1>2. /\ scanning' = scanning \ {c} /\ news' = news
      /\ UNCHANGED <<ticker, choosing, store, flight, rows, busy, blank, overlap, behind, choices, faults>>
  BY DEF ScanEnds, historyVars
<1>3. news' \in 0 .. MaxNew /\ scanning' \subseteq Coins
  BY <1>2 DEF TxInv, Plain
<1> QED
  BY <1>1, <1>2, <1>3, HistoriesTx

LEMMA FetchStepTx ==
  ASSUME TxInv, NEW i \in Slots, FetchStep(i)
  PROVE  TxInv'
<1> DEFINE f == flight[i]
<1>1. f.pc # "idle" => Fetched(f) /\ (f.pc = "proxy" => f.coin \in Tokens)
  <2>1. Fetched(f)
    BY DEF TxInv, InFlight
  <2> HIDE DEF f
  <2> QED
    BY <2>1, FetchedParts
<1>2. CASE DaemonAnswers(i)
  <2>1. f.pc = "sent" /\ "result" = Key(f.coin) /\ Keep(i, "result")
    BY <1>2 DEF DaemonAnswers, Flying, Key
  <2> QED
    BY <2>1, KeepTx
<1>3. CASE ProxyAnswers(i)
  <2>1. f.pc = "proxy" /\ f.coin = Key(f.coin) /\ Keep(i, f.coin)
    BY <1>1, <1>3 DEF ProxyAnswers, Flying, Key
  <2> QED
    BY <2>1, KeepTx
<1> QED
  BY <1>2, <1>3, AskProxyTx, EmptyAnsweredTx, RefusedTx, LostTx, CheckTx, ReadTx, InsertTx DEF FetchStep

LEMMA RowsStepCorrect == TxInv /\ [Next]_vars => TxInv'
<1> SUFFICES ASSUME TxInv, [Next]_vars PROVE TxInv'
  OBVIOUS
<1>1. CASE UNCHANGED vars
  BY <1>1 DEF vars, TxInv, Plain, InFlight, Histories, Stored, RowsOnce, OneHandler
<1>2. CASE \E c \in Coins : Choose(c) \/ NewTx(c) \/ Confirm(c) \/ ScanEnds(c)
  BY <1>2, ChooseTx, NewTxTx, ConfirmTx, ScanEndsTx
<1>3. CASE \E i \in Slots : Show(i) \/ Periodic(i) \/ FetchStep(i)
  BY <1>3, ShowTx, PeriodicTx, FetchStepTx
<1> QED
  BY <1>1, <1>2, <1>3 DEF Next

LEMMA RowsInitCorrect == Init => TxInv
<1> SUFFICES ASSUME Init PROVE TxInv
  OBVIOUS
<1>1. Plain
  <2>1. choices \in 0 .. MaxChoices /\ faults \in 0 .. MaxFaults /\ news \in 0 .. MaxNew
    BY Bounds DEF Init
  <2>2. scanning \subseteq Coins
    BY DEF Init
  <2> QED
    BY <2>1, <2>2 DEF Init, Plain
<1>2. InFlight
  BY IdleFetched DEF Init, InFlight
<1>3. Histories
  BY NothingListed DEF Init, Histories
<1>4. Stored
  <2>1. \A k \in Keys : store[k] = <<>>
    BY DEF Init
  <2> QED
    BY <2>1, NothingListed DEF Init, Stored
<1>5. RowsOnce
  BY NoRows DEF Init, RowsOnce
<1>6. OneHandler
  <2>1. \A i \in Slots : flight[i] = Idle
    BY DEF Init
  <2> QED
    BY <2>1, IdleFetched, NoRows DEF Init, OneHandler
<1> QED
  BY <1>1, <1>2, <1>3, <1>4, <1>5, <1>6 DEF TxInv

(* Types; the proxy is asked for tokens only.                              *)
THEOREM TypeCorrect == Spec => []TypeOK
<1>1. TxInv => TypeOK
  <2> SUFFICES ASSUME TxInv PROVE TypeOK
    OBVIOUS
  <2>1. store \in [Keys -> Seq(Txs)]
    BY DEF TxInv, Stored, Listed
  <2>2. hist \in [Coins -> Seq(Txs)]
    BY DEF TxInv, Histories, Listed
  <2>3. \A i \in Slots : \/ flight[i] = Idle
                         \/ flight[i] \in Fetches /\ (Flying(i, "proxy") => flight[i].coin \in Tokens)
    BY DEF TxInv, InFlight, Fetched, Flying
  <2> QED
    BY <2>1, <2>2, <2>3 DEF TxInv, Plain, RowsOnce, TypeOK
<1> QED
  BY <1>1, RowsInitCorrect, RowsStepCorrect, PTL DEF Spec

(* The rows are transactions of the coin shown, unless two handlers, or a  *)
(* handler and a choice of coin, were at work at the same time.            *)
THEOREM RowsOfTickerCorrect == Spec => []RowsOfTicker
<1>1. TxInv => RowsOfTicker
  <2> SUFFICES ASSUME TxInv, ~choosing, ~overlap PROVE \A t \in ToSet(rows) : t.coin = ticker
    BY DEF RowsOfTicker
  <2>1. OfCoin(rows, ticker)
    BY DEF TxInv, OneHandler
  <2> QED
    BY <2>1 DEF OfCoin, ToSet
<1> QED
  BY <1>1, RowsInitCorrect, RowsStepCorrect, PTL DEF Spec

(* No transaction has two rows, whatever the handlers do at the same time, *)
(* unless a confirmed one came along after one that was listed.            *)
THEOREM NoTxTwiceCorrect == Spec => []NoTxTwice
<1>1. TxInv => NoTxTwice
  BY DEF TxInv, RowsOnce, Distinct, NoTxTwice
<1> QED
  BY <1>1, RowsInitCorrect, RowsStepCorrect, PTL DEF Spec
=============================================================================
