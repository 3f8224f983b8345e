------------------------ MODULE OrderbookSyncProofs ------------------------
(***************************************************************************)
(* Proofs about OrderbookSync for every set of pairs and every bound: the  *)
(* types, the agreement of the service's pair with the selectors, the      *)
(* refinement of OrderbookView (its safety part) and the number of extras  *)
(* batches.  Fairness, and with it View!Spec, is left to TLC.              *)
(***************************************************************************)
EXTENDS OrderbookSync, FiniteSetTheorems, TLAPS

(* What the inductive steps share: requests move within their type.        *)
LEMMA SendType ==
  ASSUME TypeOK, NEW pair \in Pairs, NEW reset \in BOOLEAN, Send(pair, reset)
  PROVE  requests' \in [Slots -> Requests]
BY DEF Send, TypeOK, Requests

(* A request that moves on stays a request.                                *)
LEMMA GoType ==
  ASSUME TypeOK, NEW i \in Slots,
         NEW stage \in {"free", "sent", "extras", "store", "push"}, Go(i, stage)
  PROVE  requests' \in [Slots -> Requests]
BY DEF Go, TypeOK, Requests

(* The free request is a request.                                          *)
LEMMA FreeType == Free \in Requests
BY DEF Free, Requests

(* A refresh of the pair keeps the types it touches.                       *)
LEMMA RefreshType ==
  ASSUME TypeOK, NEW pair \in Pairs, RefreshData(pair)
  PROVE  /\ synced' \in Pairs
         /\ requests' \in [Slots -> Requests]
         /\ resets' \in 0 .. MaxResets
         /\ extrasTotal' \in Nat
<1>1. synced' \in Pairs
  BY DEF RefreshData
<1>2. requests' \in [Slots -> Requests]
  <2>1. CASE running
    <3>1. Send(pair, pair # synced)
      BY <2>1 DEF RefreshData
    <3> QED
      BY <3>1, SendType
  <2>2. CASE ~running
    BY <2>2 DEF RefreshData, TypeOK
  <2> QED
    BY <2>1, <2>2
<1>3. resets' \in 0 .. MaxResets /\ extrasTotal' \in Nat
  BY PairsAssumption DEF RefreshData, CountReset, TypeOK
<1> QED
  BY <1>1, <1>2, <1>3

-----------------------------------------------------------------------------
(* The types are an inductive invariant of their own.                      *)
LEMMA TypeInit == Init => TypeOK
<1> SUFFICES ASSUME Init PROVE TypeOK
  OBVIOUS
<1>1. requests \in [Slots -> Requests]
  BY FreeType DEF Init
<1>2. synced \in Pairs
  BY PairsAssumption DEF Init
<1>3. 0 \in 0 .. MaxActions /\ 0 \in 0 .. MaxResets
  BY PairsAssumption
<1>4. mode \in Modes /\ running \in BOOLEAN /\ active \in BOOLEAN
  BY DEF Init
<1> QED
  BY <1>1, <1>2, <1>3, <1>4 DEF Init, TypeOK

(* Every step keeps the types.                                             *)
LEMMA TypeStep ==
  ASSUME TypeOK, [Next]_vars
  PROVE  TypeOK'
<1>1. CASE Start
  BY <1>1 DEF Start, TypeOK, pageVars, histVars
<1>2. CASE Logout
  <2>1. requests' \in [Slots -> Requests]
    BY <1>2, FreeType DEF Logout
  <2>2. synced' \in Pairs
    BY <1>2, PairsAssumption DEF Logout
  <2>3. 0 \in 0 .. MaxResets
    BY PairsAssumption
  <2>4. running' \in BOOLEAN /\ active' \in BOOLEAN
    BY <1>2 DEF Logout
  <2> QED
    BY <1>2, <2>1, <2>2, <2>3, <2>4 DEF Logout, TypeOK
<1>3. CASE Select
  <2>1. PICK p \in Pairs : SetCurrentOrderbook(p)
    BY <1>3 DEF Select
  <2>2. RefreshData(p) /\ selected' = p /\ shown' \in {shown, NoPair}
    BY <2>1 DEF SetCurrentOrderbook
  <2> QED
    BY <2>1, <2>2, RefreshType DEF SetCurrentOrderbook, TypeOK
<1>4. CASE Disable
  <2>1. PICK c : DisableCoin(c)
    BY <1>4 DEF Disable
  <2>2. PICK p \in Pairs : selected' = p /\ RefreshData(p)
    BY <2>1, PairsAssumption DEF DisableCoin, TypeOK
  <2> QED
    BY <2>1, <2>2, RefreshType DEF DisableCoin, TypeOK
<1>5. CASE SetTradingMode
  <2>1. CASE UNCHANGED <<synced, requests, histVars>>
    BY <1>5, <2>1 DEF SetTradingMode, TypeOK, histVars
  <2>2. CASE selected # NoPair /\ RefreshData(selected)
    <3>1. selected \in Pairs
      BY <2>2 DEF TypeOK
    <3> QED
      BY <1>5, <2>2, <3>1, RefreshType DEF SetTradingMode, TypeOK
  <2> QED
    BY <1>5, <2>1, <2>2 DEF SetTradingMode
<1>6. CASE EnterTrading \/ LeaveTrading
  BY <1>6 DEF EnterTrading, LeaveTrading, TypeOK, pageVars, histVars
<1>7. CASE FetchCurrentOrderbook \/ OrdersCancelled
  <2>1. requests' \in [Slots -> Requests]
    BY <1>7, SendType DEF FetchCurrentOrderbook, OrdersCancelled, TypeOK
  <2> QED
    BY <1>7, <2>1 DEF FetchCurrentOrderbook, OrdersCancelled, TypeOK, pageVars, histVars
<1>12. CASE OrdersRefreshed
  <2>1. requests' \in [Slots -> Requests]
    BY <1>12, SendType DEF OrdersRefreshed, TypeOK
  <2>2. resets' \in 0 .. MaxResets
    BY <1>12, PairsAssumption DEF OrdersRefreshed, CountReset, TypeOK
  <2> QED
    BY <1>12, <2>1, <2>2 DEF OrdersRefreshed, TypeOK, pageVars
<1>8. CASE ProcessAction
  BY <1>8, PairsAssumption DEF ProcessAction, TypeOK, histVars
<1>9. CASE ScannerFinished
  BY <1>9, PairsAssumption DEF ScannerFinished, TypeOK, histVars
<1>10. ASSUME NEW i \in Slots, AnswerOk(i) \/ AnswerFailed(i) \/ Callback(i)
       PROVE  TypeOK'
  <2>0. requests[i] \in Requests
    BY DEF TypeOK
  <2>1. CASE AnswerOk(i)
    <3>1. requests' \in [Slots -> Requests]
      BY <2>1, GoType DEF AnswerOk
    <3> QED
      BY <2>1, <3>1 DEF AnswerOk, TypeOK, pageVars, histVars
  <2>2. CASE AnswerFailed(i)
    <3>1. requests' \in [Slots -> Requests]
      BY <2>2, FreeType DEF AnswerFailed, TypeOK
    <3> QED
      BY <2>2, <3>1 DEF AnswerFailed, TypeOK, pageVars, histVars
  <2>3. CASE SendExtras(i)
    <3>1. requests' \in [Slots -> Requests]
      BY <2>3, GoType DEF SendExtras
    <3> QED
      BY <2>3, <3>1 DEF SendExtras, TypeOK, pageVars
  <2>4. CASE StoreBook(i)
    <3>1. requests' \in [Slots -> Requests]
      BY <2>4, GoType DEF StoreBook
    <3>2. book' \in Pairs \cup {NoPair}
      BY <2>0, <2>4 DEF StoreBook, Requests
    <3> QED
      BY <2>4, <3>1, <3>2 DEF StoreBook, TypeOK, pageVars, histVars
  <2>5. CASE PushAction(i)
    <3>1. requests' \in [Slots -> Requests]
      BY <2>5, FreeType DEF PushAction, TypeOK
    <3>2. actions' \in 0 .. MaxActions
      BY <2>5, PairsAssumption DEF PushAction, TypeOK
    <3> QED
      BY <2>5, <3>1, <3>2 DEF PushAction, TypeOK, histVars
  <2> QED
    BY <1>10, <2>1, <2>2, <2>3, <2>4, <2>5 DEF Callback
<1>11. CASE UNCHANGED vars
  BY <1>11 DEF vars, TypeOK
<1> QED
  BY <1>1, <1>2, <1>3, <1>4, <1>5, <1>6, <1>7, <1>8, <1>9, <1>10, <1>11, <1>12 DEF Next

-----------------------------------------------------------------------------
(* The service and the selectors.  A step that leaves the selectors and    *)
(* the service's pair alone must, while nothing is selected, only touch    *)
(* requests and books of the default pair, and keep the fetch inactive.    *)
SyncInv == TypeOK /\ ServiceFollowsSelectors

(* The strengthened invariant holds initially.                             *)
LEMMA SyncInit == Init => SyncInv
BY TypeInit DEF Init, SyncInv, ServiceFollowsSelectors

(* Every step keeps the strengthened invariant.                            *)
LEMMA SyncStep ==
  ASSUME SyncInv, [Next]_vars
  PROVE  SyncInv'
<1> SUFFICES ServiceFollowsSelectors'
  BY TypeStep DEF SyncInv
<1>a. ASSUME selected' \in Pairs, synced' = selected' PROVE ServiceFollowsSelectors'
  BY <1>a, PairsAssumption DEF ServiceFollowsSelectors
<1>b. ASSUME UNCHANGED <<selected, synced>>, selected = NoPair => ~active',
             selected = NoPair => book' \in {book, DefaultPair},
             selected = NoPair => \A i \in Slots :
               requests'[i] \in {requests[i], Free} \/ requests'[i].pair = DefaultPair
      PROVE  ServiceFollowsSelectors'
  BY <1>b DEF SyncInv, ServiceFollowsSelectors
<1>c. ASSUME UNCHANGED <<selected, synced, active, book, requests>>
      PROVE  ServiceFollowsSelectors'
  BY <1>c DEF SyncInv, ServiceFollowsSelectors
<1>d. ASSUME NEW reset \in BOOLEAN, Send(synced, reset), UNCHANGED <<selected, synced, active, book>>
      PROVE  ServiceFollowsSelectors'
  <2>1. \A i \in Slots : requests'[i] = requests[i] \/ requests'[i].pair = synced
    BY <1>d DEF Send, SyncInv, TypeOK
  <2>2. selected = NoPair => synced = DefaultPair /\ ~active
    BY DEF SyncInv, ServiceFollowsSelectors
  <2> QED
    BY <1>b, <1>d, <2>1, <2>2
<1>1. CASE Start \/ ProcessAction \/ ScannerFinished
  BY <1>1, <1>c DEF Start, ProcessAction, ScannerFinished, pageVars
<1>2. CASE Logout
  BY <1>2 DEF Logout, ServiceFollowsSelectors
<1>3. CASE Select
  <2>1. PICK p \in Pairs : SetCurrentOrderbook(p)
    BY <1>3 DEF Select
  <2> QED
    BY <2>1, <1>a DEF SetCurrentOrderbook, RefreshData
<1>4. CASE Disable
  <2>1. PICK c : DisableCoin(c)
    BY <1>4 DEF Disable
  <2>2. PICK p \in Pairs : selected' = p /\ RefreshData(p)
    BY <2>1, PairsAssumption DEF DisableCoin, SyncInv, TypeOK
  <2> QED
    BY <2>2, <1>a DEF RefreshData
<1>5. CASE SetTradingMode
  <2>1. CASE UNCHANGED <<synced, requests, histVars>>
    BY <1>5, <2>1, <1>c DEF SetTradingMode
  <2>2. CASE selected # NoPair /\ RefreshData(selected)
    <3>1. selected' \in Pairs /\ synced' = selected'
      BY <1>5, <2>2 DEF SetTradingMode, SyncInv, TypeOK, RefreshData
    <3> QED
      BY <3>1, <1>a
  <2> QED
    BY <1>5, <2>1, <2>2 DEF SetTradingMode
<1>6. CASE EnterTrading
  BY <1>6 DEF EnterTrading, pageVars, SyncInv, ServiceFollowsSelectors
<1>7. CASE LeaveTrading
  BY <1>7 DEF LeaveTrading, pageVars, SyncInv, ServiceFollowsSelectors
<1>8. CASE FetchCurrentOrderbook \/ OrdersRefreshed \/ OrdersCancelled
  BY <1>8, <1>d DEF FetchCurrentOrderbook, OrdersRefreshed, OrdersCancelled, pageVars
<1>9. ASSUME NEW i \in Slots, AnswerOk(i) \/ AnswerFailed(i) \/ Callback(i)
      PROVE  ServiceFollowsSelectors'
  <2>1. requests[i].stage # "free"
    BY <1>9 DEF AnswerOk, AnswerFailed, Callback, SendExtras, StoreBook, PushAction
  <2>2. requests[i] # Free
    BY <2>1 DEF Free
  <2>3. selected = NoPair => requests[i].pair = DefaultPair /\ ~active
    BY <2>2 DEF SyncInv, ServiceFollowsSelectors
  <2>4. UNCHANGED <<selected, synced, active>> /\ book' \in {book, requests[i].pair}
    BY <1>9 DEF AnswerOk, AnswerFailed, Callback, SendExtras, StoreBook, PushAction, pageVars
  <2>5. \A j \in Slots :
          requests'[j] \in {requests[j], Free} \/ (j = i /\ requests'[j].pair = requests[i].pair)
    BY <1>9 DEF AnswerOk, AnswerFailed, Callback, SendExtras, StoreBook, PushAction, Go,
      SyncInv, TypeOK
  <2> QED
    BY <2>3, <2>4, <2>5, <1>b
<1>10. CASE UNCHANGED vars
  BY <1>10, <1>c DEF vars
<1> QED
  BY <1>1, <1>2, <1>3, <1>4, <1>5, <1>6, <1>7, <1>8, <1>9, <1>10 DEF Next

(* The strengthened invariant holds in every reachable state.              *)
LEMMA SyncInvariant == Spec => []SyncInv
BY SyncInit, SyncStep, PTL DEF Spec

(* Every variable keeps its type, the queue and the history within their   *)
(* bounds.                                                                 *)
THEOREM TypeCorrect == Spec => []TypeOK
BY SyncInvariant, PTL DEF SyncInv

(* The service asks for the pair on the selectors, after every selection,  *)
(* disabled coin, change of mode and login, and for the default pair alone *)
(* while nothing is selected, whatever orders and answers come meanwhile.  *)
THEOREM FollowsCorrect == Spec => []ServiceFollowsSelectors
BY SyncInvariant, PTL DEF SyncInv

-----------------------------------------------------------------------------
(* Every step of the implementation is a step of the view, or none: only   *)
(* ProcessAction puts rows on screen, and the book it found has the left   *)
(* coin of the pair the service synchronised, which is the selected one,   *)
(* or the default pair while nothing is selected.                          *)
LEMMA ViewStep ==
  ASSUME SyncInv, SyncInv', [Next]_vars
  PROVE  [View!Next]_(View!vars)
<1>a. ASSUME shown' \in {shown, NoPair} PROVE [View!Next]_(View!vars)
  <2>1. selected' \in Pairs \cup {NoPair}
    BY DEF SyncInv, TypeOK
  <2>2. (running /\ active /\ selected # NoPair)' \in BOOLEAN
    OBVIOUS
  <2> QED
    BY <1>a, <2>1, <2>2 DEF View!Next, View!Change
<1>1. CASE ProcessAction
  <2>1. CASE running /\ GetOrderbook
    <3>0. View!Current = synced
      BY DEF View!Current, SyncInv, ServiceFollowsSelectors
    <3>1. shown' = book /\ book \in Pairs /\ book[1] = View!Current[1]
      BY <1>1, <2>1, <3>0 DEF ProcessAction, GetOrderbook, SyncInv, TypeOK
    <3>2. UNCHANGED <<selected, running, active>>
      BY <1>1 DEF ProcessAction
    <3> QED
      BY <3>1, <3>2 DEF View!Next, View!Show
  <2>2. CASE ~(running /\ GetOrderbook)
    BY <1>1, <2>2, <1>a DEF ProcessAction
  <2> QED
    BY <2>1, <2>2
<1>2. CASE ~ProcessAction
  <2>1. shown' \in {shown, NoPair}
    BY <1>2 DEF Next, Start, Logout, Select, SetCurrentOrderbook, Disable, DisableCoin,
      SetTradingMode, EnterTrading, LeaveTrading, FetchCurrentOrderbook, OrdersRefreshed,
      OrdersCancelled, ScannerFinished, AnswerOk, AnswerFailed, Callback, SendExtras, StoreBook, PushAction, vars, pageVars
  <2> QED
    BY <2>1, <1>a
<1> QED
  BY <1>1, <1>2

(* The rows put on screen have the left coin of the selected pair, or of   *)
(* the default pair before the first selection, whatever answers are late  *)
(* and whoever asked for them: OrderbookSync implements the safety of      *)
(* OrderbookView.                                                          *)
THEOREM ViewRefined == Spec => ViewSafe
<1>1. Init => View!Init
  BY DEF Init, View!Init
<1>2. SyncInv /\ SyncInv' /\ [Next]_vars => [View!Next]_(View!vars)
  BY ViewStep
<1> QED
  BY <1>1, <1>2, SyncInvariant, PTL DEF Spec, ViewSafe, View!SafeSpec

-----------------------------------------------------------------------------
(* The extras batches.  Each reset request still to send its batch owes at *)
(* most one, and each change of pair or of the orders pays for one.        *)
Owes(request) == request.stage = "extras" \/ (request.stage = "sent" /\ request.reset)

Owing == {i \in Slots : Owes(requests[i])}

ExtrasInv == TypeOK /\ extrasTotal + Cardinality(Owing) <= resets

(* The requests that owe an extras batch are finitely many.                *)
LEMMA OwingFinite == IsFiniteSet(Owing) /\ Cardinality(Owing) \in Nat
<1>1. IsFiniteSet(Slots)
  BY PairsAssumption, FS_Interval DEF Slots
<1>2. IsFiniteSet(Owing)
  BY <1>1, FS_Subset DEF Owing
<1> QED
  BY <1>2, FS_CardinalityType

(* They are finitely many after a step as well.                            *)
LEMMA OwingFinitePrime == IsFiniteSet(Owing') /\ Cardinality(Owing') \in Nat
<1>1. IsFiniteSet(Slots)
  BY PairsAssumption, FS_Interval DEF Slots
<1>2. IsFiniteSet(Owing')
  BY <1>1, FS_Subset DEF Owing
<1> QED
  BY <1>2, FS_CardinalityType

(* A request adds itself to the owing ones when it is a reset.             *)
LEMMA SendOwing ==
  ASSUME TypeOK, NEW pair \in Pairs, NEW reset \in BOOLEAN, Send(pair, reset)
  PROVE  /\ reset => Cardinality(Owing') <= Cardinality(Owing) + 1
         /\ ~reset => Cardinality(Owing') <= Cardinality(Owing)
<1>1. PICK i \in Slots :
        requests' = [requests EXCEPT ![i] = [stage |-> "sent", pair |-> pair, reset |-> reset]]
  BY DEF Send
<1>2. \A j \in Slots : j # i => requests'[j] = requests[j]
  BY <1>1 DEF TypeOK
<1>3. ~reset => ~Owes(requests'[i])
  BY <1>1 DEF TypeOK, Owes
<1>4. CASE reset
  <2>1. Owing' \subseteq Owing \cup {i}
    BY <1>2 DEF Owing
  <2>0. Cardinality(Owing) \in Nat
    BY OwingFinite
  <2>a. /\ IsFiniteSet(Owing \cup {i})
        /\ Cardinality(Owing \cup {i}) = IF i \in Owing THEN Cardinality(Owing)
                                          ELSE Cardinality(Owing) + 1
    BY OwingFinite, FS_AddElement
  <2>2. /\ IsFiniteSet(Owing \cup {i})
        /\ Cardinality(Owing \cup {i}) <= Cardinality(Owing) + 1
    BY <2>0, <2>a
  <2>3. Cardinality(Owing') <= Cardinality(Owing \cup {i})
    BY <2>1, <2>2, FS_Subset
  <2>4. Cardinality(Owing \cup {i}) \in Nat
    BY <2>2, FS_CardinalityType
  <2> QED
    BY <1>4, <2>2, <2>3, <2>4, OwingFinite, OwingFinitePrime
<1>5. CASE ~reset
  <2>1. Owing' \subseteq Owing
    BY <1>2, <1>3, <1>5 DEF Owing
  <2> QED
    BY <1>5, <2>1, OwingFinite, FS_Subset
<1> QED
  BY <1>4, <1>5

(* A change of pair raises the count of resets by what it makes owing.     *)
LEMMA RefreshOwing ==
  ASSUME ExtrasInv, NEW pair \in Pairs, RefreshData(pair)
  PROVE  extrasTotal' + Cardinality(Owing') <= resets'
<1> DEFINE reset == pair # synced
<1> USE OwingFinite, OwingFinitePrime DEF ExtrasInv
<1>1. extrasTotal \in Nat /\ resets \in Nat /\ extrasTotal' = extrasTotal
  BY PairsAssumption DEF RefreshData, TypeOK
<1>2. resets' = IF reset THEN resets + 1 ELSE resets
  BY DEF RefreshData, CountReset
<1>3. CASE running
  <2>1. Send(pair, reset)
    BY <1>3 DEF RefreshData
  <2> HIDE DEF reset
  <2>2. reset \in BOOLEAN
    BY DEF reset
  <2>3. /\ reset => Cardinality(Owing') <= Cardinality(Owing) + 1
        /\ ~reset => Cardinality(Owing') <= Cardinality(Owing)
    BY <2>1, <2>2, SendOwing
  <2> QED
    BY <1>1, <1>2, <2>3
<1>4. CASE ~running
  <2>1. Owing' = Owing
    BY <1>4 DEF RefreshData, Owing
  <2> QED
    BY <1>1, <1>2, <2>1
<1> QED
  BY <1>3, <1>4

(* Every step keeps extras sent and owed within the resets.                *)
LEMMA ExtrasStep ==
  ASSUME ExtrasInv, [Next]_vars
  PROVE  ExtrasInv'
<1> USE OwingFinite, OwingFinitePrime
<1> SUFFICES extrasTotal' + Cardinality(Owing') <= resets'
  BY TypeStep DEF ExtrasInv
<1>0. extrasTotal \in Nat /\ resets \in Nat /\ TypeOK
  BY PairsAssumption DEF ExtrasInv, TypeOK
<1>a. ASSUME Owing' \subseteq Owing, UNCHANGED <<resets, extrasTotal>>
      PROVE  extrasTotal' + Cardinality(Owing') <= resets'
  <2>1. Cardinality(Owing') <= Cardinality(Owing)
    BY <1>a, FS_Subset
  <2> QED
    BY <1>0, <1>a, <2>1 DEF ExtrasInv
<1>1. CASE UNCHANGED <<requests, resets, extrasTotal>>
  BY <1>1, <1>a DEF Owing
<1>2. CASE Logout
  <2>1. Owing' = {}
    BY <1>2 DEF Logout, Owing, Owes, Free
  <2>2. Cardinality(Owing') = 0
    BY <2>1, FS_EmptySet
  <2> QED
    BY <1>2, <2>2 DEF Logout
<1>3. CASE Select
  BY <1>3, RefreshOwing DEF Select, SetCurrentOrderbook
<1>4. CASE Disable
  <2>1. PICK c : DisableCoin(c)
    BY <1>4 DEF Disable
  <2>2. PICK p \in Pairs : RefreshData(p)
    BY <2>1, <1>0, PairsAssumption DEF DisableCoin, TypeOK
  <2> QED
    BY <2>2, RefreshOwing
<1>5. CASE SetTradingMode
  <2>1. CASE UNCHANGED <<synced, requests, histVars>>
    BY <2>1, <1>1 DEF histVars
  <2>2. CASE selected # NoPair /\ RefreshData(selected)
    BY <1>0, <2>2, RefreshOwing DEF TypeOK
  <2> QED
    BY <1>5, <2>1, <2>2 DEF SetTradingMode
<1>6. CASE FetchCurrentOrderbook \/ OrdersCancelled
  <2>1. Cardinality(Owing') <= Cardinality(Owing)
    BY <1>0, <1>6, SendOwing DEF FetchCurrentOrderbook, OrdersCancelled, TypeOK
  <2>2. UNCHANGED <<resets, extrasTotal>>
    BY <1>6 DEF FetchCurrentOrderbook, OrdersCancelled, histVars
  <2> QED
    BY <1>0, <2>1, <2>2 DEF ExtrasInv
<1>9. CASE OrdersRefreshed
  <2>1. Cardinality(Owing') <= Cardinality(Owing) + 1
    BY <1>0, <1>9, SendOwing DEF OrdersRefreshed, TypeOK
  <2>2. resets' = resets + 1 /\ extrasTotal' = extrasTotal
    BY <1>9 DEF OrdersRefreshed, CountReset
  <2> QED
    BY <1>0, <2>1, <2>2 DEF ExtrasInv
<1>7. ASSUME NEW i \in Slots, AnswerOk(i) \/ AnswerFailed(i) \/ Callback(i)
      PROVE  extrasTotal' + Cardinality(Owing') <= resets'
  <2>1. CASE SendExtras(i)
    <3>1. requests' = [requests EXCEPT ![i] =
            [stage |-> "store", pair |-> requests[i].pair, reset |-> requests[i].reset]]
      BY <2>1 DEF SendExtras, Go
    <3>2. Owing' \subseteq Owing \ {i}
      BY <1>0, <3>1 DEF Owing, Owes, TypeOK
    <3>3. i \in Owing
      BY <2>1 DEF SendExtras, Owing, Owes
    <3>4. /\ IsFiniteSet(Owing \ {i})
          /\ Cardinality(Owing \ {i}) = Cardinality(Owing) - 1
      BY <3>3, FS_RemoveElement
    <3>5. Cardinality(Owing') <= Cardinality(Owing) - 1
      BY <3>2, <3>4, FS_Subset
    <3> QED
      BY <1>0, <2>1, <3>5 DEF SendExtras, ExtrasInv
  <2>2. CASE AnswerOk(i) \/ AnswerFailed(i) \/ StoreBook(i) \/ PushAction(i)
    <3>1. PICK r :
            /\ requests' = [requests EXCEPT ![i] = r]
            /\ Owes(r) => i \in Owing
      BY <1>0, <2>2 DEF AnswerOk, AnswerFailed, StoreBook, PushAction, Go, Free, Owing, Owes
    <3>2. Owing' \subseteq Owing
      BY <1>0, <3>1 DEF Owing, Owes, TypeOK
    <3> QED
      BY <2>2, <3>2, <1>a DEF AnswerOk, AnswerFailed, StoreBook, PushAction, histVars
  <2> QED
    BY <1>7, <2>1, <2>2 DEF Callback
<1>8. CASE Start \/ EnterTrading \/ LeaveTrading \/ ProcessAction \/ ScannerFinished
           \/ UNCHANGED vars
  BY <1>8, <1>1 DEF Start, EnterTrading, LeaveTrading, ProcessAction, ScannerFinished,
    vars, histVars
<1> QED
  BY <1>2, <1>3, <1>4, <1>5, <1>6, <1>7, <1>8, <1>9 DEF Next

(* Nothing is sent or owed initially.                                      *)
LEMMA ExtrasInit == Init => ExtrasInv
<1> SUFFICES ASSUME Init PROVE ExtrasInv
  OBVIOUS
<1>1. Owing = {}
  BY DEF Init, Owing, Owes, Free
<1>2. Cardinality(Owing) = 0
  BY <1>1, FS_EmptySet
<1> QED
  BY <1>2, TypeInit DEF Init, ExtrasInv

(* However answers, changes of pair, orders and failures interleave, the   *)
(* service sends no more extras batches than there were changes of pair    *)
(* and of the orders.                                                      *)
THEOREM ExtrasBounded == Spec => []ExtrasPerReset
<1>1. ExtrasInv => ExtrasPerReset
  BY OwingFinite, PairsAssumption DEF ExtrasInv, ExtrasPerReset, TypeOK
<1> QED
  BY <1>1, ExtrasInit, ExtrasStep, PTL DEF Spec
=============================================================================
