-------------------------- MODULE OrdersListProofs --------------------------
(* Types, and the cause of a busy list, for every history, limit, filter   *)
(* and bound.  The operators of OrdersList map the service, the fetches    *)
(* and the model (a state) to a state: each keeps the types, and each that *)
(* leaves the list busy leaves a fetch for a change of page in flight.     *)
EXTENDS OrdersList, FiniteSetTheorems, SequenceTheorems, TLAPS

Flights == [Slots -> {Idle} \cup Fetches]
States == [svc : Contents, flight : Flights, mdl : Models]
Manual(fl) == \E i \in Slots : fl[i].pc = "sent" /\ fl[i].manual

(* What a command or a tick may do to the list from s to t.                *)
BusyOnlyByFetch(s, t) ==
  /\ Manual(s.flight) => Manual(t.flight)
  /\ t.mdl.busy => s.mdl.busy \/ Manual(t.flight)

(* The fetch that a new one could be: a free slot, or one already manual.  *)
MayFetch(s) == FreeSlots(s.flight) # {} \/ Manual(s.flight)

LEMMA FetchRecord ==
  ASSUME NEW s \in States, NEW manual \in BOOLEAN, open \subseteq Orders
  PROVE  [pc |-> "sent", page |-> s.svc.page, limit |-> s.svc.limit, filter |-> s.svc.filter,
          orders |-> open, manual |-> manual] \in Fetches
BY DEF States, Contents, Fetches

LEMMA FetchType ==
  ASSUME NEW s \in States, NEW manual \in BOOLEAN, open \subseteq Orders
  PROVE  /\ Fetch(s, manual) \in States
         /\ Fetch(s, manual).svc = s.svc /\ Fetch(s, manual).mdl = s.mdl
BY FetchRecord DEF Fetch, States, Flights

(* A manual fetch takes a free slot, or (without one) at worst the slot of *)
(* another manual fetch.                                                   *)
LEMMA FetchManual ==
  ASSUME NEW s \in States, MayFetch(s)
  PROVE  Manual(Fetch(s, TRUE).flight)
<1> DEFINE r == [pc |-> "sent", page |-> s.svc.page, limit |-> s.svc.limit,
                 filter |-> s.svc.filter, orders |-> open, manual |-> TRUE]
           j == CHOOSE k \in FreeSlots(s.flight) : TRUE
<1>1. Fetch(s, TRUE).flight = [s.flight EXCEPT ![j] = r]
  BY DEF Fetch, States
<1>0. r.pc = "sent" /\ r.manual
  OBVIOUS
<1> HIDE DEF r
<1>2. CASE FreeSlots(s.flight) # {}
  <2>1. j \in Slots
    BY <1>2 DEF FreeSlots
  <2>2. Fetch(s, TRUE).flight[j] = r
    BY <1>1, <2>1 DEF States, Flights
  <2> QED
    BY <1>0, <2>1, <2>2 DEF Manual
<1>3. CASE Manual(s.flight)
  <2>1. PICK i \in Slots : s.flight[i].pc = "sent" /\ s.flight[i].manual
    BY <1>3 DEF Manual
  <2>2. [s.flight EXCEPT ![j] = r][i] \in {s.flight[i], r}
    BY <2>1 DEF States, Flights
  <2>3. Fetch(s, TRUE).flight[i].pc = "sent" /\ Fetch(s, TRUE).flight[i].manual
    BY <1>1, <1>0, <2>1, <2>2
  <2> QED
    BY <2>3 DEF Manual
<1> QED
  BY <1>2, <1>3 DEF MayFetch

LEMMA SetPaginationBusy ==
  ASSUME NEW s \in States, NEW p \in Pages, open \subseteq Orders, MayFetch(s)
  PROVE  /\ SetPagination(s, p) \in States
         /\ Manual(SetPagination(s, p).flight)
         /\ SetPagination(s, p).mdl = s.mdl
<1> DEFINE t == [s EXCEPT !.svc = NoAnswer(p, s.mdl.limit, s.mdl.filter)]
<1>1. NoAnswer(p, s.mdl.limit, s.mdl.filter) \in Contents
  BY DEF NoAnswer, Answer, Contents, States, Models
<1>2. t \in States /\ t.mdl = s.mdl /\ t.flight = s.flight
  BY <1>1 DEF States
<1>3. MayFetch(t)
  BY <1>2 DEF MayFetch
<1> QED
  BY <1>2, <1>3, FetchType, FetchManual DEF SetPagination

LEMMA ResetBackendType ==
  ASSUME NEW s \in States
  PROVE  /\ ResetBackend(s) \in States /\ ResetBackend(s).flight = s.flight
         /\ ResetBackend(s).mdl.busy = s.mdl.busy
<1>1. 1 \in Pages
  BY OrdersAssumption DEF Pages
<1> QED
  BY <1>1 DEF ResetBackend, States, Models

LEMMA SetBusyType ==
  ASSUME NEW s \in States
  PROVE  SetBusy(s) \in States /\ SetBusy(s).flight = s.flight
BY DEF SetBusy, States, Models

LEMMA SetCurrentPageBusy ==
  ASSUME NEW s \in States, NEW p \in Pages, open \subseteq Orders, MayFetch(s)
  PROVE  /\ SetCurrentPage(s, p) \in States
         /\ BusyOnlyByFetch(s, SetCurrentPage(s, p))
<1>1. CASE p = s.mdl.page
  BY <1>1 DEF SetCurrentPage, BusyOnlyByFetch
<1>2. CASE p # s.mdl.page
  <2> DEFINE t == ResetBackend(SetBusy(s))
  <2>1. t \in States /\ t.flight = s.flight
    BY SetBusyType, ResetBackendType
  <2>2. MayFetch(t)
    BY <2>1 DEF MayFetch
  <2>3. SetCurrentPage(s, p) = SetPagination(t, p)
    BY <1>2 DEF SetCurrentPage
  <2> QED
    BY <2>1, <2>2, <2>3, SetPaginationBusy DEF BusyOnlyByFetch
<1> QED
  BY <1>1, <1>2

LEMMA SetLimitBusy ==
  ASSUME NEW s \in States, NEW l \in Limits, open \subseteq Orders, MayFetch(s)
  PROVE  /\ SetLimit(s, l) \in States
         /\ BusyOnlyByFetch(s, SetLimit(s, l))
         /\ MayFetch(SetLimit(s, l))
<1>1. CASE l = s.mdl.limit
  BY <1>1 DEF SetLimit, BusyOnlyByFetch
<1>2. CASE l # s.mdl.limit
  <2> DEFINE t == [s EXCEPT !.mdl.limit = l]
             u == ResetBackend(SetBusy(t))
  <2>0. 1 \in Pages
    BY OrdersAssumption DEF Pages
  <2>1. t \in States /\ t.flight = s.flight /\ t.mdl.page = s.mdl.page /\ t.mdl.busy = s.mdl.busy
    BY DEF States, Models
  <2>2. u \in States /\ u.flight = s.flight
    BY <2>1, SetBusyType, ResetBackendType
  <2>3. MayFetch(t) /\ MayFetch(u)
    BY <2>1, <2>2 DEF MayFetch
  <2>4. CASE s.mdl.page = 1
    <3>1. SetLimit(s, l) = SetPagination(u, 1)
      BY <1>2, <2>4 DEF SetLimit
    <3> QED
      BY <2>0, <2>2, <2>3, <3>1, SetPaginationBusy DEF BusyOnlyByFetch, MayFetch
  <2>5. CASE s.mdl.page # 1
    <3>1. SetLimit(s, l) = SetPagination(u, 1)
      BY <1>2, <2>1, <2>5 DEF SetLimit, SetCurrentPage
    <3> QED
      BY <2>0, <2>2, <2>3, <3>1, SetPaginationBusy DEF BusyOnlyByFetch, MayFetch
  <2> QED
    BY <2>4, <2>5
<1> QED
  BY <1>1, <1>2

LEMMA ResetModelType ==
  ASSUME NEW s \in States
  PROVE  /\ ResetModel(s) \in States /\ ResetModel(s).flight = s.flight
         /\ ~ResetModel(s).mdl.busy
<1> DEFINE t == ResetBackend(s)
           u == [t EXCEPT !.mdl.stale = FALSE]
<1>1. t \in States /\ t.flight = s.flight
  BY ResetBackendType
<1>2. ResetModel(s) = [u EXCEPT !.mdl.busy = FALSE]
  BY DEF ResetModel
<1> HIDE DEF t
<1>3. u \in States /\ u.flight = t.flight
  BY <1>1 DEF States, Models
<1> HIDE DEF u
<1> QED
  BY <1>1, <1>2, <1>3 DEF States, Models

LEMMA SetFilterBusy ==
  ASSUME NEW s \in States, NEW f \in Filters, open \subseteq Orders, MayFetch(s)
  PROVE  /\ SetFilter(s, f) \in States
         /\ BusyOnlyByFetch(s, SetFilter(s, f))
<1> DEFINE t == [s EXCEPT !.mdl.filter = f]
           u == ResetModel(SetBusy(t))
<1>0. 1 \in Pages
  BY OrdersAssumption DEF Pages
<1>1. t \in States /\ t.flight = s.flight /\ t.mdl.page = s.mdl.page /\ t.mdl.busy = s.mdl.busy
  BY DEF States, Models
<1>2. u \in States /\ u.flight = s.flight
  BY <1>1, SetBusyType, ResetModelType
<1>3. MayFetch(t) /\ MayFetch(u)
  BY <1>1, <1>2 DEF MayFetch
<1>4. CASE s.mdl.busy
  BY <1>4 DEF SetFilter, BusyOnlyByFetch
<1>5. CASE ~s.mdl.busy /\ s.mdl.page = 1 /\ inHistory
  <2>1. SetFilter(s, f) = SetPagination(u, 1)
    BY <1>5 DEF SetFilter
  <2> QED
    BY <1>0, <1>2, <1>3, <2>1, SetPaginationBusy DEF BusyOnlyByFetch
<1>6. CASE ~s.mdl.busy /\ ~(s.mdl.page = 1 /\ inHistory)
  <2>1. SetFilter(s, f) = SetCurrentPage(t, 1)
    BY <1>6 DEF SetFilter
  <2>2. SetFilter(s, f) \in States /\ BusyOnlyByFetch(t, SetFilter(s, f))
    BY <1>0, <1>1, <1>3, <2>1, SetCurrentPageBusy
  <2> QED
    BY <1>1, <2>2 DEF BusyOnlyByFetch
<1> QED
  BY <1>4, <1>5, <1>6

-----------------------------------------------------------------------------
(* The tick.                                                               *)

LEMMA InitModelBusy ==
  ASSUME NEW s \in States
  PROVE  /\ InitModel(s) \in States /\ InitModel(s).flight = s.flight
         /\ InitModel(s).mdl.busy = s.mdl.busy
<1> DEFINE r == [page |-> s.svc.page, limit |-> s.svc.limit, filter |-> s.svc.filter,
                 orders |-> s.svc.orders, swaps |-> s.svc.swaps, busy |-> s.mdl.busy,
                 stale |-> FALSE]
<1>1. r \in Models /\ r.busy = s.mdl.busy
  BY DEF States, Contents, Models
<1>2. InitModel(s) \in {s, [s EXCEPT !.mdl = r]}
  BY DEF InitModel
<1> HIDE DEF r
<1> QED
  BY <1>1, <1>2 DEF States

LEMMA SetCommonDataBusy ==
  ASSUME NEW s \in States, open \subseteq Orders, MayFetch(s)
  PROVE  SetCommonData(s) \in States /\ BusyOnlyByFetch(s, SetCommonData(s))
<1> DEFINE t == SetLimit(s, s.svc.limit)
<1>1. s.svc.limit \in Limits /\ s.svc.page \in Pages
  BY DEF States, Contents
<1>2. t \in States /\ BusyOnlyByFetch(s, t) /\ MayFetch(t)
  BY <1>1, SetLimitBusy
<1>3. SetCommonData(s) = SetCurrentPage(t, s.svc.page)
  BY DEF SetCommonData
<1> HIDE DEF t
<1>4. SetCommonData(s) \in States /\ BusyOnlyByFetch(t, SetCommonData(s))
  BY <1>1, <1>2, <1>3, SetCurrentPageBusy
<1> QED
  BY <1>2, <1>4 DEF BusyOnlyByFetch

LEMMA UpdateOrInsertType ==
  ASSUME NEW s \in States, NEW c \in Contents
  PROVE  /\ UpdateOrInsert(s, c) \in States /\ UpdateOrInsert(s, c).flight = s.flight
         /\ UpdateOrInsert(s, c).mdl.busy = s.mdl.busy
<1> DEFINE r == [s.mdl EXCEPT !.orders = c.orders, !.swaps = @ \cup c.swaps]
<1>1. r \in Models /\ r.busy = s.mdl.busy
  BY DEF States, Contents, Models
<1>2. UpdateOrInsert(s, c) = [s EXCEPT !.mdl = r]
  BY DEF UpdateOrInsert, States, Models
<1> HIDE DEF r
<1> QED
  BY <1>1, <1>2 DEF States

(* A manual answer ends the busy state; what makes the list busy again is  *)
(* another manual fetch.                                                   *)
LEMMA RefreshBusy ==
  ASSUME NEW s \in States, NEW manual \in BOOLEAN, open \subseteq Orders, MayFetch(s)
  PROVE  /\ Refresh(s, manual) \in States
         /\ BusyOnlyByFetch(s, Refresh(s, manual))
         /\ manual /\ Refresh(s, manual).mdl.busy => Manual(Refresh(s, manual).flight)
<1> DEFINE t == IF manual THEN [s EXCEPT !.mdl.busy = FALSE] ELSE s
<1>1. /\ t \in States /\ t.flight = s.flight
      /\ t.mdl.busy => s.mdl.busy /\ ~manual
  BY DEF States, Models
<1>2. Refresh(s, manual) =
        IF t.mdl.busy THEN t
        ELSE IF HasNothing(t.mdl) THEN InitModel(t)
        ELSE UpdateOrInsert(SetCommonData(t), t.svc)
  BY DEF Refresh
<1> HIDE DEF t
<1>3. CASE t.mdl.busy
  BY <1>1, <1>2, <1>3 DEF BusyOnlyByFetch
<1>4. CASE ~t.mdl.busy /\ HasNothing(t.mdl)
  BY <1>1, <1>2, <1>4, InitModelBusy DEF BusyOnlyByFetch
<1>5. CASE ~t.mdl.busy /\ ~HasNothing(t.mdl)
  <2>1. MayFetch(t) /\ t.svc \in Contents
    BY <1>1 DEF MayFetch, States
  <2>2. SetCommonData(t) \in States /\ BusyOnlyByFetch(t, SetCommonData(t))
    BY <1>1, <2>1, SetCommonDataBusy
  <2>3. Refresh(s, manual) = UpdateOrInsert(SetCommonData(t), t.svc)
    BY <1>2, <1>5
  <2> QED
    BY <1>1, <1>5, <2>1, <2>2, <2>3, UpdateOrInsertType DEF BusyOnlyByFetch
<1> QED
  BY <1>3, <1>4, <1>5

-----------------------------------------------------------------------------
IInv == TypeOK /\ BusyHasCause

(* A bound on the free slots is never below one.                           *)
LEMMA FreeSlot ==
  ASSUME NEW fl, NEW n \in Nat, Cardinality(FreeSlots(fl)) > n
  PROVE  FreeSlots(fl) # {}
<1>1. Cardinality({}) = 0
  BY FS_EmptySet
<1> QED
  BY <1>1

LEMMA StateType == TypeOK => State \in States
BY DEF TypeOK, State, States, Flights

LEMMA InitCorrect == Init => IInv
<1> SUFFICES ASSUME Init PROVE IInv
  OBVIOUS
<1>1. 1 \in Pages
  BY OrdersAssumption DEF Pages
<1>2. Fresh \in Contents /\ Asks(Fresh) \in Requests /\ EmptyModel \in Models
  BY <1>1, OrdersAssumption
  DEF Fresh, NoAnswer, Answer, Contents, Asks, Request, Requests, EmptyModel, Models
<1>3. <<>> \in Seq(BOOLEAN)
  BY EmptySeq
<1>4. flight \in [Slots -> {Idle} \cup Fetches]
  BY DEF Init
<1>5. 0 \in 0 .. MaxCommands /\ 0 \in 0 .. MaxFaults /\ 0 \in 0 .. MaxChanges
  BY OrdersAssumption
<1>6. ~mdl.busy
  BY DEF Init, EmptyModel
<1> QED
  BY <1>2, <1>3, <1>4, <1>5, <1>6 DEF Init, IInv, TypeOK, BusyHasCause

(* Types and cause, for a command of the user that turns State into t.     *)
LEMMA CommandCorrect ==
  ASSUME IInv, NEW t \in States, Command(t), BusyOnlyByFetch(State, t),
         inHistory' \in BOOLEAN, unsent' \in BOOLEAN
  PROVE  IInv'
<1> USE DEF IInv
<1>1. svc' \in Contents /\ flight' \in Flights /\ mdl' \in Models
  BY DEF Command, Set, States
<1>2. asked' \in Requests
  <2>1. Asks(t.svc) \in Requests
    BY DEF States, Contents, Asks, Request, Requests
  <2> QED
    BY <2>1 DEF Command, TypeOK
<1>3. commands' \in 0 .. MaxCommands
  BY OrdersAssumption DEF Command, TypeOK
<1>4. TypeOK'
  BY <1>1, <1>2, <1>3 DEF Command, TypeOK, Flights
<1>5. BusyHasCause'
  <2>1. State.mdl.busy = mdl.busy /\ State.flight = flight
    BY DEF State
  <2>2. mdl' = t.mdl /\ flight' = t.flight /\ queue' = queue /\ faults' = faults
    BY DEF Command, Set
  <2>3. CASE Manual(flight')
    BY <2>3 DEF Manual, BusyHasCause, Flying
  <2>4. CASE ~Manual(flight')
    <3>1. mdl'.busy => mdl.busy /\ ~Manual(flight)
      BY <2>1, <2>2, <2>4 DEF BusyOnlyByFetch
    <3> QED
      BY <2>2, <3>1 DEF Manual, BusyHasCause, Flying
  <2> QED
    BY <2>3, <2>4
<1> QED
  BY <1>4, <1>5

(* The state a command starts from may fetch.                              *)
LEMMA CommandMayFetch ==
  ASSUME NEW t, Command(t)
  PROVE  MayFetch(State)
BY FreeSlot DEF Command, MayFetch, State

(* A step that fetches or answers nothing and leaves the queue.            *)
LEMMA CauseKept ==
  ASSUME BusyHasCause, UNCHANGED <<flight, queue, faults>>, mdl'.busy => mdl.busy
  PROVE  BusyHasCause'
BY DEF BusyHasCause, Flying

LEMMA PeriodicCorrect == IInv /\ Periodic => IInv'
<1> SUFFICES ASSUME IInv, Periodic PROVE IInv'
  OBVIOUS
<1> DEFINE t == Fetch(State, FALSE)
           j == CHOOSE k \in FreeSlots(flight) : TRUE
<1>1. State \in States /\ open \subseteq Orders
  BY StateType DEF IInv, TypeOK
<1>2. t \in States /\ t.svc = State.svc /\ t.mdl = State.mdl
  BY <1>1, FetchType
<1>3. svc' = svc /\ mdl' = mdl /\ flight' = t.flight /\ flight' \in Flights
  BY <1>2 DEF Periodic, Set, State, States
<1>4. TypeOK'
  BY <1>3 DEF Periodic, counters, IInv, TypeOK, Flights
<1>5. ASSUME NEW i \in Slots, Flying(i), flight[i].manual
      PROVE  Flying(i)' /\ flight'[i].manual
  <2>1. FreeSlots(flight) # {}
    BY FreeSlot DEF Periodic
  <2>2. j \in FreeSlots(flight)
    BY <2>1
  <2>3. j # i
    BY <1>5, <2>2 DEF FreeSlots, Flying, Idle
  <2>4. flight'[i] = flight[i]
    BY <1>3, <2>3 DEF Fetch, State, IInv, TypeOK
  <2> QED
    BY <1>5, <2>4 DEF Flying
<1>6. BusyHasCause'
  BY <1>3, <1>5 DEF Periodic, counters, IInv, BusyHasCause
<1> QED
  BY <1>4, <1>6 DEF IInv

LEMMA TickCorrect == IInv /\ Tick => IInv'
<1> SUFFICES ASSUME IInv, Tick PROVE IInv'
  OBVIOUS
<1> DEFINE t == Refresh(State, Head(queue))
<1>1. State \in States /\ open \subseteq Orders /\ MayFetch(State)
  BY StateType, FreeSlot DEF Tick, IInv, TypeOK, MayFetch, State
<1>2. Head(queue) \in BOOLEAN /\ Tail(queue) \in Seq(BOOLEAN)
  BY DEF Tick, IInv, TypeOK
<1>3. /\ t \in States /\ BusyOnlyByFetch(State, t)
      /\ Head(queue) /\ t.mdl.busy => Manual(t.flight)
  BY <1>1, <1>2, RefreshBusy
<1>4. svc' = t.svc /\ flight' = t.flight /\ mdl' = t.mdl
  BY DEF Tick, Set
<1> HIDE DEF t
<1>5. TypeOK'
  BY <1>2, <1>3, <1>4 DEF Tick, counters, IInv, TypeOK, States, Flights
<1>6. BusyHasCause'
  <2>1. CASE Manual(flight')
    BY <2>1 DEF Manual, BusyHasCause, Flying
  <2>2. CASE ~mdl'.busy
    BY <2>2 DEF BusyHasCause
  <2>3. CASE mdl'.busy /\ ~Manual(flight')
    <3>1. mdl.busy /\ ~Manual(flight) /\ ~Head(queue)
      BY <1>3, <1>4, <2>3 DEF BusyOnlyByFetch, State
    <3>2. CASE faults > 0
      BY <3>2 DEF BusyHasCause, Tick, counters
    <3>3. CASE \E n \in 1 .. Len(queue) : queue[n]
      <4>1. PICK n \in 1 .. Len(queue) : queue[n]
        BY <3>3
      <4>2. queue \in Seq(BOOLEAN) /\ queue # <<>> /\ queue' = Tail(queue)
        BY DEF Tick, IInv, TypeOK
      <4>3. Head(queue) = queue[1]
        BY <4>2
      <4>4. n # 1
        BY <3>1, <4>1, <4>3
      <4>5. Len(queue') = Len(queue) - 1 /\ \A k \in 1 .. Len(queue') : queue'[k] = queue[k + 1]
        BY <4>2, HeadTailProperties
      <4>6. n - 1 \in 1 .. Len(queue') /\ queue'[n - 1] = queue[n]
        <5>1. Len(queue) \in Nat
          BY <4>2, LenProperties
        <5>2. n - 1 \in 1 .. Len(queue') /\ (n - 1) + 1 = n
          BY <4>1, <4>4, <4>5, <5>1
        <5>3. queue'[n - 1] = queue[(n - 1) + 1]
          BY <4>5, <5>2
        <5> QED
          BY <5>2, <5>3
      <4> QED
        BY <4>1, <4>6 DEF BusyHasCause
    <3> QED
      BY <3>1, <3>2, <3>3 DEF IInv, BusyHasCause, Manual, Flying
  <2> QED
    BY <2>1, <2>2, <2>3
<1> QED
  BY <1>5, <1>6 DEF IInv

(* An answer that is stored leaves its event in the queue.                 *)
LEMMA StoreCorrect ==
  ASSUME IInv, NEW i \in Slots, NEW c \in Contents, Store(i, c),
         crossed' \in BOOLEAN, faults' \in 0 .. MaxFaults, faults' >= faults
  PROVE  IInv'
<1> USE DEF IInv
<1>1. flight[i] \in Fetches
  BY DEF Store, Flying, TypeOK, Idle
<1>2. flight[i].manual \in BOOLEAN
  BY <1>1 DEF Fetches
<1>3. /\ queue' \in Seq(BOOLEAN) /\ Len(queue') = Len(queue) + 1
      /\ queue'[Len(queue) + 1] = flight[i].manual
      /\ \A n \in 1 .. Len(queue) : queue'[n] = queue[n]
  BY <1>2, AppendProperties DEF Store, TypeOK
<1>4. flight' \in [Slots -> {Idle} \cup Fetches]
  BY DEF Store, TypeOK
<1>5. TypeOK'
  BY <1>3, <1>4 DEF Store, TypeOK
<1>6. BusyHasCause'
  <2>0. mdl' = mdl /\ Len(queue) \in Nat /\ faults \in Nat /\ faults' \in Nat
    BY OrdersAssumption, LenProperties DEF Store, TypeOK
  <2>1. CASE ~mdl.busy
    BY <2>0, <2>1 DEF BusyHasCause
  <2>2. CASE \E n \in 1 .. Len(queue) : queue[n]
    BY <1>3, <2>0, <2>2 DEF BusyHasCause
  <2>3. CASE faults > 0
    BY <2>0, <2>3 DEF BusyHasCause
  <2>4. ASSUME NEW k \in Slots, Flying(k), flight[k].manual PROVE BusyHasCause'
    <3>1. CASE k = i
      BY <1>3, <2>0, <2>4, <3>1 DEF BusyHasCause
    <3>2. CASE k # i
      <4>1. flight'[k] = flight[k]
        BY <3>2 DEF Store, TypeOK
      <4> QED
        BY <2>4, <4>1 DEF BusyHasCause, Flying
    <3> QED
      BY <3>1, <3>2
  <2> QED
    BY <2>1, <2>2, <2>3, <2>4 DEF BusyHasCause
<1> QED
  BY <1>5, <1>6

LEMMA AnswerContents ==
  ASSUME NEW p \in Pages, NEW f \in Fetches, NEW os \in SUBSET Orders,
         NEW ss \in SUBSET Requests
  PROVE  Answer(p, f.limit, f.filter, os, ss) \in Contents
BY DEF Answer, Fetches, Contents

LEMMA AnsweredCorrect ==
  ASSUME IInv, NEW i \in Slots, Answered(i)
  PROVE  IInv'
<1>1. flight[i] \in Fetches
  BY DEF Answered, Flying, IInv, TypeOK, Idle
<1>2. PICK os \in {flight[i].orders, open} :
        Store(i, Answer(flight[i].page, flight[i].limit, flight[i].filter, os, Swaps(Asks(flight[i]))))
  BY DEF Answered
<1>3. os \in SUBSET Orders /\ flight[i].page \in Pages
  BY <1>1, <1>2 DEF Fetches, IInv, TypeOK
<1>4. Swaps(Asks(flight[i])) \in SUBSET Requests
  BY <1>1 DEF Swaps, Asks, Request, Requests, Fetches
<1>5. crossed' \in BOOLEAN /\ faults' = faults
  BY DEF Answered, IInv, TypeOK
<1>6. faults' \in 0 .. MaxFaults /\ faults' >= faults
  BY <1>5, OrdersAssumption DEF IInv, TypeOK
<1> QED
  BY <1>1, <1>2, <1>3, <1>4, <1>5, <1>6, AnswerContents, StoreCorrect

LEMMA RefusedCorrect ==
  ASSUME IInv, NEW i \in Slots, Refused(i)
  PROVE  IInv'
<1>1. flight[i] \in Fetches
  BY DEF Refused, Flying, IInv, TypeOK, Idle
<1>2. RefusedPage(flight[i]) \in Pages
  BY OrdersAssumption DEF RefusedPage, Pages
<1>3. Answer(RefusedPage(flight[i]), flight[i].limit, flight[i].filter, open, {}) \in Contents
  BY <1>1, <1>2, AnswerContents DEF IInv, TypeOK
<1>4. crossed' \in BOOLEAN /\ faults' \in 0 .. MaxFaults /\ faults' >= faults
  BY OrdersAssumption DEF Refused, IInv, TypeOK
<1> QED
  BY <1>3, <1>4, StoreCorrect DEF Refused

LEMMA LostCorrect ==
  ASSUME IInv, NEW i \in Slots, Lost(i)
  PROVE  IInv'
<1>1. faults' \in 0 .. MaxFaults /\ faults' > 0
  BY OrdersAssumption DEF Lost, IInv, TypeOK
<1>2. flight' \in [Slots -> {Idle} \cup Fetches]
  BY DEF Lost, IInv, TypeOK
<1> QED
  BY <1>1, <1>2 DEF Lost, IInv, TypeOK, BusyHasCause

(* Logout: the model is reset, and is not busy.                            *)
LEMMA DisconnectCorrect == IInv /\ Disconnect => IInv'
<1> SUFFICES ASSUME IInv, Disconnect PROVE IInv'
  OBVIOUS
<1>1. State \in States
  BY StateType DEF IInv
<1>2. ResetModel(State).mdl \in Models /\ ~ResetModel(State).mdl.busy
  BY <1>1, ResetModelType DEF States
<1>3. /\ svc' = Fresh /\ mdl' = ResetModel(State).mdl
      /\ flight' \in [Slots -> {Idle} \cup Fetches]
  BY DEF Disconnect, Set
<1>4. Fresh \in Contents /\ Asks(Fresh) \in Requests
  <2>1. 1 \in Pages
    BY OrdersAssumption DEF Pages
  <2> QED
    BY <2>1, OrdersAssumption
    DEF Fresh, NoAnswer, Answer, Contents, Asks, Request, Requests
<1>5. commands' \in 0 .. MaxCommands
  BY OrdersAssumption DEF Disconnect, IInv, TypeOK
<1>6. queue' \in Seq(BOOLEAN)
  BY EmptySeq DEF Disconnect
<1>7. TypeOK'
  BY <1>2, <1>3, <1>4, <1>5, <1>6 DEF Disconnect, IInv, TypeOK
<1> QED
  BY <1>2, <1>3, <1>7 DEF IInv, BusyHasCause

LEMMA UserCorrect ==
  ASSUME IInv, UserPage \/ UserLimit \/ UserFilter \/ UserHistory
  PROVE  IInv'
<1>1. State \in States /\ open \subseteq Orders /\ 1 \in Pages
  BY StateType, OrdersAssumption DEF IInv, TypeOK, Pages
<1>2. inHistory \in BOOLEAN /\ unsent \in BOOLEAN
  BY DEF IInv, TypeOK
<1>3. CASE UserPage
  <2>1. PICK p \in Pages : Command(SetCurrentPage(State, p))
    BY <1>3 DEF UserPage
  <2>2. SetCurrentPage(State, p) \in States /\ BusyOnlyByFetch(State, SetCurrentPage(State, p))
    BY <1>1, <2>1, CommandMayFetch, SetCurrentPageBusy
  <2> QED
    BY <1>2, <1>3, <2>1, <2>2, CommandCorrect DEF UserPage
<1>4. CASE UserLimit
  <2>1. PICK l \in Limits : Command(SetLimit(State, l))
    BY <1>4 DEF UserLimit
  <2>2. SetLimit(State, l) \in States /\ BusyOnlyByFetch(State, SetLimit(State, l))
    BY <1>1, <2>1, CommandMayFetch, SetLimitBusy
  <2> QED
    BY <1>2, <1>4, <2>1, <2>2, CommandCorrect DEF UserLimit
<1>5. CASE UserFilter
  <2>1. PICK f \in Filters : Command(SetFilter(State, f))
    BY <1>5 DEF UserFilter
  <2>2. SetFilter(State, f) \in States /\ BusyOnlyByFetch(State, SetFilter(State, f))
    BY <1>1, <2>1, CommandMayFetch, SetFilterBusy
  <2>3. inHistory' \in BOOLEAN /\ unsent' \in BOOLEAN
    BY <1>2, <1>5 DEF UserFilter
  <2> QED
    BY <2>1, <2>2, <2>3, CommandCorrect
<1>6. CASE UserHistory
  <2> DEFINE t == IF inHistory THEN State ELSE SetCurrentPage(State, 1)
  <2>1. Command(t)
    BY <1>6 DEF UserHistory
  <2>2. t \in States /\ BusyOnlyByFetch(State, t)
    <3>1. CASE inHistory
      BY <1>1, <3>1 DEF BusyOnlyByFetch
    <3>2. CASE ~inHistory
      BY <1>1, <2>1, <3>2, CommandMayFetch, SetCurrentPageBusy
    <3> QED
      BY <3>1, <3>2
  <2>3. inHistory' \in BOOLEAN /\ unsent' \in BOOLEAN
    BY <1>2, <1>6 DEF UserHistory
  <2> QED
    BY <2>1, <2>2, <2>3, CommandCorrect
<1> QED
  BY <1>3, <1>4, <1>5, <1>6

LEMMA StepCorrect == IInv /\ [Next]_vars => IInv'
<1> SUFFICES ASSUME IInv, [Next]_vars PROVE IInv'
  OBVIOUS
<1>1. CASE UserPage \/ UserLimit \/ UserFilter \/ UserHistory
  BY <1>1, UserCorrect
<1>2. CASE Disconnect
  BY <1>2, DisconnectCorrect
<1>3. CASE Periodic
  BY <1>3, PeriodicCorrect
<1>4. CASE Tick
  BY <1>4, TickCorrect
<1>5. CASE OrdersChange
  <2>1. changes' \in 0 .. MaxChanges
    BY <1>5, OrdersAssumption DEF OrdersChange, IInv, TypeOK
  <2> QED
    BY <1>5, <2>1, CauseKept DEF OrdersChange, IInv, TypeOK
<1>6. ASSUME NEW i \in Slots, Answered(i) \/ Refused(i) \/ Lost(i) PROVE IInv'
  BY <1>6, AnsweredCorrect, RefusedCorrect, LostCorrect
<1>7. CASE UNCHANGED vars
  BY <1>7, CauseKept DEF vars, counters, IInv, TypeOK
<1> QED
  BY <1>1, <1>2, <1>3, <1>4, <1>5, <1>6, <1>7 DEF Next

(* The types, for every history, limit, filter and bound.                  *)
THEOREM TypeCorrect == Spec => []TypeOK
<1>1. IInv => TypeOK
  BY DEF IInv
<1> QED
  BY <1>1, InitCorrect, StepCorrect, PTL DEF Spec

(* A busy list waits for a fetch of a change of page, in flight or queued  *)
(* for the tick, or an answer was lost.                                    *)
THEOREM BusyCorrect == Spec => []BusyHasCause
<1>1. IInv => BusyHasCause
  BY DEF IInv
<1> QED
  BY <1>1, InitCorrect, StepCorrect, PTL DEF Spec
-----------------------------------------------------------------------------
(* As long as no answer overtook another, the service is labelled with     *)
(* what was asked for, all swaps are answers to it, and the model has rows *)
(* only under the service's page and limit: then the tick clears and       *)
(* fetches nothing by itself.                                              *)
Agree(s, a) ==
  /\ Asks(s.svc) = a
  /\ s.svc.swaps \subseteq {a} /\ s.mdl.swaps \subseteq {a}
  /\ s.mdl.busy \/ s.mdl.stale => HasNothing(s.mdl)
  /\ ~HasNothing(s.mdl) => s.mdl.page = s.svc.page /\ s.mdl.limit = s.svc.limit

Uncrossed == ~crossed => Agree(State, asked) /\ (mdl.filter = svc.filter \/ unsent)

UInv == TypeOK /\ Uncrossed

(* A command ends with a new request for the filter and limit of a model   *)
(* without rows, or changes at most the filter of the model.               *)
Renewed(t) == (\E p \in Pages : t.svc = NoAnswer(p, t.mdl.limit, t.mdl.filter)) /\ HasNothing(t.mdl)
SameButFilter(s, t) ==
  /\ t.svc = s.svc /\ t.flight = s.flight
  /\ t.mdl.page = s.mdl.page /\ t.mdl.limit = s.mdl.limit
  /\ t.mdl.orders = s.mdl.orders /\ t.mdl.swaps = s.mdl.swaps
  /\ t.mdl.busy = s.mdl.busy /\ t.mdl.stale = s.mdl.stale
Asked(s, t) == Renewed(t) /\ t.flight # s.flight

LEMMA RenewedAgrees ==
  ASSUME NEW t \in States, Renewed(t)
  PROVE  Agree(t, Asks(t.svc)) /\ t.mdl.filter = t.svc.filter
BY DEF Renewed, Agree, HasNothing, NoAnswer, Answer

LEMMA FetchTakesSlot ==
  ASSUME NEW s \in States, NEW manual \in BOOLEAN, FreeSlots(s.flight) # {}
  PROVE  Fetch(s, manual).flight # s.flight
<1> DEFINE r == [pc |-> "sent", page |-> s.svc.page, limit |-> s.svc.limit,
                 filter |-> s.svc.filter, orders |-> open, manual |-> manual]
           j == CHOOSE k \in FreeSlots(s.flight) : TRUE
<1>1. Fetch(s, manual).flight = [s.flight EXCEPT ![j] = r]
  BY DEF Fetch, States
<1>2. r.pc = "sent"
  OBVIOUS
<1> HIDE DEF r
<1>3. j \in Slots /\ s.flight[j].pc = "idle"
  BY DEF FreeSlots, Idle
<1>4. Fetch(s, manual).flight[j] = r
  BY <1>1, <1>3 DEF States, Flights
<1> QED
  BY <1>2, <1>3, <1>4

LEMMA SetPaginationRenews ==
  ASSUME NEW s \in States, NEW p \in Pages, open \subseteq Orders,
         FreeSlots(s.flight) # {}, HasNothing(s.mdl)
  PROVE  Renewed(SetPagination(s, p)) /\ SetPagination(s, p).flight # s.flight
<1> DEFINE t == [s EXCEPT !.svc = NoAnswer(p, s.mdl.limit, s.mdl.filter)]
<1>1. NoAnswer(p, s.mdl.limit, s.mdl.filter) \in Contents
  BY DEF NoAnswer, Answer, Contents, States, Models
<1>2. /\ t \in States /\ t.mdl = s.mdl /\ t.flight = s.flight
      /\ t.svc = NoAnswer(p, s.mdl.limit, s.mdl.filter)
  BY <1>1 DEF States
<1>3. SetPagination(s, p) = Fetch(t, TRUE)
  BY DEF SetPagination
<1> HIDE DEF t
<1>4. SetPagination(s, p).svc = t.svc /\ SetPagination(s, p).mdl = s.mdl
  BY <1>2, <1>3, FetchType
<1>5. SetPagination(s, p).flight # s.flight
  BY <1>2, <1>3, FetchTakesSlot
<1> QED
  BY <1>2, <1>4, <1>5 DEF Renewed

LEMMA ResetBackendEmpties ==
  ASSUME NEW s \in States
  PROVE  HasNothing(ResetBackend(s).mdl)
BY DEF ResetBackend, States, Models, HasNothing

LEMMA ResetModelEmpties ==
  ASSUME NEW s \in States
  PROVE  /\ HasNothing(ResetModel(s).mdl)
         /\ ResetModel(s).mdl.filter = s.mdl.filter
<1> DEFINE t == ResetBackend(s)
           u == [t EXCEPT !.mdl.stale = FALSE]
<1>1. t \in States /\ HasNothing(t.mdl)
  BY ResetBackendType, ResetBackendEmpties
<1>2. t.mdl.filter = s.mdl.filter
  BY DEF ResetBackend, States, Models
<1>3. ResetModel(s) = [u EXCEPT !.mdl.busy = FALSE]
  BY DEF ResetModel
<1> HIDE DEF t
<1>4. u \in States /\ HasNothing(u.mdl) /\ u.mdl.filter = t.mdl.filter
  BY <1>1 DEF States, Models, HasNothing
<1> HIDE DEF u
<1> QED
  BY <1>2, <1>3, <1>4 DEF States, Models, HasNothing

LEMMA SetCurrentPageAsks ==
  ASSUME NEW s \in States, NEW p \in Pages, open \subseteq Orders, FreeSlots(s.flight) # {}
  PROVE  /\ p = s.mdl.page => SetCurrentPage(s, p) = s
         /\ p # s.mdl.page => Asked(s, SetCurrentPage(s, p))
<1> DEFINE t == ResetBackend(SetBusy(s))
<1>1. t \in States /\ t.flight = s.flight /\ HasNothing(t.mdl)
  BY SetBusyType, ResetBackendType, ResetBackendEmpties
<1> HIDE DEF t
<1>2. p # s.mdl.page => SetCurrentPage(s, p) = SetPagination(t, p)
  BY DEF SetCurrentPage, t
<1> QED
  BY <1>1, <1>2, SetPaginationRenews DEF SetCurrentPage, Asked

LEMMA SetLimitAsks ==
  ASSUME NEW s \in States, NEW l \in Limits, open \subseteq Orders, FreeSlots(s.flight) # {}
  PROVE  /\ l = s.mdl.limit => SetLimit(s, l) = s
         /\ l # s.mdl.limit => Asked(s, SetLimit(s, l))
<1>1. CASE l = s.mdl.limit
  BY <1>1 DEF SetLimit
<1>2. CASE l # s.mdl.limit
  <2> DEFINE t == [s EXCEPT !.mdl.limit = l]
             u == ResetBackend(SetBusy(t))
  <2>1. 1 \in Pages
    BY OrdersAssumption DEF Pages
  <2>2. t \in States /\ t.flight = s.flight /\ t.mdl.page = s.mdl.page
    BY DEF States, Models
  <2>3. SetLimit(s, l) = SetPagination(u, 1)
    BY <1>2, <2>2 DEF SetLimit, SetCurrentPage
  <2> HIDE DEF t
  <2>4. u \in States /\ u.flight = s.flight /\ HasNothing(u.mdl)
    BY <2>2, SetBusyType, ResetBackendType, ResetBackendEmpties
  <2> HIDE DEF u
  <2> QED
    BY <1>2, <2>1, <2>3, <2>4, SetPaginationRenews DEF Asked
<1> QED
  BY <1>1, <1>2

(* A filter that is not sent is applied on the first page outside of the   *)
(* history.                                                                *)
LEMMA SetFilterAsks ==
  ASSUME NEW s \in States, NEW f \in Filters, open \subseteq Orders, FreeSlots(s.flight) # {}
  PROVE  \/ Asked(s, SetFilter(s, f))
         \/ SetFilter(s, f) = s
         \/ /\ SameButFilter(s, SetFilter(s, f))
            /\ ~s.mdl.busy /\ s.mdl.page = 1 /\ ~inHistory
<1> DEFINE t == [s EXCEPT !.mdl.filter = f]
           u == ResetModel(SetBusy(t))
<1>1. 1 \in Pages
  BY OrdersAssumption DEF Pages
<1>2. t \in States /\ SameButFilter(s, t)
  BY DEF States, Models, SameButFilter
<1>3. SetFilter(s, f) = IF s.mdl.busy THEN s
                        ELSE IF s.mdl.page = 1 /\ inHistory THEN SetPagination(u, 1)
                        ELSE SetCurrentPage(t, 1)
  BY DEF SetFilter
<1> HIDE DEF t
<1>4. u \in States /\ u.flight = t.flight /\ HasNothing(u.mdl)
  BY <1>2, SetBusyType, ResetModelType, ResetModelEmpties
<1> HIDE DEF u
<1>5. CASE s.mdl.busy
  BY <1>3, <1>5
<1>6. CASE ~s.mdl.busy /\ s.mdl.page = 1 /\ inHistory
  BY <1>1, <1>2, <1>3, <1>4, <1>6, SetPaginationRenews DEF Asked, SameButFilter
<1>7. CASE ~s.mdl.busy /\ s.mdl.page = 1 /\ ~inHistory
  BY <1>1, <1>2, <1>3, <1>7, SetCurrentPageAsks DEF SameButFilter
<1>8. CASE ~s.mdl.busy /\ s.mdl.page # 1
  BY <1>1, <1>2, <1>3, <1>8, SetCurrentPageAsks DEF SameButFilter, Asked
<1> QED
  BY <1>5, <1>6, <1>7, <1>8

(* A command of the user: what it asks for, if anything, is what the       *)
(* history variable remembers.                                             *)
LEMMA CommandUncrossed ==
  ASSUME UInv, NEW t \in States, Command(t),
         \/ Asked(State, t)
         \/ SameButFilter(State, t) /\ (t.mdl.filter = mdl.filter \/ unsent'),
         unsent => unsent'
  PROVE  Uncrossed'
<1>1. svc' = t.svc /\ mdl' = t.mdl /\ flight' = t.flight /\ crossed' = crossed
  BY DEF Command, Set
<1>2. State.svc = svc /\ State.mdl = mdl /\ State.flight = flight
  BY DEF State
<1>3. State'.svc = t.svc /\ State'.mdl = t.mdl
  BY <1>1 DEF State
<1>4. CASE Asked(State, t)
  <2>1. asked' = Asks(t.svc)
    BY <1>2, <1>4 DEF Command, Asked
  <2>2. Agree(t, Asks(t.svc)) /\ t.mdl.filter = t.svc.filter
    BY <1>4, RenewedAgrees DEF Asked
  <2> QED
    BY <1>1, <1>3, <2>1, <2>2 DEF Uncrossed, Agree
<1>5. CASE SameButFilter(State, t) /\ (t.mdl.filter = mdl.filter \/ unsent')
  <2>1. asked' = asked
    BY <1>2, <1>5 DEF Command, SameButFilter
  <2>2. Agree(State, asked) => Agree(State', asked)
    BY <1>2, <1>3, <1>5 DEF Agree, SameButFilter, HasNothing
  <2> QED
    BY <1>1, <1>2, <1>5, <2>1, <2>2 DEF UInv, Uncrossed, SameButFilter
<1> QED
  BY <1>4, <1>5

LEMMA UserUncrossed ==
  ASSUME UInv, UserPage \/ UserLimit \/ UserFilter \/ UserHistory
  PROVE  Uncrossed'
<1>1. State \in States /\ open \subseteq Orders /\ 1 \in Pages
  BY StateType, OrdersAssumption DEF UInv, TypeOK, Pages
<1>2. State.mdl = mdl /\ SameButFilter(State, State)
  BY DEF State, SameButFilter
<1>3. ASSUME NEW t, Command(t) PROVE FreeSlots(State.flight) # {}
  BY <1>3, FreeSlot DEF Command, State
<1>4. ASSUME NEW t, Command(t) PROVE MayFetch(State)
  BY <1>4, CommandMayFetch
<1>5. CASE UserPage
  <2>1. PICK p \in Pages : p # mdl.page /\ Command(SetCurrentPage(State, p))
    BY <1>5 DEF UserPage
  <2>2. SetCurrentPage(State, p) \in States /\ Asked(State, SetCurrentPage(State, p))
    BY <1>1, <1>2, <1>3, <1>4, <2>1, SetCurrentPageBusy, SetCurrentPageAsks
  <2> QED
    BY <1>5, <2>1, <2>2, CommandUncrossed DEF UserPage
<1>6. CASE UserLimit
  <2>1. PICK l \in Limits : l # mdl.limit /\ Command(SetLimit(State, l))
    BY <1>6 DEF UserLimit
  <2>2. SetLimit(State, l) \in States /\ Asked(State, SetLimit(State, l))
    BY <1>1, <1>2, <1>3, <1>4, <2>1, SetLimitBusy, SetLimitAsks
  <2> QED
    BY <1>6, <2>1, <2>2, CommandUncrossed DEF UserLimit
<1>7. CASE UserFilter
  <2>1. PICK f \in Filters : Command(SetFilter(State, f))
    BY <1>7 DEF UserFilter
  <2> DEFINE t == SetFilter(State, f)
  <2>2. t \in States
    BY <1>1, <1>4, <2>1, SetFilterBusy
  <2>3. \/ Asked(State, t)
        \/ t = State
        \/ SameButFilter(State, t) /\ ~State.mdl.busy /\ State.mdl.page = 1 /\ ~inHistory
    BY <1>1, <1>3, <2>1, SetFilterAsks
  <2> HIDE DEF t
  <2>4. unsent' = (unsent \/ (~mdl.busy /\ mdl.page = 1 /\ ~inHistory))
    BY <1>7 DEF UserFilter
  <2> QED
    BY <1>2, <2>1, <2>2, <2>3, <2>4, CommandUncrossed DEF t
<1>8. CASE UserHistory
  <2> DEFINE t == IF inHistory THEN State ELSE SetCurrentPage(State, 1)
  <2>1. Command(t) /\ unsent' = unsent
    BY <1>8 DEF UserHistory
  <2>2. t \in States
    BY <1>1, <1>4, <2>1, SetCurrentPageBusy
  <2>3. t = State \/ Asked(State, t)
    BY <1>1, <1>3, <2>1, SetCurrentPageAsks
  <2> HIDE DEF t
  <2> QED
    BY <1>2, <2>1, <2>2, <2>3, CommandUncrossed
<1> QED
  BY <1>5, <1>6, <1>7, <1>8

(* While the model and the service agree, the tick asks for nothing: it    *)
(* shows the answer, or adds it.                                           *)
LEMMA RefreshAgrees ==
  ASSUME NEW s \in States, NEW manual \in BOOLEAN, NEW a, Agree(s, a)
  PROVE  /\ Agree(Refresh(s, manual), a)
         /\ Refresh(s, manual).svc = s.svc
         /\ Refresh(s, manual).mdl.filter \in {s.mdl.filter, s.svc.filter}
<1> DEFINE t == IF manual THEN [s EXCEPT !.mdl.busy = FALSE] ELSE s
<1>1. t \in States /\ t.svc = s.svc /\ t.mdl.filter = s.mdl.filter /\ Agree(t, a)
  BY DEF States, Models, Agree, HasNothing
<1>2. Refresh(s, manual) =
        IF t.mdl.busy THEN t
        ELSE IF HasNothing(t.mdl) THEN InitModel(t)
        ELSE UpdateOrInsert(SetCommonData(t), t.svc)
  BY DEF Refresh
<1> HIDE DEF t
<1>3. CASE t.mdl.busy
  BY <1>1, <1>2, <1>3
<1>4. CASE ~t.mdl.busy /\ HasNothing(t.mdl)
  <2> DEFINE r == [page |-> t.svc.page, limit |-> t.svc.limit, filter |-> t.svc.filter,
                   orders |-> t.svc.orders, swaps |-> t.svc.swaps, busy |-> t.mdl.busy,
                   stale |-> FALSE]
  <2>1. Refresh(s, manual) \in {t, [t EXCEPT !.mdl = r]}
    BY <1>2, <1>4 DEF InitModel
  <2>2. /\ r.page = t.svc.page /\ r.limit = t.svc.limit /\ r.filter = t.svc.filter
        /\ r.swaps = t.svc.swaps /\ r.busy = FALSE /\ r.stale = FALSE
    BY <1>4 DEF States, Models
  <2> HIDE DEF r
  <2>3. [t EXCEPT !.mdl = r].mdl = r /\ [t EXCEPT !.mdl = r].svc = t.svc
    BY <1>1 DEF States
  <2>4. Agree([t EXCEPT !.mdl = r], a)
    BY <1>1, <2>2, <2>3 DEF Agree
  <2> QED
    BY <1>1, <2>1, <2>2, <2>3, <2>4
<1>5. CASE ~t.mdl.busy /\ ~HasNothing(t.mdl)
  <2> DEFINE c == t.svc
             r == [t.mdl EXCEPT !.orders = c.orders, !.swaps = @ \cup c.swaps]
  <2>1. SetCommonData(t) = t
    BY <1>1, <1>5 DEF SetCommonData, SetLimit, SetCurrentPage, Agree
  <2>2. Refresh(s, manual) = [t EXCEPT !.mdl = r]
    BY <1>1, <1>2, <1>5, <2>1 DEF UpdateOrInsert, States, Models
  <2>3. /\ r.page = t.mdl.page /\ r.limit = t.mdl.limit /\ r.filter = t.mdl.filter
        /\ r.swaps = t.mdl.swaps \cup t.svc.swaps
        /\ r.busy = t.mdl.busy /\ r.stale = t.mdl.stale
    BY <1>1 DEF States, Models
  <2> HIDE DEF r
  <2>4. [t EXCEPT !.mdl = r].mdl = r /\ [t EXCEPT !.mdl = r].svc = t.svc
    BY <1>1 DEF States
  <2>5. r.page = t.svc.page /\ r.limit = t.svc.limit /\ ~r.busy /\ ~r.stale
    BY <1>1, <1>5, <2>3 DEF Agree
  <2>6. Agree([t EXCEPT !.mdl = r], a)
    BY <1>1, <2>3, <2>4, <2>5 DEF Agree
  <2> QED
    BY <1>1, <2>2, <2>3, <2>4, <2>6
<1> QED
  BY <1>3, <1>4, <1>5

LEMMA TickUncrossed == UInv /\ Tick => Uncrossed'
<1> SUFFICES ASSUME UInv, Tick, ~crossed' PROVE Agree(State', asked') /\ (mdl'.filter = svc'.filter \/ unsent')
  BY DEF Uncrossed
<1> DEFINE t == Refresh(State, Head(queue))
<1>1. State \in States /\ Head(queue) \in BOOLEAN
  BY StateType DEF Tick, UInv, TypeOK
<1>2. ~crossed /\ asked' = asked /\ unsent' = unsent
  BY DEF Tick
<1>3. Agree(State, asked) /\ (mdl.filter = svc.filter \/ unsent)
  BY <1>2 DEF UInv, Uncrossed
<1>4. Agree(t, asked) /\ t.svc = State.svc /\ t.mdl.filter \in {State.mdl.filter, State.svc.filter}
  BY <1>1, <1>3, RefreshAgrees
<1>5. svc' = t.svc /\ mdl' = t.mdl
  BY DEF Tick, Set
<1> HIDE DEF t
<1>6. State'.svc = t.svc /\ State'.mdl = t.mdl
  BY <1>5 DEF State
<1> QED
  BY <1>2, <1>3, <1>4, <1>5, <1>6 DEF Agree, State

(* An answer is for what was asked last, or it crosses.                    *)
LEMMA AnswerUncrossed ==
  ASSUME UInv, NEW i \in Slots, Answered(i)
  PROVE  Uncrossed'
<1> SUFFICES ASSUME ~crossed' PROVE Agree(State', asked') /\ (mdl'.filter = svc'.filter \/ unsent')
  BY DEF Uncrossed
<1> DEFINE f == flight[i]
<1>1. f \in Fetches
  BY DEF Answered, Flying, UInv, TypeOK, Idle
<1>2. PICK os \in {f.orders, open} :
        Store(i, Answer(f.page, f.limit, f.filter, os, Swaps(Asks(f))))
  BY DEF Answered
<1> DEFINE c == Answer(f.page, f.limit, f.filter, os, Swaps(Asks(f)))
<1>3. ~crossed /\ Asks(f) = asked
  BY <1>1 DEF Answered
<1>4. svc' = c /\ mdl' = mdl /\ asked' = asked /\ unsent' = unsent
  BY <1>2 DEF Store
<1>5. Asks(c) = asked /\ c.swaps \subseteq {asked}
  BY <1>3 DEF Answer, Asks, Request, Swaps
<1> HIDE DEF c, f
<1>6. State.svc = svc /\ State.mdl = mdl /\ State'.svc = c /\ State'.mdl = mdl
  BY <1>4 DEF State
<1>7. Agree(State, asked) /\ (mdl.filter = svc.filter \/ unsent)
  BY <1>3 DEF UInv, Uncrossed
<1>8. c.page = svc.page /\ c.limit = svc.limit /\ c.filter = svc.filter
  BY <1>5, <1>6, <1>7 DEF Agree, Asks, Request
<1>9. Agree(State', asked)
  BY <1>5, <1>6, <1>7, <1>8 DEF Agree
<1> QED
  BY <1>4, <1>7, <1>8, <1>9

LEMMA DisconnectUncrossed == UInv /\ Disconnect => Uncrossed'
<1> SUFFICES ASSUME UInv, Disconnect PROVE Uncrossed'
  OBVIOUS
<1> DEFINE r == ResetModel(State).mdl
<1>1. State \in States
  BY StateType DEF UInv
<1>2. HasNothing(r) /\ r.filter = State.mdl.filter
  BY <1>1, ResetModelEmpties
<1>3. svc' = Fresh /\ mdl' = r /\ asked' = Asks(Fresh) /\ unsent' = (mdl.filter # NoFilter)
  BY DEF Disconnect, Set
<1> HIDE DEF r
<1>4. State'.svc = Fresh /\ State'.mdl = r /\ State.mdl = mdl
  BY <1>3 DEF State
<1>5. Fresh.swaps = {} /\ Fresh.filter = NoFilter
  BY DEF Fresh, NoAnswer, Answer
<1>6. Agree(State', asked')
  BY <1>2, <1>3, <1>4, <1>5 DEF Agree, HasNothing
<1> QED
  BY <1>2, <1>3, <1>4, <1>5, <1>6 DEF Uncrossed

LEMMA InitUncrossed == Init => UInv
<1> SUFFICES ASSUME Init PROVE Uncrossed
  BY InitCorrect DEF IInv, UInv
<1>1. svc = Fresh /\ mdl = EmptyModel /\ asked = Asks(Fresh)
  BY DEF Init
<1>2. Fresh.swaps = {} /\ Fresh.filter = NoFilter
  BY DEF Fresh, NoAnswer, Answer
<1>3. HasNothing(EmptyModel) /\ EmptyModel.swaps = {} /\ EmptyModel.filter = NoFilter
  BY DEF EmptyModel, HasNothing
<1> QED
  BY <1>1, <1>2, <1>3 DEF Uncrossed, Agree, State

LEMMA StepUncrossed == IInv /\ UInv /\ [Next]_vars => UInv'
<1> SUFFICES ASSUME IInv, UInv, [Next]_vars PROVE Uncrossed'
  BY StepCorrect DEF IInv, UInv
<1>1. CASE UserPage \/ UserLimit \/ UserFilter \/ UserHistory
  BY <1>1, UserUncrossed
<1>2. CASE Disconnect
  BY <1>2, DisconnectUncrossed
<1>3. CASE Tick
  BY <1>3, TickUncrossed
<1>4. ASSUME UNCHANGED <<svc, mdl, asked, unsent>>, crossed' = crossed PROVE Uncrossed'
  BY <1>4 DEF UInv, Uncrossed, Agree, State
<1>5. CASE Periodic
  <2>1. State \in States /\ open \subseteq Orders
    BY StateType DEF UInv, TypeOK
  <2>2. Fetch(State, FALSE).svc = State.svc /\ Fetch(State, FALSE).mdl = State.mdl
    BY <2>1, FetchType
  <2>3. svc' = svc /\ mdl' = mdl
    BY <1>5, <2>2 DEF Periodic, Set, State
  <2> QED
    BY <1>4, <1>5, <2>3 DEF Periodic
<1>6. CASE OrdersChange
  BY <1>4, <1>6 DEF OrdersChange
<1>7. ASSUME NEW i \in Slots, Answered(i) \/ Refused(i) \/ Lost(i) PROVE Uncrossed'
  <2>1. CASE Answered(i)
    BY <2>1, AnswerUncrossed
  <2>2. CASE Refused(i)
    BY <2>2 DEF Refused, Uncrossed
  <2>3. CASE Lost(i)
    BY <1>4, <2>3 DEF Lost
  <2> QED
    BY <1>7, <2>1, <2>2, <2>3
<1>8. CASE UNCHANGED vars
  BY <1>4, <1>8 DEF vars
<1> QED
  BY <1>1, <1>2, <1>3, <1>5, <1>6, <1>7, <1>8 DEF Next

LEMMA UncrossedInvariant == Spec => []UInv
BY InitCorrect, StepCorrect, InitUncrossed, StepUncrossed, PTL DEF Spec

(* The view counts rows that are gone only under an empty page, while the  *)
(* list is busy, or after answers overtook each other.                     *)
THEOREM StaleCorrect == Spec => []StaleHasCause
<1>1. UInv => StaleHasCause
  BY DEF UInv, Uncrossed, Agree, State, StaleHasCause
<1> QED
  BY <1>1, UncrossedInvariant, PTL

(* Swaps of another request than the user's last are shown only after      *)
(* answers overtook each other.                                            *)
THEOREM ShownCorrect == Spec => []ShownIsAsked
<1>1. UInv => ShownIsAsked
  BY DEF UInv, Uncrossed, Agree, State, ShownIsAsked
<1> QED
  BY <1>1, UncrossedInvariant, PTL

(* The service fetches with the filter of the model, unless that was set   *)
(* outside of the history, or answers overtook each other.                 *)
THEOREM FilterCorrect == Spec => []FilterSent
<1>1. UInv => FilterSent
  BY DEF UInv, Uncrossed, FilterSent
<1> QED
  BY <1>1, UncrossedInvariant, PTL
=============================================================================
