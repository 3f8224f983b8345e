------------------------------- MODULE OrdersList -------------------------------
(***************************************************************************)
(* The list of orders and swaps.  kdf_service keeps one value, the last    *)
(* answer of the daemon with the page, limit and filter it was asked for;  *)
(* the next fetch, every five seconds, asks for the page of that value.    *)
(* orders_model keeps rows with a page, limit and filter of its own, which *)
(* the user changes and which the tick compares with the service's.        *)
(*                                                                         *)
(* Answers travel on pool threads and may overtake each other; the tick    *)
(* learns of an answer through a queue of booleans (was it a fetch for a   *)
(* change of page?) and reads whatever the service holds by then.          *)
(*                                                                         *)
(* The swaps of one answer are represented by what was asked for; the      *)
(* contents of rows, and the proxy's filter on rows, are left out.         *)
(***************************************************************************)
EXTENDS Integers, FiniteSets, Sequences

CONSTANTS
  Orders,        \* UUIDs of the user's open orders
  MaxPage,       \* pages of the history
  Limits,        \* rows per page
  DefaultLimit,  \* 50
  Filters,       \* filtering_infos: coins and dates
  NoFilter,
  Matching,      \* filters that some swap matches
  Slots,         \* bound: fetches in flight
  MaxQueue,      \* bound: no new fetch or command while the tick has more events to handle
  MaxCommands,   \* bound: commands of the user
  MaxFaults,     \* bound: lost and refused answers
  MaxChanges     \* bound: changes of the open orders

ASSUME OrdersAssumption ==
  /\ MaxPage \in Nat \ {0}
  /\ DefaultLimit \in Limits
  /\ NoFilter \in Filters
  /\ {MaxQueue, MaxCommands, MaxFaults, MaxChanges} \subseteq Nat

VARIABLES
  svc,        \* kdf_service::m_orders_and_swaps
  flight,     \* the fetches in flight
  queue,      \* application::m_actions_queue
  mdl,        \* orders_model: m_model_data, m_fetching_busy, and what the view knows of it
  inHistory,  \* orders_proxy_model::m_is_history
  open,       \* the daemon's open orders
  asked,      \* history: what the user asked for last
  crossed,    \* history: an answer was for something else, or without swaps
  unsent,     \* history: a filter of the model was not sent to the service
  commands, faults, changes

vars == <<svc, flight, queue, mdl, inHistory, open, asked, crossed, unsent, commands, faults, changes>>
counters == <<commands, faults, changes>>

-----------------------------------------------------------------------------
Pages == 1 .. MaxPage
Requests == [page : Pages, limit : Limits, filter : Filters]
Request(p, l, f) == [page |-> p, limit |-> l, filter |-> f]
Asks(x) == Request(x.page, x.limit, x.filter)

(* orders_and_swaps: a request, and the orders and swaps of its answer.    *)
Contents == [page : Pages, limit : Limits, filter : Filters, orders : SUBSET Orders, swaps : SUBSET Requests]
Answer(p, l, f, os, ss) == [page |-> p, limit |-> l, filter |-> f, orders |-> os, swaps |-> ss]
NoAnswer(p, l, f) == Answer(p, l, f, {}, {})
Fresh == NoAnswer(1, DefaultLimit, NoFilter)
HasNothing(c) == c.orders = {} /\ c.swaps = {}

(* The swaps the daemon answers with.                                      *)
Swaps(r) == IF r.filter \in Matching THEN {r} ELSE {}

Idle == [pc |-> "idle"]
Fetches == [pc : {"sent"}, page : Pages, limit : Limits, filter : Filters, orders : SUBSET Orders, manual : BOOLEAN]
Flying(i) == flight[i].pc = "sent"

Models == [page : Pages, limit : Limits, filter : Filters, orders : SUBSET Orders, swaps : SUBSET Requests,
           busy : BOOLEAN, stale : BOOLEAN]
EmptyModel == [page |-> 1, limit |-> DefaultLimit, filter |-> NoFilter, orders |-> {}, swaps |-> {},
               busy |-> FALSE, stale |-> FALSE]

Init ==
  /\ svc = Fresh /\ mdl = EmptyModel /\ asked = Asks(Fresh)
  /\ flight = [i \in Slots |-> Idle] /\ queue = <<>>
  /\ inHistory = FALSE /\ open \in SUBSET Orders
  /\ crossed = FALSE /\ unsent = FALSE
  /\ commands = 0 /\ faults = 0 /\ changes = 0

-----------------------------------------------------------------------------
(* Both sides together: s.svc, s.flight and s.mdl.  A command that fetches *)
(* twice sends both requests before it returns.                            *)
State == [svc |-> svc, flight |-> flight, mdl |-> mdl]
Set(s) == svc' = s.svc /\ flight' = s.flight /\ mdl' = s.mdl

FreeSlots(fl) == {i \in Slots : fl[i] = Idle}

(* batch_fetch_orders_and_swap reads page, limit and filter of the service. *)
(* The record keeps the orders of this moment: the daemon may serve the    *)
(* request now or later.                                                   *)
Fetch(s, manual) ==
  LET i == CHOOSE j \in FreeSlots(s.flight) : TRUE IN
  [s EXCEPT !.flight[i] = [pc |-> "sent", page |-> s.svc.page, limit |-> s.svc.limit, filter |-> s.svc.filter,
                           orders |-> open, manual |-> manual]]

(* set_orders_and_swaps_pagination_infos.                                  *)
SetPagination(s, p) ==
  Fetch([s EXCEPT !.svc = NoAnswer(p, s.mdl.limit, s.mdl.filter)], TRUE)

SetBusy(s) == [s EXCEPT !.mdl.busy = TRUE]

(* Mutant: the rows of the page before stay.                               *)
ResetBackendKeepsRows(s) == [s EXCEPT !.mdl.page = 1]

(* reset_backend: no signal is emitted, so the view goes on counting rows. *)
ResetBackend(s) ==
  [s EXCEPT !.mdl.page = 1, !.mdl.orders = {}, !.mdl.swaps = {},
            !.mdl.stale = @ \/ s.mdl.orders \cup s.mdl.swaps # {}]

(* reset: between beginResetModel and endResetModel.                       *)
ResetModel(s) ==
  [ResetBackend(s) EXCEPT !.mdl.stale = FALSE, !.mdl.busy = FALSE]

SetCurrentPage(s, p) ==
  IF p = s.mdl.page THEN s
  ELSE SetPagination(ResetBackend(SetBusy(s)), p)

SetLimit(s, l) ==
  IF l = s.mdl.limit THEN s
  ELSE LET t == [s EXCEPT !.mdl.limit = l] IN
       IF s.mdl.page = 1 THEN SetPagination(ResetBackend(SetBusy(t)), 1)
       ELSE SetCurrentPage(t, 1)

(* set_filtering_infos.  Note that reset clears the busy flag again.       *)
SetFilter(s, f) ==
  LET t == [s EXCEPT !.mdl.filter = f] IN
  IF s.mdl.busy THEN s
  ELSE IF s.mdl.page = 1 /\ inHistory THEN SetPagination(ResetModel(SetBusy(t)), 1)
  ELSE SetCurrentPage(t, 1)

-----------------------------------------------------------------------------
(* refresh_or_insert, in the tick.                                         *)

(* Mutant: the view is not told that all rows are new.                     *)
InitModelSilently(s) ==
  LET c == s.svc IN
  IF HasNothing(c) THEN s
  ELSE [s EXCEPT !.mdl = [page |-> c.page, limit |-> c.limit, filter |-> c.filter, orders |-> c.orders,
                          swaps |-> c.swaps, busy |-> s.mdl.busy, stale |-> s.mdl.stale]]

(* init_model: nothing at all for an answer without rows.                  *)
InitModel(s) ==
  LET c == s.svc IN
  IF HasNothing(c) THEN s
  ELSE [s EXCEPT !.mdl = [page |-> c.page, limit |-> c.limit, filter |-> c.filter, orders |-> c.orders,
                          swaps |-> c.swaps, busy |-> s.mdl.busy, stale |-> FALSE]]

(* set_common_data: a limit or a page that differs is set as the user      *)
(* would set it, which clears the rows and fetches.                        *)
SetCommonData(s) ==
  LET c == s.svc IN SetCurrentPage(SetLimit(s, c.limit), c.page)

(* Mutant: orders that are gone stay in the list.                          *)
UpdateOrInsertOnly(s, c) ==
  [s EXCEPT !.mdl.orders = @ \cup c.orders, !.mdl.swaps = @ \cup c.swaps]

(* update_or_insert_orders removes the orders that are gone;               *)
(* update_or_insert_swaps only adds.                                       *)
UpdateOrInsert(s, c) ==
  [s EXCEPT !.mdl.orders = c.orders, !.mdl.swaps = @ \cup c.swaps]

(* Mutant: a change of page does not end.                                  *)
RefreshStaysBusy(s, manual) ==
  IF s.mdl.busy THEN s
  ELSE IF HasNothing(s.mdl) THEN InitModel(s)
  ELSE UpdateOrInsert(SetCommonData(s), s.svc)

(* refresh_or_insert.                                                      *)
Refresh(s, manual) ==
  LET t == IF manual THEN [s EXCEPT !.mdl.busy = FALSE] ELSE s IN
  IF t.mdl.busy THEN t
  ELSE IF HasNothing(t.mdl) THEN InitModel(t)
  ELSE UpdateOrInsert(SetCommonData(t), t.svc)

-----------------------------------------------------------------------------
(* The user.  A command that changes the service is what was asked last.   *)
Command(s) ==
  /\ commands < MaxCommands /\ Cardinality(FreeSlots(flight)) > 1 /\ Len(queue) < MaxQueue
  /\ commands' = commands + 1
  /\ Set(s)
  /\ asked' = IF s.flight # flight THEN Asks(s.svc) ELSE asked
  /\ UNCHANGED <<queue, open, crossed, faults, changes>>

(* The paginator, which is not disabled while a page is fetched.           *)
UserPage ==
  /\ \E p \in Pages : p # mdl.page /\ Command(SetCurrentPage(State, p))
  /\ UNCHANGED <<inHistory, unsent>>

UserLimit ==
  /\ \E l \in Limits : l # mdl.limit /\ Command(SetLimit(State, l))
  /\ UNCHANGED <<inHistory, unsent>>

(* Mutant: the page is not fetched again.                                  *)
UserFilterUnsent ==
  /\ \E f \in Filters : f # mdl.filter /\ Command([State EXCEPT !.mdl.filter = f])
  /\ UNCHANGED <<inHistory, unsent>>

(* apply_all_filtering; on the first page it fetches only in the history.  *)
UserFilter ==
  /\ \E f \in Filters : f # mdl.filter /\ Command(SetFilter(State, f))
  /\ unsent' = (unsent \/ (~mdl.busy /\ mdl.page = 1 /\ ~inHistory))
  /\ UNCHANGED inHistory

(* orders_proxy_model::set_is_history.                                     *)
UserHistory ==
  /\ inHistory' = ~inHistory
  /\ Command(IF inHistory THEN State ELSE SetCurrentPage(State, 1))
  /\ UNCHANGED unsent

(* application::disconnect, and a new kdf_service at the next login.  The  *)
(* model keeps its limit and its filter.                                   *)
Disconnect ==
  /\ commands < MaxCommands /\ commands' = commands + 1
  /\ queue' = <<>>
  /\ Set([svc |-> Fresh, flight |-> [i \in Slots |-> Idle], mdl |-> ResetModel(State).mdl])
  /\ asked' = Asks(Fresh) /\ crossed' = FALSE
  /\ unsent' = (mdl.filter # NoFilter)
  /\ UNCHANGED <<inHistory, open, faults, changes>>

-----------------------------------------------------------------------------
(* The fetch of kdf_service::update, and those after a trade.              *)
Periodic ==
  /\ Cardinality(FreeSlots(flight)) > 2 /\ Len(queue) < MaxQueue
  /\ Set(Fetch(State, FALSE))
  /\ UNCHANGED <<queue, inHistory, open, asked, crossed, unsent, counters>>

(* An answer of my_recent_swaps without a result leaves the page at 1.     *)
RefusedPage(f) == 1

(* A pool thread stores an answer and triggers                             *)
(* process_swaps_and_orders_finished.                                      *)
Store(i, c) ==
  /\ Flying(i)
  /\ svc' = c
  /\ queue' = Append(queue, flight[i].manual)
  /\ flight' = [flight EXCEPT ![i] = Idle]
  /\ UNCHANGED <<mdl, inHistory, open, asked, unsent, commands, changes>>

Answered(i) ==
  LET f == flight[i] IN
  /\ Flying(i)
  /\ \E os \in {f.orders, open} : Store(i, Answer(f.page, f.limit, f.filter, os, Swaps(Asks(f))))
  /\ crossed' = (crossed \/ Asks(f) # asked)
  /\ UNCHANGED faults

Refused(i) ==
  LET f == flight[i] IN
  /\ Flying(i) /\ faults < MaxFaults
  /\ faults' = faults + 1
  /\ Store(i, Answer(RefusedPage(f), f.limit, f.filter, open, {}))
  /\ crossed' = TRUE

(* No answer, or one that is no JSON array: nobody is told.                *)
Lost(i) ==
  /\ Flying(i) /\ faults < MaxFaults
  /\ faults' = faults + 1
  /\ flight' = [flight EXCEPT ![i] = Idle]
  /\ UNCHANGED <<svc, queue, mdl, inHistory, open, asked, crossed, unsent, commands, changes>>

(* application::tick.                                                      *)
Tick ==
  /\ queue # <<>> /\ Cardinality(FreeSlots(flight)) > 1
  /\ queue' = Tail(queue)
  /\ Set(Refresh(State, Head(queue)))
  /\ UNCHANGED <<inHistory, open, asked, crossed, unsent, counters>>

OrdersChange ==
  /\ changes < MaxChanges /\ changes' = changes + 1
  /\ open' \in SUBSET Orders /\ open' # open
  /\ UNCHANGED <<svc, flight, queue, mdl, inHistory, asked, crossed, unsent, commands, faults>>

Next ==
  \/ UserPage \/ UserLimit \/ UserFilter \/ UserHistory \/ Disconnect
  \/ Periodic \/ Tick \/ OrdersChange
  \/ \E i \in Slots : Answered(i) \/ Refused(i) \/ Lost(i)

Spec == Init /\ [][Next]_vars

(* The clock and the tick come round, and every request ends somehow.      *)
Fairness ==
  /\ WF_vars(Periodic) /\ WF_vars(Tick)
  /\ \A i \in Slots : WF_vars(Answered(i) \/ Lost(i))
FairSpec == Spec /\ Fairness

-----------------------------------------------------------------------------
(* Types; what is in flight has the page of a request.                     *)
TypeOK ==
  /\ svc \in Contents /\ mdl \in Models /\ asked \in Requests
  /\ flight \in [Slots -> {Idle} \cup Fetches]
  /\ queue \in Seq(BOOLEAN)
  /\ inHistory \in BOOLEAN /\ open \subseteq Orders
  /\ crossed \in BOOLEAN /\ unsent \in BOOLEAN
  /\ commands \in 0 .. MaxCommands /\ faults \in 0 .. MaxFaults /\ changes \in 0 .. MaxChanges

(* The list is disabled, and no answer shown, only while a fetch for a     *)
(* change of page is in flight or waits for the tick, or after one was     *)
(* lost: then it stays so until the next change of page.                   *)
BusyHasCause ==
  mdl.busy =>
    \/ \E i \in Slots : Flying(i) /\ flight[i].manual
    \/ \E n \in 1 .. Len(queue) : queue[n]
    \/ faults > 0

(* The view counts rows the model no longer has, while the list is not     *)
(* busy, only if the page has no rows at all (init_model emits nothing     *)
(* then: blank rows stay on the screen) or answers overtook each other.    *)
StaleHasCause ==
  mdl.stale /\ ~mdl.busy => HasNothing(mdl) \/ crossed

(* Swaps of another page, limit or filter than the user asked for last are *)
(* shown only after answers overtook each other.                           *)
ShownIsAsked ==
  ~mdl.busy => mdl.swaps \subseteq {asked} \/ crossed

(* The filter the model shows is the one the service fetches with, unless  *)
(* it was applied outside of the history, left by the session before, or   *)
(* answers overtook each other.                                            *)
FilterSent ==
  mdl.filter = svc.filter \/ unsent \/ crossed

(* In the end the list shows the open orders and the swaps that were asked *)
(* for, unless an answer was lost or overtaken.  (Two changes of page in   *)
(* quick succession can make the model and the service fetch pages for     *)
(* ever: SetCommonData clears the label of the page it has just asked for.) *)
ListShown ==
  \/ <>[](~mdl.busy /\ mdl.orders = open /\ mdl.swaps = Swaps(asked))
  \/ <>(crossed \/ faults > 0)
=============================================================================
