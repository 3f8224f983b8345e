--------------------------- MODULE OrderbookSync ---------------------------
(***************************************************************************)
(* The orderbook of the selected pair, from the market selectors of the    *)
(* trading page to the rows on screen.                                     *)
(*                                                                         *)
(* The main thread owns the selectors, the synchronised pair, the rows and *)
(* the periodic fetch of kdf_service::update.  Each answered orderbook RPC *)
(* runs a callback on a pool thread, in steps that other threads see one   *)
(* by one: it sends the batch of extras (max_taker_vol, min_trading_vol)   *)
(* when its request was a reset, stores the book, and pushes an action the *)
(* main thread takes on a later tick.                                      *)
(*                                                                         *)
(* Volumes, forms, best orders and the choice between replacing the rows   *)
(* and merging them are left out.                                          *)
(***************************************************************************)
EXTENDS Integers, FiniteSets

CONSTANTS
  Pairs,        \* <<base, rel>> tickers the user may select
  NoPair,
  Primary,      \* DEX_PRIMARY_COIN
  Second,       \* DEX_SECOND_PRIMARY_COIN
  WalletOnly,   \* coins that cannot be traded
  MaxRequests,  \* bound: orderbook callbacks in flight
  MaxActions,   \* bound: actions waiting in the queue of the trading page
  MaxResets     \* bound: requests sent as a reset

DefaultPair == <<Primary, Second>>
FallbackPair == <<Second, Primary>>

ASSUME PairsAssumption ==
  /\ {DefaultPair, FallbackPair} \subseteq Pairs
  /\ NoPair \notin Pairs
  /\ Second \notin WalletOnly
  /\ MaxRequests \in Nat
  /\ MaxActions \in Nat
  /\ MaxResets \in Nat

VARIABLES
  selected,     \* market_pairs: left and right selected coins
  mode,         \* m_current_trading_mode
  shown,        \* the pair of the rows of the bids and asks models
  actions,      \* how many actions m_actions_queue holds
  running,      \* m_kdf_running
  active,       \* m_orderbook_thread_active
  synced,       \* m_synchronized_ticker_pair
  book,         \* the pair of m_orderbook
  requests,     \* the orderbook RPCs in flight and their callbacks
  resets,       \* history: changes of pair and refreshes of the orders model
                \* since login
  extrasTotal   \* history: extras batches sent since login

vars == <<selected, mode, shown, actions, running, active, synced, book, requests,
          resets, extrasTotal>>

pageVars == <<selected, mode, shown, actions>>
histVars == <<resets, extrasTotal>>

-----------------------------------------------------------------------------
Slots == 1 .. MaxRequests
Modes == {"Pro", "Simple"}

Requests == [stage : {"free", "sent", "extras", "store", "push"},
             pair : Pairs \cup {NoPair}, reset : BOOLEAN]
Free == [stage |-> "free", pair |-> NoPair, reset |-> FALSE]

Init ==
  /\ selected = NoPair /\ mode \in Modes /\ shown = NoPair /\ actions = 0
  /\ running = FALSE /\ active = FALSE
  /\ synced = DefaultPair /\ book = NoPair
  /\ requests = [i \in Slots |-> Free]
  /\ resets = 0 /\ extrasTotal = 0

(* prepare_orderbook: the RPC asks for the pair synchronised at this time. *)
Send(pair, reset) ==
  \E i \in Slots :
    /\ requests[i] = Free
    /\ \A j \in Slots : j < i => requests[j] # Free
    /\ requests' = [requests EXCEPT ![i] = [stage |-> "sent", pair |-> pair, reset |-> reset]]

CountReset == resets < MaxResets /\ resets' = resets + 1

-----------------------------------------------------------------------------
(* Main thread.                                                            *)

(* Login ends with the KDF daemon up.                                      *)
Start ==
  /\ ~running
  /\ running' = TRUE
  /\ UNCHANGED <<pageVars, active, synced, book, requests, histVars>>

(* application::disconnect empties the selectors and replaces the KDF      *)
(* service by a new one; the client of the old one cancels its calls.  The *)
(* queue of actions and the rows of the trading page stay.                 *)
Logout ==
  /\ running
  /\ running' = FALSE /\ active' = FALSE
  /\ selected' = NoPair /\ synced' = DefaultPair /\ book' = NoPair
  /\ requests' = [i \in Slots |-> Free]
  /\ resets' = 0 /\ extrasTotal' = 0
  /\ UNCHANGED <<mode, shown, actions>>

(* on_refresh_orderbook_model_data: a reset only when the pair changes.    *)
RefreshData(pair) ==
  LET reset == pair # synced
  IN  /\ synced' = pair
      /\ IF running THEN Send(pair, reset) ELSE UNCHANGED requests
      /\ IF reset THEN CountReset ELSE UNCHANGED resets
      /\ UNCHANGED extrasTotal

(* set_current_orderbook, from the selectors, a swap of the pair, a best   *)
(* order or (with the pair already selected) a change of market mode.      *)
SetCurrentOrderbook(pair) ==
  /\ pair[1] \notin WalletOnly
  /\ selected' = pair
  /\ shown' = IF pair # selected /\ mode # "Simple" THEN NoPair ELSE shown
  /\ RefreshData(pair)
  /\ UNCHANGED <<mode, actions, running, active, book>>

(* Mutant: the selectors move without a set_current_orderbook.             *)
DisableCoinSilently(coin) ==
  /\ selected # NoPair
  /\ coin \in {selected[1], selected[2]} \ {Primary, Second}
  /\ selected' = FallbackPair
  /\ UNCHANGED <<mode, shown, actions, running, active, synced, book, requests, histVars>>

(* trading_page::disable_coins with one coin, never a default one: when it *)
(* is in the pair, the selectors already hold the fallback pair when       *)
(* set_current_orderbook compares them with it, and nothing is cleared.    *)
DisableCoin(coin) ==
  LET pair == IF coin \in {selected[1], selected[2]} THEN FallbackPair ELSE selected
  IN  /\ selected # NoPair
      /\ coin \notin {Primary, Second}
      /\ pair[1] \notin WalletOnly
      /\ selected' = pair
      /\ RefreshData(pair)
      /\ UNCHANGED <<mode, shown, actions, running, active, book>>

(* set_current_trading_mode: set_market_mode(Sell) selects the same pair   *)
(* again when the page was in Buy mode.                                    *)
SetTradingMode ==
  /\ mode' \in Modes \ {mode}
  /\ \/ UNCHANGED <<synced, requests, histVars>>
     \/ /\ selected # NoPair
        /\ selected[1] \notin WalletOnly
        /\ RefreshData(selected)
  /\ UNCHANGED <<selected, shown, actions, running, active, book>>

(* The dashboard selects a pair when it opens the page: set_pair falls back*)
(* to the default one, so a pair is selected by the time of the event.     *)
EnterTrading ==
  /\ selected # NoPair
  /\ running
  /\ active' = TRUE
  /\ UNCHANGED <<pageVars, running, synced, book, requests, histVars>>

LeaveTrading ==
  /\ active' = FALSE
  /\ UNCHANGED <<pageVars, running, synced, book, requests, histVars>>

(* Mutants: the tick asks as for a new pair; it asks only for a first book.*)
FetchAsReset ==
  /\ running /\ active
  /\ Send(synced, TRUE)
  /\ UNCHANGED <<pageVars, running, active, synced, book, histVars>>
FetchOnlyFirst ==
  /\ running /\ active /\ book = NoPair
  /\ Send(synced, FALSE)
  /\ UNCHANGED <<pageVars, running, active, synced, book, histVars>>

(* kdf_service::update, every 5 s.                                         *)
FetchCurrentOrderbook ==
  /\ running
  /\ active
  /\ Send(synced, FALSE)
  /\ UNCHANGED <<pageVars, running, active, synced, book, histVars>>

(* orders_model::refresh_or_insert, in the tick: a swap whose status       *)
(* changed, or rows that were inserted, ask as for a new pair, whatever is *)
(* selected and whether or not the page is open.                           *)
OrdersRefreshed ==
  /\ running
  /\ Send(synced, TRUE)
  /\ CountReset
  /\ UNCHANGED <<pageVars, running, active, synced, book, extrasTotal>>

(* Mutant: the book is not compared with the pair.                         *)
GetAnyOrderbook == book # NoPair

(* get_orderbook: an error when no book is stored, or one of another left  *)
(* coin.  The comparison has the right coin of the synchronised pair on    *)
(* both of its sides.                                                      *)
GetOrderbook == book # NoPair /\ book[1] = synced[1]

(* One action per tick; it is consumed whether or not there is a book.     *)
ProcessAction ==
  /\ actions > 0
  /\ actions' = actions - 1
  /\ shown' = IF running /\ GetOrderbook THEN book ELSE shown
  /\ UNCHANGED <<selected, mode, running, active, synced, book, requests, histVars>>

-----------------------------------------------------------------------------
(* Pool threads: the callbacks of prepare_orderbook.                       *)

Go(i, stage) == requests' = [requests EXCEPT ![i] =
                  [stage |-> stage, pair |-> requests[i].pair, reset |-> requests[i].reset]]

AnswerOk(i) ==
  /\ requests[i].stage = "sent"
  /\ Go(i, IF requests[i].reset THEN "extras" ELSE "store")
  /\ UNCHANGED <<pageVars, running, active, synced, book, histVars>>

(* An rpc error, an answer that is no JSON, a transport error or the 30 s  *)
(* timeout of the client: nothing happens, and nothing asks again.         *)
AnswerFailed(i) ==
  /\ requests[i].stage = "sent"
  /\ requests' = [requests EXCEPT ![i] = Free]
  /\ UNCHANGED <<pageVars, running, active, synced, book, histVars>>

(* The batch of a reset is built from the pair synchronised by now.        *)
SendExtras(i) ==
  /\ requests[i].stage = "extras"
  /\ extrasTotal' = extrasTotal + 1
  /\ Go(i, "store")
  /\ UNCHANGED <<pageVars, running, active, synced, book, resets>>

StoreBook(i) ==
  /\ requests[i].stage = "store"
  /\ book' = requests[i].pair
  /\ Go(i, "push")
  /\ UNCHANGED <<pageVars, running, active, synced, histVars>>

(* trading_page::on_process_orderbook_finished_event.                      *)
PushAction(i) ==
  /\ requests[i].stage = "push"
  /\ actions < MaxActions
  /\ actions' = actions + 1
  /\ requests' = [requests EXCEPT ![i] = Free]
  /\ UNCHANGED <<selected, mode, shown, running, active, synced, book, histVars>>

(* Cancelled orders: the callback of the cancel asks for the book again,   *)
(* without looking whether the page is open.                               *)
OrdersCancelled ==
  /\ running
  /\ Send(synced, FALSE)
  /\ UNCHANGED <<pageVars, running, active, synced, book, histVars>>

(* The scanner of best orders triggers the same event when it is answered. *)
ScannerFinished ==
  /\ running
  /\ actions < MaxActions
  /\ actions' = actions + 1
  /\ UNCHANGED <<selected, mode, shown, running, active, synced, book, requests, histVars>>

-----------------------------------------------------------------------------
Select == \E p \in Pairs : SetCurrentOrderbook(p)
Disable == \E p \in Pairs : \E c \in {p[1], p[2]} : DisableCoin(c)
Callback(i) == SendExtras(i) \/ StoreBook(i) \/ PushAction(i)

Next ==
  \/ Start \/ Logout
  \/ Select \/ Disable \/ SetTradingMode
  \/ EnterTrading \/ LeaveTrading
  \/ FetchCurrentOrderbook \/ OrdersRefreshed \/ OrdersCancelled
  \/ ProcessAction \/ ScannerFinished
  \/ \E i \in Slots : AnswerOk(i) \/ AnswerFailed(i) \/ Callback(i)

Spec == Init /\ [][Next]_vars

(* The tick and its 5 s clock run for ever, callbacks finish, and a KDF    *)
(* that is asked again and again answers now and then.  A callback blocks  *)
(* on nothing but the bound of the queue, hence its strong fairness.       *)
Fairness ==
  /\ WF_vars(FetchCurrentOrderbook) /\ WF_vars(ProcessAction)
  /\ \A i \in Slots : SF_vars(Callback(i)) /\ SF_vars(AnswerOk(i))

FairSpec == Spec /\ Fairness

-----------------------------------------------------------------------------
TypeOK ==
  /\ selected \in Pairs \cup {NoPair}
  /\ mode \in Modes
  /\ shown \in Pairs \cup {NoPair}
  /\ actions \in 0 .. MaxActions
  /\ running \in BOOLEAN /\ active \in BOOLEAN
  /\ synced \in Pairs
  /\ book \in Pairs \cup {NoPair}
  /\ requests \in [Slots -> Requests]
  /\ resets \in 0 .. MaxResets
  /\ extrasTotal \in Nat
-----------------------------------------------------------------------------
View == INSTANCE OrderbookView
          WITH Default <- DefaultPair, open <- running /\ active /\ selected # NoPair

(* The rows put on screen are those of a pair with the left coin of the    *)
(* selected one, or of the default pair before the first selection,        *)
(* however late the answers of earlier pairs arrive (get_orderbook's       *)
(* comparison of the book with the synchronised pair).                     *)
ViewSafe == View!SafeSpec

(* In addition an open page shows its pair in the end, although requests   *)
(* fail and answers of other pairs overwrite the stored book.              *)
ViewImplemented == View!Spec

(* The service works on the pair of the selectors, although the page, the  *)
(* service and the login each reset their part on their own.  From a logout*)
(* to the next selection it works on the default pair: what the orders and *)
(* cancelled orders ask for, and the book stored for them, is of that pair *)
(* and never of one selected before the logout.                            *)
ServiceFollowsSelectors ==
  IF selected = NoPair
    THEN /\ ~active /\ synced = DefaultPair
         /\ book \in {NoPair, DefaultPair}
         /\ \A i \in Slots : requests[i] = Free \/ requests[i].pair = DefaultPair
    ELSE synced = selected


(* "guarding against re-sending it on the periodic orderbook tick"         *)
(* (kdf.service.cpp:2838): each batch of extras has a cause of its own, a  *)
(* change of pair or of the orders and swaps; the periodic fetch, a change *)
(* of mode, a cancelled order and a late answer send none.                 *)
ExtrasPerReset == extrasTotal <= resets
=============================================================================
