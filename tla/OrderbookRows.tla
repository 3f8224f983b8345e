--------------------------- MODULE OrderbookRows ---------------------------
(***************************************************************************)
(* The rows of two of the orderbook models of the trading page, the bids   *)
(* of the selected pair and the best orders, with the order preferred in   *)
(* the form.  An answer replaces the rows (a reset) or is merged into them *)
(* order by order through a registry of UUIDs; a merge into the bids tells *)
(* the seller when the preferred order is gone or a better one is there.   *)
(*                                                                         *)
(* Everything runs on the main thread.  OrderbookSync says which answers   *)
(* come, BestOrders which data the scanner holds: any may come here.  The  *)
(* asks (the bids without notices), volumes, fees and the order in which   *)
(* the proxies sort are left out.                                          *)
(***************************************************************************)
EXTENDS Integers, Sequences, SequencesExt

CONSTANTS
  Ids,          \* UUIDs of orders
  Coins,        \* right coins of the pairs the orders are for
  Prices,       \* a higher price is a better one for a seller
  BidAnswers,   \* bids of orderbook answers: sequences of orders, no UUID twice
  BestAnswers,  \* best orders answers: a UUID comes once per coin
  NoOrder

Orders == [id : Ids, coin : Coins, price : Prices]
IdsOf(rows) == {rows[i].id : i \in DOMAIN rows}

ASSUME RowsAssumption ==
  /\ Prices \subseteq Nat /\ NoOrder \notin Orders
  /\ BidAnswers \cup BestAnswers \subseteq Seq([id : Ids, coin : Coins, price : Prices])
  /\ \A a \in BidAnswers : IsInjective([i \in DOMAIN a |-> a[i].id])

VARIABLES
  bids,         \* m_model_data and m_orders_id_registry of the bids
  best,         \* the same of the best orders
  found,        \* m_best_orders_infos of the scanner
  right,        \* right selected coin
  view,         \* m_current_trading_mode
  mode,         \* m_market_mode
  preferred,    \* m_preferred_order
  pending,      \* m_selected_best_order
  notice,       \* m_selected_order_status
  latest,       \* history: the bids answer the rows stand for
  bestLatest,   \* history: the best orders answer the rows stand for
  twins,        \* history: UUIDs that had two rows in the best orders at the last reset
  watched,      \* history: the preferred order was in the bids since they were replaced
  carried       \* history: the preferred order was chosen for another right coin

vars == <<bids, best, found, right, view, mode, preferred, pending, notice, latest,
          bestLatest, twins, watched, carried>>
bidVars == <<bids, latest>>
bestVars == <<best, bestLatest, twins>>
formVars == <<preferred, notice, watched, carried>>

Notices == {"None", "BetterPriceAvailable", "OrderNotExistingAnymore"}
Lists == [rows : Seq(Orders), ids : SUBSET Ids]
Empty == [rows |-> << >>, ids |-> {}]

-----------------------------------------------------------------------------
(* The model of a list of orders.                                          *)

(* reset_orderbook.                                                        *)
Filled(answer) == [rows |-> answer, ids |-> IdsOf(answer)]

(* match: the first row of the UUID.                                       *)
RowOf(rows, id) ==
  CHOOSE i \in DOMAIN rows : rows[i].id = id /\ \A j \in 1 .. i - 1 : rows[j].id # id

(* check_for_better_order: any row, the one about to be removed included.  *)
Told(rows, wanted) ==
  IF \E i \in DOMAIN rows : rows[i].price > wanted.price
    THEN "BetterPriceAvailable" ELSE "OrderNotExistingAnymore"

(* update_order: the volumes and the price, never the coin.  wanted is the *)
(* preferred order when a seller is to be told, NoOrder otherwise.         *)
Updated(merge, order, wanted) ==
  LET i == RowOf(merge.rows, order.id)
      rows == [merge.rows EXCEPT ![i].price = order.price]
      changed == merge.rows[i].price # order.price
  IN  [merge EXCEPT
        !.rows = rows,
        !.notice =
          IF wanted = NoOrder \/ ~changed THEN @
          ELSE IF order.price > wanted.price THEN "BetterPriceAvailable"
          ELSE IF order.id = wanted.id THEN Told(rows, wanted)
          ELSE @]

(* initialize_order of an order that is not registered.                    *)
Inserted(merge, order, wanted) ==
  [rows |-> Append(merge.rows, order), ids |-> merge.ids \cup {order.id},
   notice |-> IF wanted # NoOrder /\ order.price > wanted.price
                THEN "BetterPriceAvailable" ELSE merge.notice]

(* Mutant: the updates are skipped.                                        *)
MergeNewOnly(merge, order, wanted) ==
  IF order.id \in merge.ids THEN merge ELSE Inserted(merge, order, wanted)

(* Mutant: an inserted order is not compared with the preferred one.       *)
MergeUntold(merge, order, wanted) ==
  IF order.id \in merge.ids THEN Updated(merge, order, wanted)
                            ELSE Inserted(merge, order, NoOrder)

MergeOne(merge, order, wanted) ==
  IF order.id \in merge.ids THEN Updated(merge, order, wanted)
                            ELSE Inserted(merge, order, wanted)

(* Removes one row of each UUID.                                           *)
Without(rows, ids) ==
  LET kept == {i \in DOMAIN rows : rows[i].id \notin ids \/ i # RowOf(rows, rows[i].id)}
  IN  [n \in 1 .. Cardinality(kept) |->
        rows[CHOOSE i \in kept : Cardinality({j \in kept : j <= i}) = n]]

(* Mutant: the removal of the preferred order is not looked at.            *)
NoticeKept(merge, gone, before, wanted) == merge.notice

(* Mutant: the fourth status of the enumeration.                           *)
NoticeChanged(merge, gone, before, wanted) ==
  IF wanted # NoOrder /\ wanted.id \in gone THEN "DataChanged" ELSE merge.notice

(* The deletions go through the registry in no particular order: before    *)
(* are the orders removed before the preferred one.                        *)
NoticeOf(merge, gone, before, wanted) ==
  IF wanted # NoOrder /\ wanted.id \in gone
    THEN Told(Without(merge.rows, before), wanted) ELSE merge.notice

(* The orders of the answer, one after the other.                          *)
MergeAll(start, answer, wanted) ==
  LET merge[n \in 0 .. Len(answer)] ==
        IF n = 0 THEN start ELSE MergeOne(merge[n - 1], answer[n], wanted)
  IN  merge[Len(answer)]

(* refresh_orderbook_model_data: the merged lists it can leave.            *)
Merged(list, answer, wanted) ==
  LET merge == MergeAll([rows |-> list.rows, ids |-> list.ids, notice |-> notice], answer, wanted)
      gone == merge.ids \ IdsOf(answer)
  IN  {[rows |-> Without(merge.rows, gone), ids |-> merge.ids \ gone,
        notice |-> NoticeOf(merge, gone, before, wanted)] :
          before \in {ids \in SUBSET gone : wanted = NoOrder \/ wanted.id \notin ids}}

-----------------------------------------------------------------------------
Init ==
  /\ bids = Empty /\ best = Empty /\ found = << >>
  /\ right \in Coins /\ view \in {"Pro", "Simple"} /\ mode = "Sell"
  /\ preferred = NoOrder /\ pending = NoOrder /\ notice = "None"
  /\ latest = << >> /\ bestLatest = << >> /\ twins = {}
  /\ watched = FALSE /\ carried = FALSE

Shows(list, order) == order # NoOrder /\ order.id \in list.ids

(* set_preferred_order; the price of the form is then locked.  The status  *)
(* of the order preferred before stays.                                    *)
Prefer(order, list) ==
  /\ preferred' = order
  /\ watched' = Shows(list, order)
  /\ carried' = (order # NoOrder /\ order.coin # right)

(* clear_forms.                                                            *)
FormCleared ==
  preferred' = NoOrder /\ notice' = "None" /\ watched' = FALSE /\ carried' = FALSE

BidsCleared == bids' = Empty /\ latest' = << >>
BestCleared == best' = Empty /\ bestLatest' = << >> /\ twins' = {}

(* Mutant: no data leaves the rows as they are.                            *)
RefreshBestKept ==
  /\ bestLatest' = found
  /\ IF found = << >> THEN UNCHANGED <<best, twins>>
     ELSE best' = Filled(found) /\ UNCHANGED twins

(* The best orders at a refresh of the orderbook.                          *)
RefreshBest ==
  /\ bestLatest' = found
  /\ IF found = << >> THEN best' = Empty /\ twins' = {}
     ELSE IF best.rows = << >>
       THEN /\ best' = Filled(found)
            /\ twins' = {id \in IdsOf(found) :
                           \E i, j \in DOMAIN found : i # j /\ found[i].id = id /\ found[j].id = id}
       ELSE /\ \E merged \in Merged(best, found, NoOrder) :
                 best' = [rows |-> merged.rows, ids |-> merged.ids]
            /\ UNCHANGED twins

(* process_action without a reset: qt_orderbook_wrapper merges the answer. *)
Refresh(answer) ==
  /\ \E merged \in Merged(bids, answer, IF mode = "Sell" THEN preferred ELSE NoOrder) :
       /\ bids' = [rows |-> merged.rows, ids |-> merged.ids]
       /\ notice' = merged.notice
  /\ latest' = answer
  /\ watched' = (watched \/ Shows(bids', preferred))
  /\ RefreshBest
  /\ UNCHANGED <<found, right, view, mode, preferred, pending, carried>>

(* process_action with a reset.  The pending best order becomes the        *)
(* preferred one; in the Pro view the settings of a pair that has some     *)
(* (settled) then set the price, which releases a locked order.            *)
Reset(answer) ==
  /\ bids' = Filled(answer) /\ latest' = answer
  /\ \E settled \in IF view = "Pro" THEN BOOLEAN ELSE {FALSE} :
       IF settled THEN Prefer(NoOrder, bids')
       ELSE IF pending # NoOrder THEN Prefer(pending, bids')
       ELSE /\ watched' = Shows(bids', preferred)
            /\ UNCHANGED <<preferred, carried>>
  /\ pending' = NoOrder
  /\ BestCleared
  /\ UNCHANGED <<found, right, view, mode, notice>>

(* The scanner stores the answer of a scan.                                *)
StoreBestOrders(answer) ==
  /\ found' = answer
  /\ UNCHANGED <<bidVars, bestVars, formVars, right, view, mode, pending>>

-----------------------------------------------------------------------------
(* The user.                                                               *)

(* Mutant: the rows go, the form stays.                                    *)
ChangeRightOnly(coin) ==
  /\ right' = coin /\ watched' = FALSE
  /\ IF view = "Pro" THEN BidsCleared /\ BestCleared ELSE UNCHANGED <<bidVars, bestVars>>
  /\ UNCHANGED <<preferred, notice, carried>>

(* set_current_orderbook with another right coin: only the Pro view clears *)
(* the rows and the form.                                                  *)
ChangeRight(coin) ==
  /\ right' = coin
  /\ IF view = "Pro" THEN BidsCleared /\ BestCleared /\ FormCleared
     ELSE UNCHANGED <<bidVars, bestVars, formVars>>

SelectRight(coin) ==
  /\ coin # right /\ ChangeRight(coin)
  /\ UNCHANGED <<found, view, mode, pending>>

(* set_market_mode.                                                        *)
SetMarketMode(other) ==
  /\ other # mode /\ mode' = other /\ FormCleared
  /\ UNCHANGED <<bidVars, bestVars, found, right, view, pending>>

(* set_current_trading_mode.                                               *)
SetTradingMode(other) ==
  /\ other # view /\ view' = other /\ mode' = "Sell" /\ FormCleared
  /\ UNCHANGED <<bidVars, bestVars, found, right, pending>>

(* reset_order, or an order was placed.                                    *)
ResetOrder ==
  /\ preferred # NoOrder /\ FormCleared
  /\ UNCHANGED <<bidVars, bestVars, found, right, view, mode, pending>>

(* A click on a row of the bids, in the Pro view: setMarketMode (which     *)
(* clears the form of a buyer), then the preferred order.                  *)
SelectBid(order) ==
  /\ view = "Pro"
  /\ mode' = "Sell"
  /\ notice' = IF mode = "Sell" THEN notice ELSE "None"
  /\ Prefer([order EXCEPT !.coin = right], bids)
  /\ UNCHANGED <<bidVars, bestVars, found, right, view, pending>>

(* refresh_best_orders with no volume in the form.                         *)
ClearBestOrders ==
  /\ best.rows # << >> /\ BestCleared
  /\ UNCHANGED <<bidVars, formVars, found, right, view, mode, pending>>

(* select_best_order.  An order of the selected pair is preferred at once  *)
(* (refresh_best_orders follows) and stays pending all the same; another   *)
(* changes the pair and waits for its reset.  set_pair never fails here.   *)
SelectBestOrder(order) ==
  /\ pending' = order
  /\ IF order.coin = right
       THEN /\ Prefer(order, bids)
            /\ BestCleared \/ UNCHANGED bestVars
            /\ UNCHANGED <<bidVars, right, notice>>
       ELSE ChangeRight(order.coin)
  /\ UNCHANGED <<found, view, mode>>

Next ==
  \/ \E answer \in BidAnswers : Refresh(answer) \/ Reset(answer)
  \/ \E answer \in BestAnswers : StoreBestOrders(answer)
  \/ \E coin \in Coins : SelectRight(coin)
  \/ \E other \in {"Sell", "Buy"} : SetMarketMode(other)
  \/ \E other \in {"Pro", "Simple"} : SetTradingMode(other)
  \/ ResetOrder
  \/ \E i \in DOMAIN bids.rows : SelectBid(bids.rows[i])
  \/ ClearBestOrders
  \/ \E id \in IdsOf(best.rows) : SelectBestOrder(best.rows[RowOf(best.rows, id)])

Spec == Init /\ [][Next]_vars

-----------------------------------------------------------------------------
(* The variables keep their types; no status but these three is ever set,  *)
(* and every registered UUID has a row.                                    *)
TypeOK ==
  /\ bids \in Lists /\ best \in Lists /\ found \in BestAnswers \cup {<< >>}
  /\ right \in Coins /\ view \in {"Pro", "Simple"} /\ mode \in {"Sell", "Buy"}
  /\ preferred \in Orders \cup {NoOrder} /\ pending \in Orders \cup {NoOrder}
  /\ notice \in Notices /\ latest \in BidAnswers \cup {<< >>}
  /\ bestLatest \in BestAnswers \cup {<< >>} /\ twins \subseteq Ids
  /\ watched \in BOOLEAN /\ carried \in BOOLEAN
  /\ bids.ids \subseteq IdsOf(bids.rows) /\ best.ids \subseteq IdsOf(best.rows)

(* Whether answers replace the rows or are merged, in whatever order, the  *)
(* bids are those of the last answer: each order once, at its last price,  *)
(* and registered (the assertions of initialize_order, lines 407 and 413). *)
BidsAreTheAnswer ==
  /\ Len(bids.rows) = Len(latest) /\ bids.ids = IdsOf(latest)
  /\ {<<bids.rows[i].id, bids.rows[i].price>> : i \in DOMAIN bids.rows}
       = {<<latest[i].id, latest[i].price>> : i \in DOMAIN latest}

(* The best orders show every order of the data.  An order that left the   *)
(* data goes, unless it had a second row (one per address format, the      *)
(* comment at line 387): only the first one is removed.                    *)
BestOrdersShown ==
  /\ IdsOf(bestLatest) \subseteq IdsOf(best.rows)
  /\ IdsOf(best.rows) \subseteq IdsOf(bestLatest) \cup twins

(* A seller whose preferred order was in the rows is told when it leaves   *)
(* them, by removeRows; only a reset replaces the rows without a word.     *)
MissingIsTold ==
  watched /\ mode = "Sell" /\ ~Shows(bids, preferred) => notice # "None"

(* A merge that brings an order better than the preferred one, or raises   *)
(* one above it, ends with the seller told of a better price, whatever     *)
(* else the answer brings and in whatever order: a later fall or removal   *)
(* of the preferred order does not hide it.                                *)
BetterIsTold ==
  [][ \A answer \in BidAnswers :
        /\ mode = "Sell" /\ preferred # NoOrder /\ latest' = answer
        /\ \E order \in ToSet(answer) :
             /\ order.price > preferred.price
             /\ \A i \in DOMAIN bids.rows :
                  bids.rows[i].id = order.id => bids.rows[i].price # order.price
        /\ Refresh(answer)
        => notice' = "BetterPriceAvailable" ]_vars

(* In the Pro view the preferred order is one of the selected pair, unless *)
(* it was pending from another pair when a reset adopted it.               *)
PreferredOfPair ==
  view = "Pro" /\ preferred # NoOrder => preferred.coin = right \/ carried
=============================================================================
