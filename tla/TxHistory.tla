-------------------------------- MODULE TxHistory --------------------------------
(***************************************************************************)
(* The transactions of the coin shown in the wallet (wallet_page,          *)
(* kdf_service::batch_balance_and_tx, transactions_model).  Choosing a     *)
(* coin clears the rows, sets the busy flag and fetches; the clock fetches *)
(* again every 23 seconds.  The daemon answers for most coins, and a proxy *)
(* for ERC-20 like tokens, which are asked for after an empty batch of the *)
(* daemon was answered.                                                    *)
(*                                                                         *)
(* The answers of all coins but the tokens are stored under one key.  The  *)
(* handler of tx_fetch_finished runs on the pool thread of the answer: it  *)
(* compares the coin of the answer with the one shown, reads the stored    *)
(* history of the one shown, and changes the rows, in steps between which  *)
(* the user may choose another coin and other answers may arrive.          *)
(***************************************************************************)
EXTENDS Integers, FiniteSets, Sequences, SequencesExt

CONSTANTS
  Coins,
  Tokens,      \* is_erc_family
  Ids,         \* transactions of a coin, 1 the oldest (fewer than the 15 of g_file_count_limit)
  Active,      \* bound: the coins that get transactions
  Slots,       \* bound: fetches in flight
  MaxChoices,  \* bound: how often the user chooses a coin
  MaxFaults,   \* bound: lost and refused answers
  MaxNew       \* bound: new transactions

ASSUME TxHistoryAssumption ==
  /\ Tokens \subseteq Coins /\ Active \subseteq Coins
  /\ Ids = 1 .. Cardinality(Ids)
  /\ {MaxChoices, MaxFaults, MaxNew} \subseteq Nat

VARIABLES
  ticker,     \* kdf_service::m_current_ticker
  choosing,   \* the main thread is inside wallet_page::set_current_ticker
  store,      \* kdf_service::m_tx_informations
  flight,     \* the fetches, each with its pool thread once it is answered
  rows,       \* transactions_model::m_model_data
  busy,       \* wallet_page::m_tx_fetching_busy
  hist,       \* the daemon and the proxy: the transactions of each coin, newest first
  scanning,   \* ZHTLC coins whose activation status is not Ok
  blank,      \* history: the coin was still scanning when it was chosen
  overlap,    \* history: since the rows were cleared for the coin shown, a handler was at
              \* work when another answer was stored or a coin chosen
  behind,     \* history: since then, a new confirmed transaction was listed after one that
              \* had a row or was unconfirmed
  choices, faults, news

vars == <<ticker, choosing, store, flight, rows, busy, hist, scanning,
          blank, overlap, behind, choices, faults, news>>
daemonVars == <<hist, scanning, news>>
historyVars == <<blank, overlap, behind, choices, faults>>

-----------------------------------------------------------------------------
Txs == [coin : Coins, id : Ids, unconfirmed : BOOLEAN]
Same(t, u) == t.coin = u.coin /\ t.id = u.id
Has(txs, t) == \E n \in DOMAIN txs : Same(txs[n], t)

(* The transactions at some places of a list, in their order.              *)
Those(txs, places) ==
  [n \in 1 .. Cardinality(places) |->
    txs[CHOOSE i \in places : Cardinality({j \in places : j <= i}) = n]]
Unconfirmed(txs) == Those(txs, {n \in DOMAIN txs : txs[n].unconfirmed})
Confirmed(txs)   == Those(txs, {n \in DOMAIN txs : ~txs[n].unconfirmed})

Keys == Tokens \cup {"result"}
Key(c) == IF c \in Tokens THEN c ELSE "result"

Idle == [pc |-> "idle"]
Pcs == {"sent", "empty", "proxy", "stored", "checked", "read"}
Fetches == [pc : Pcs, coin : Coins, txs : Seq(Txs)]
Flying(i, pc) == flight[i].pc = pc
Goto(i, pc) == flight' = [flight EXCEPT ![i].pc = pc]
Handling == \E i \in Slots : flight[i].pc \in {"stored", "checked", "read"}

Init ==
  /\ ticker \in Coins /\ choosing = FALSE
  /\ store = [k \in Keys |-> <<>>]
  /\ flight = [i \in Slots |-> Idle]
  /\ rows = <<>> /\ busy = FALSE
  /\ hist = [c \in Coins |-> <<>>]
  /\ scanning \in SUBSET (Coins \ Tokens)
  /\ blank = FALSE /\ overlap = FALSE /\ behind = FALSE
  /\ choices = 0 /\ faults = 0 /\ news = 0

-----------------------------------------------------------------------------
(* prepare_batch_balance_and_tx: nothing is asked for a coin that scans.   *)
(* The request is served at once, and its answer may come at any time.     *)
Fetch(i, c) ==
  /\ flight[i] = Idle /\ \A j \in Slots : flight[j] = Idle => i = CHOOSE k \in Slots : flight[k] = Idle
  /\ flight' = [flight EXCEPT ![i] = [pc |-> IF c \in scanning THEN "empty" ELSE "sent", coin |-> c, txs |-> hist[c]]]

(* set_current_ticker of the service, and then the rest of the page's.     *)
Choose(c) ==
  /\ ~choosing /\ c # ticker /\ choices < MaxChoices
  /\ choices' = choices + 1
  /\ ticker' = c /\ choosing' = TRUE
  /\ overlap' = (overlap \/ Handling)
  /\ UNCHANGED <<store, flight, rows, busy, daemonVars, blank, behind, faults>>

(* Mutant: the rows of the coin before stay.                               *)
ShowKeepsRows(i) ==
  /\ choosing /\ choosing' = FALSE
  /\ busy' = TRUE
  /\ Fetch(i, ticker)
  /\ blank' = (ticker \in scanning) /\ overlap' = Handling /\ behind' = FALSE
  /\ UNCHANGED <<ticker, store, rows, daemonVars, choices, faults>>

Show(i) ==
  /\ choosing /\ choosing' = FALSE
  /\ rows' = <<>> /\ busy' = TRUE
  /\ Fetch(i, ticker)
  /\ blank' = (ticker \in scanning) /\ overlap' = Handling /\ behind' = FALSE
  /\ UNCHANGED <<ticker, store, daemonVars, choices, faults>>

(* The clock of kdf_service::update, on the main thread as well.           *)
Periodic(i) ==
  /\ ~choosing
  /\ Fetch(i, ticker)
  /\ UNCHANGED <<ticker, choosing, store, rows, busy, daemonVars, historyVars>>

-----------------------------------------------------------------------------
(* Answers.                                                                *)

(* Mutant: the event is not triggered.                                     *)
KeepQuietly(i, k) ==
  /\ store' = [store EXCEPT ![k] = flight[i].txs]
  /\ flight' = [flight EXCEPT ![i] = Idle]
  /\ overlap' = (overlap \/ Handling)
  /\ UNCHANGED <<ticker, choosing, rows, busy, daemonVars, blank, behind, choices, faults>>

(* A history is stored, and tx_fetch_finished triggered.                   *)
Keep(i, k) ==
  /\ store' = [store EXCEPT ![k] = flight[i].txs]
  /\ Goto(i, "stored")
  /\ overlap' = (overlap \/ Handling)
  /\ UNCHANGED <<ticker, choosing, rows, busy, daemonVars, blank, behind, choices, faults>>

(* process_tx_answer, in the answer to the batch.                          *)
DaemonAnswers(i) ==
  /\ Flying(i, "sent") /\ flight[i].coin \notin Tokens
  /\ Keep(i, "result")

(* Mutant: the proxy is asked for every coin.                              *)
AskProxyAlways(i) ==
  /\ Flying(i, "sent")
  /\ Goto(i, "proxy")
  /\ UNCHANGED <<ticker, choosing, store, rows, busy, daemonVars, historyVars>>

(* process_tx_tokenscan, after the batch: the request to the proxy.        *)
AskProxy(i) ==
  /\ Flying(i, "sent") /\ flight[i].coin \in Tokens
  /\ Goto(i, "proxy")
  /\ UNCHANGED <<ticker, choosing, store, rows, busy, daemonVars, historyVars>>

ProxyAnswers(i) ==
  /\ Flying(i, "proxy")
  /\ Keep(i, flight[i].coin)

(* Nothing was asked for: nobody is told.                                  *)
EmptyAnswered(i) ==
  /\ Flying(i, "empty")
  /\ flight' = [flight EXCEPT ![i] = Idle]
  /\ UNCHANGED <<ticker, choosing, store, rows, busy, daemonVars, historyVars>>

(* tx_fetch_finished with_error, of whatever coin, clears the rows.        *)
Finish(i) ==
  /\ rows' = <<>> /\ busy' = FALSE
  /\ flight' = [flight EXCEPT ![i] = Idle]

(* An error for the coin, an exception in the handler of the batch (the    *)
(* answer breaks off, or no request to the proxy can be made for a token), *)
(* or any failure of the proxy: its timeout throws, and                    *)
(* handle_exception_pplx_task triggers the event.                          *)
Refused(i) ==
  /\ faults < MaxFaults /\ faults' = faults + 1
  /\ flight[i].pc \in {"sent", "empty", "proxy"}
  /\ Finish(i)
  /\ UNCHANGED <<ticker, choosing, store, daemonVars, blank, overlap, behind, choices>>

(* The batch is not answered, or its answer is no JSON array: nobody is    *)
(* told.                                                                   *)
Lost(i) ==
  /\ faults < MaxFaults /\ faults' = faults + 1
  /\ flight[i].pc \in {"sent", "empty"}
  /\ flight' = [flight EXCEPT ![i] = Idle]
  /\ UNCHANGED <<ticker, choosing, store, rows, busy, daemonVars, blank, overlap, behind, choices>>

-----------------------------------------------------------------------------
(* on_tx_fetch_finished, on the pool thread.                               *)

(* Mutant: the coin of the answer is not looked at.                        *)
CheckAny(i) ==
  /\ Flying(i, "stored")
  /\ Goto(i, "checked") /\ UNCHANGED <<rows, busy>>
  /\ UNCHANGED <<ticker, choosing, store, daemonVars, historyVars>>

(* The answer of another coin clears the rows.                             *)
Check(i) ==
  /\ Flying(i, "stored")
  /\ \/ flight[i].coin = ticker /\ Goto(i, "checked") /\ UNCHANGED <<rows, busy>>
     \/ flight[i].coin # ticker /\ Finish(i)
  /\ UNCHANGED <<ticker, choosing, store, daemonVars, historyVars>>

(* get_tx_history reads the current coin once more.                        *)
Read(i) ==
  /\ Flying(i, "checked")
  /\ flight' = [flight EXCEPT ![i].pc = "read", ![i].txs = store[Key(ticker)]]
  /\ UNCHANGED <<ticker, choosing, store, rows, busy, daemonVars, historyVars>>

(* Mutant: unconfirmed transactions that have a row are inserted as well.  *)
NewPendingAll(rs, txs) == Unconfirmed(txs)

(* The unconfirmed transactions in front that have no row.                 *)
NewPending(rs, txs) ==
  Those(txs, {n \in DOMAIN txs : (\A m \in 1 .. n : txs[m].unconfirmed) /\ ~Has(rs, txs[n])})

(* update_transaction, for the transactions from the n-th on.              *)
Updated(rs, txs, n) ==
  [m \in DOMAIN rs |->
    IF \E k \in n .. Len(txs) : Same(txs[k], rs[m])
    THEN txs[CHOOSE k \in n .. Len(txs) : Same(txs[k], rs[m])] ELSE rs[m]]

(* update_or_insert_transactions: as many new transactions as the history  *)
(* is longer than the rows, or the new unconfirmed ones if there are any.  *)
UpdateOrInsert(rs, txs) ==
  LET difference == Len(txs) - Len(rs)
      new == IF difference = 0 THEN <<>>
             ELSE IF NewPending(rs, txs) # <<>> THEN NewPending(rs, txs)
             ELSE SubSeq(txs, 1, difference)
  IN IF difference < 0 THEN rs ELSE Updated(rs, txs, difference + 1) \o new

Insert(i) ==
  LET txs == flight[i].txs IN
  /\ Flying(i, "read")
  /\ rows' = IF rows = <<>> THEN txs ELSE UpdateOrInsert(rows, txs)
  /\ behind' = (behind \/ ( /\ rows # <<>>
                            /\ \E n \in DOMAIN txs : \E m \in 1 .. n - 1 :
                                 /\ ~txs[n].unconfirmed /\ ~Has(rows, txs[n])
                                 /\ txs[m].unconfirmed \/ Has(rows, txs[m]) ))
  /\ busy' = FALSE
  /\ flight' = [flight EXCEPT ![i] = Idle]
  /\ UNCHANGED <<ticker, choosing, store, daemonVars, blank, overlap, choices, faults>>

-----------------------------------------------------------------------------
(* The daemon lists its unconfirmed transactions first; the proxy's have   *)
(* no such flag.                                                           *)
NewTx(c) ==
  LET old == hist[c]
      id == Len(old) + 1
  IN
  /\ c \in Active /\ news < MaxNew /\ id \in Ids
  /\ news' = news + 1
  /\ \/ /\ c \notin Tokens
        /\ hist' = [hist EXCEPT ![c] = <<[coin |-> c, id |-> id, unconfirmed |-> TRUE]>> \o old]
     \/ hist' = [hist EXCEPT ![c] = Unconfirmed(old) \o <<[coin |-> c, id |-> id, unconfirmed |-> FALSE]>>
                                     \o Confirmed(old)]
  /\ UNCHANGED <<ticker, choosing, store, flight, rows, busy, scanning, historyVars>>

Confirm(c) ==
  /\ Unconfirmed(hist[c]) # <<>>
  /\ hist' = [hist EXCEPT ![c][Len(Unconfirmed(hist[c]))].unconfirmed = FALSE]
  /\ UNCHANGED <<ticker, choosing, store, flight, rows, busy, scanning, news, historyVars>>

ScanEnds(c) ==
  /\ c \in scanning
  /\ scanning' = scanning \ {c}
  /\ UNCHANGED <<ticker, choosing, store, flight, rows, busy, hist, news, historyVars>>

-----------------------------------------------------------------------------
FetchStep(i) ==
  \/ DaemonAnswers(i) \/ AskProxy(i) \/ ProxyAnswers(i) \/ EmptyAnswered(i)
  \/ Refused(i) \/ Lost(i) \/ Check(i) \/ Read(i) \/ Insert(i)

Next ==
  \/ \E c \in Coins : Choose(c) \/ NewTx(c) \/ Confirm(c) \/ ScanEnds(c)
  \/ \E i \in Slots : Show(i) \/ Periodic(i) \/ FetchStep(i)

Spec == Init /\ [][Next]_vars

(* A command of the main thread ends, its clock comes round, and requests  *)
(* are answered or time out.                                               *)
Fairness ==
  /\ WF_vars(\E i \in Slots : Show(i))
  /\ WF_vars(\E i \in Slots : Periodic(i))
  /\ \A i \in Slots : WF_vars(FetchStep(i))
FairSpec == Spec /\ Fairness

-----------------------------------------------------------------------------
(* Types; the proxy is asked for tokens only.                              *)
TypeOK ==
  /\ ticker \in Coins /\ choosing \in BOOLEAN
  /\ store \in [Keys -> Seq(Txs)]
  /\ \A i \in Slots :
       \/ flight[i] = Idle
       \/ flight[i] \in Fetches /\ (Flying(i, "proxy") => flight[i].coin \in Tokens)
  /\ rows \in Seq(Txs) /\ busy \in BOOLEAN
  /\ hist \in [Coins -> Seq(Txs)] /\ scanning \subseteq Coins
  /\ blank \in BOOLEAN /\ overlap \in BOOLEAN /\ behind \in BOOLEAN
  /\ choices \in 0 .. MaxChoices /\ faults \in 0 .. MaxFaults /\ news \in 0 .. MaxNew

(* The page says that transactions are being fetched only while a fetch is *)
(* in flight, unless the coin was still scanning when it was chosen, or    *)
(* the answer to a batch was lost (which handle_exception_pplx_task does   *)
(* not report as it does for the proxy's).                                 *)
BusyHasCause ==
  busy => blank \/ faults > 0 \/ \E i \in Slots : flight[i].pc \notin {"idle", "empty"}

(* The rows are transactions of the coin shown, unless two answers, or an  *)
(* answer and a choice of coin, were handled at the same time.             *)
RowsOfTicker ==
  ~choosing => \/ \A t \in ToSet(rows) : t.coin = ticker
               \/ overlap

(* No transaction has two rows, whatever the handlers do at the same time, *)
(* unless a new confirmed transaction came along with an unconfirmed one:  *)
(* then the number of rows no longer says which ones are missing.          *)
NoTxTwice ==
  \/ \A m, n \in 1 .. Len(rows) : Same(rows[m], rows[n]) => m = n
  \/ behind

(* In the end the coin shown has all its transactions with their present   *)
(* state, and the page is not busy, with the same exceptions, unless the   *)
(* coin never ends to scan.                                                *)
HistoryShown ==
  <>[]( \/ ticker \in scanning \/ overlap \/ behind
        \/ ~busy /\ ToSet(rows) = ToSet(hist[ticker]) )
=============================================================================
