---------------------------- MODULE BestOrders ----------------------------
(***************************************************************************)
(* The scanner of best orders (orderbook_scanner_service) and the part of  *)
(* the trading page it drives.                                             *)
(*                                                                         *)
(* process_best_orders runs on the main thread (the 45 s scan, a reset of  *)
(* the orderbook, a new volume) and on pool threads (a callback that caps  *)
(* the volume).  It tests m_bestorders_busy and m_bestorders_timed_out and *)
(* sets them later, without a lock: its steps are actions of their own.    *)
(* So are those of a callback: store the answer, release the scanner, push *)
(* an action, write the reset flag, cap the volume.                        *)
(*                                                                         *)
(* The orderbook's own answers only appear as events; OrderbookSync models *)
(* where they come from.                                                   *)
(***************************************************************************)
EXTENDS Integers

CONSTANTS
  Coins,       \* coins of the left selector
  NoCoin,
  MaxThreads,  \* bound: callbacks in flight
  MaxActions,  \* bound: actions waiting in the queue of the trading page
  MaxLost      \* bound: answers that never come

ASSUME CoinsAssumption == Coins # {} /\ NoCoin \notin Coins
ASSUME BoundsAssumption == {MaxThreads, MaxActions, MaxLost} \subseteq Nat

VARIABLES
  busy,        \* m_bestorders_busy
  timedOut,    \* m_bestorders_timed_out
  expired,     \* m_bestorders_busy_since is best_orders_timeout (60 s) ago or more
  data,        \* m_best_orders_infos: the coin of the last answer
  threads,     \* the best_orders RPCs in flight and the callbacks on pool threads
  scan,        \* where each thread stands in process_best_orders
  left,        \* the left selected coin
  active,      \* the daemon runs and the trading page is open
  rows,        \* the coin whose best orders are on screen
  actions,     \* how many actions m_actions_queue holds
  needReset,   \* m_models_actions[orderbook_need_a_reset]
  gaveUp,      \* history: a request got no answer since busy was last released
  lost         \* how many answers were lost

vars == <<busy, timedOut, expired, data, threads, scan, left, active, rows, actions,
          needReset, gaveUp, lost>>

flagVars == <<busy, timedOut, expired, gaveUp>>
pageVars == <<left, active, rows, actions, needReset>>

-----------------------------------------------------------------------------
Main == 0
Slots == 1 .. MaxThreads
Callers == {Main} \cup Slots

Threads == [stage : {"free", "sent", "store", "release", "push", "flag", "cap", "scan"},
            coin : Coins \cup {NoCoin}, reset : BOOLEAN]
Free == [stage |-> "free", coin |-> NoCoin, reset |-> FALSE]

Idle == [pc |-> "idle", coin |-> NoCoin]
Scans == [pc : {"idle", "go", "claimed"}, coin : Coins \cup {NoCoin}]

Init ==
  /\ busy = FALSE /\ timedOut = FALSE /\ expired = TRUE
  /\ data = NoCoin
  /\ threads = [i \in Slots |-> Free]
  /\ scan = [t \in Callers |-> Idle]
  /\ left \in Coins /\ active = FALSE /\ rows = NoCoin
  /\ actions = 0 /\ needReset = FALSE
  /\ gaveUp = FALSE /\ lost = 0

Go(i, stage, reset) ==
  threads' = [threads EXCEPT ![i] = [stage |-> stage, coin |-> threads[i].coin, reset |-> reset]]

-----------------------------------------------------------------------------
(* process_best_orders.                                                    *)

(* The two tests, and the coin read for the request.                       *)
MayScan == ~busy /\ ~timedOut /\ active

(* A call that passes the tests goes on; another one returns at once.  The *)
(* main thread waits for a free slot first, which the bound asks for.      *)
Enter(t) ==
  IF MayScan
    THEN /\ t = Main => \E i \in Slots : threads[i] = Free
         /\ scan' = [scan EXCEPT ![t] = [pc |-> "go", coin |-> left]]
    ELSE UNCHANGED scan

Claim(t) ==
  /\ scan[t].pc = "go"
  /\ busy' = TRUE
  /\ scan' = [scan EXCEPT ![t] = [pc |-> "claimed", coin |-> scan[t].coin]]
  /\ UNCHANGED <<timedOut, expired, gaveUp, data, threads, pageVars, lost>>

(* The time stamp, the flag and the request.  A pool thread returns from   *)
(* its callback, so that the request takes its slot.                       *)
Issue(t) ==
  /\ scan[t].pc = "claimed"
  /\ \E i \in Slots :
       /\ IF t = Main THEN threads[i] = Free ELSE i = t
       /\ threads' = [threads EXCEPT ![i] =
                        [stage |-> "sent", coin |-> scan[t].coin, reset |-> FALSE]]
  /\ expired' = FALSE /\ timedOut' = FALSE
  /\ scan' = [scan EXCEPT ![t] = Idle]
  /\ UNCHANGED <<busy, gaveUp, data, pageVars, lost>>

-----------------------------------------------------------------------------
(* Main thread.  It does nothing else while it is in process_best_orders.  *)
MainFree == scan[Main].pc = "idle"

(* Mutant: only an empty list is scanned again.                            *)
ScanWhenEmpty ==
  /\ MainFree
  /\ rows = NoCoin
  /\ Enter(Main)
  /\ UNCHANGED <<flagVars, data, threads, pageVars, lost>>

(* update, every 45 s.                                                     *)
Scan ==
  /\ MainFree
  /\ Enter(Main)
  /\ UNCHANGED <<flagVars, data, threads, pageVars, lost>>

(* Mutant: the timeout waits for the answer.                               *)
TimeoutAnswered ==
  /\ MainFree
  /\ busy /\ expired /\ ~gaveUp
  /\ actions < MaxActions
  /\ busy' = FALSE /\ timedOut' = TRUE /\ gaveUp' = FALSE
  /\ actions' = actions + 1 /\ needReset' = TRUE
  /\ UNCHANGED <<expired, data, threads, scan, left, active, rows, lost>>

(* update, when 60 s passed since the time stamp: the event it triggers is *)
(* handled at once on this thread, and its call of process_best_orders     *)
(* finds timedOut set.                                                     *)
Timeout ==
  /\ MainFree
  /\ busy /\ expired
  /\ actions < MaxActions
  /\ busy' = FALSE /\ timedOut' = TRUE /\ gaveUp' = FALSE
  /\ actions' = actions + 1 /\ needReset' = TRUE
  /\ UNCHANGED <<expired, data, threads, scan, left, active, rows, lost>>

(* A new volume: refresh_best_orders scans again, or clears the rows when  *)
(* the volume is 0.                                                        *)
SetVolume ==
  /\ MainFree
  /\ \/ Enter(Main) /\ UNCHANGED rows
     \/ rows' = NoCoin /\ UNCHANGED scan
  /\ UNCHANGED <<flagVars, data, threads, left, active, actions, needReset, lost>>

(* Another pair, maybe of the same left coin; only the Pro mode clears the *)
(* rows.                                                                   *)
SelectLeft ==
  /\ MainFree
  /\ left' \in Coins
  /\ rows' \in {rows, NoCoin}
  /\ UNCHANGED <<flagVars, data, threads, scan, active, actions, needReset, lost>>

OpenOrClose ==
  /\ MainFree
  /\ active' = ~active
  /\ UNCHANGED <<flagVars, data, threads, scan, left, rows, actions, needReset, lost>>

(* process_action, unless the stored book is of another pair: a reset      *)
(* clears the rows and scans; a refresh shows the stored answer, and may   *)
(* adjust the volume, which scans too, or clears the rows when it is 0.    *)
ProcessAction ==
  /\ MainFree
  /\ actions > 0
  /\ actions' = actions - 1
  /\ \/ UNCHANGED <<rows, scan>>
     \/ needReset /\ rows' = NoCoin /\ Enter(Main)
     \/ ~needReset /\ rows' = data /\ (UNCHANGED scan \/ Enter(Main))
     \/ ~needReset /\ rows' = NoCoin /\ UNCHANGED scan
  /\ UNCHANGED <<flagVars, data, threads, left, active, needReset, lost>>

(* The clock: 60 s pass.                                                   *)
Expire ==
  /\ ~expired
  /\ expired' = TRUE
  /\ UNCHANGED <<busy, timedOut, gaveUp, data, threads, scan, pageVars, lost>>

-----------------------------------------------------------------------------
(* Pool threads.                                                           *)

AnswerOk(i) ==
  /\ threads[i].stage = "sent"
  /\ Go(i, "store", FALSE)
  /\ UNCHANGED <<flagVars, data, scan, pageVars, lost>>

AnswerError(i) ==
  /\ threads[i].stage = "sent"
  /\ Go(i, "release", TRUE)
  /\ UNCHANGED <<flagVars, data, scan, pageVars, lost>>

(* The 30 s timeout of the client, a transport error or an answer that is  *)
(* no JSON: process_rpc_async never runs the callback.                     *)
AnswerLost(i) ==
  /\ threads[i].stage = "sent"
  /\ lost < MaxLost
  /\ lost' = lost + 1
  /\ threads' = [threads EXCEPT ![i] = Free]
  /\ gaveUp' = TRUE
  /\ UNCHANGED <<busy, timedOut, expired, data, scan, pageVars>>

(* The event of an answered orderbook RPC of the KDF service; the bound    *)
(* keeps a slot for a request of the main thread.                          *)
OrderbookFinished(i) ==
  /\ threads[i] = Free
  /\ active
  /\ MainFree \/ \E j \in Slots \ {i} : threads[j] = Free
  /\ \E reset \in BOOLEAN : Go(i, "push", reset)
  /\ UNCHANGED <<flagVars, data, scan, pageVars, lost>>

Store(i) ==
  /\ threads[i].stage = "store"
  /\ data' = threads[i].coin
  /\ Go(i, "release", FALSE)
  /\ UNCHANGED <<flagVars, scan, pageVars, lost>>

(* Mutant: the error path does not release the scanner.                    *)
ReleaseAnswered(i) ==
  /\ threads[i].stage = "release"
  /\ busy' = (busy /\ threads[i].reset) /\ timedOut' = FALSE /\ gaveUp' = FALSE
  /\ Go(i, "push", threads[i].reset)
  /\ UNCHANGED <<expired, data, scan, pageVars, lost>>

Release(i) ==
  /\ threads[i].stage = "release"
  /\ busy' = FALSE /\ timedOut' = FALSE /\ gaveUp' = FALSE
  /\ Go(i, "push", threads[i].reset)
  /\ UNCHANGED <<expired, data, scan, pageVars, lost>>

(* on_process_orderbook_finished_event: the action, then the flag, then    *)
(* determine_max_volume, which scans when it caps the volume.              *)
PushAction(i) ==
  /\ threads[i].stage = "push"
  /\ actions < MaxActions
  /\ actions' = actions + 1
  /\ Go(i, "flag", threads[i].reset)
  /\ UNCHANGED <<flagVars, data, scan, left, active, rows, needReset, lost>>

SetFlag(i) ==
  /\ threads[i].stage = "flag"
  /\ needReset' = threads[i].reset
  /\ Go(i, "cap", FALSE)
  /\ UNCHANGED <<flagVars, data, scan, left, active, rows, actions, lost>>

CapVolume(i) ==
  /\ threads[i].stage = "cap"
  /\ \/ /\ threads' = [threads EXCEPT ![i] = Free]
        /\ UNCHANGED scan
     \/ MayScan /\ Enter(i) /\ Go(i, "scan", FALSE)
  /\ UNCHANGED <<flagVars, data, pageVars, lost>>

-----------------------------------------------------------------------------
Step(i) == Store(i) \/ Release(i) \/ PushAction(i) \/ SetFlag(i) \/ CapVolume(i)

Next ==
  \/ Scan \/ Timeout \/ SetVolume \/ SelectLeft \/ OpenOrClose \/ ProcessAction \/ Expire
  \/ \E t \in Callers : Claim(t) \/ Issue(t)
  \/ \E i \in Slots : \/ AnswerOk(i) \/ AnswerError(i) \/ AnswerLost(i)
                      \/ OrderbookFinished(i) \/ Step(i)

Spec == Init /\ [][Next]_vars

(* The ticks, the clock and the callbacks go on, and the client answers or *)
(* gives up.  Strong fairness stands for the bounds, which can block a     *)
(* thread or the timeout where the code does not.                          *)
Fairness ==
  /\ SF_vars(Scan) /\ SF_vars(Timeout) /\ WF_vars(ProcessAction) /\ WF_vars(Expire)
  /\ \A t \in Callers : WF_vars(Claim(t)) /\ WF_vars(Issue(t))
  /\ \A i \in Slots : /\ SF_vars(Step(i))
                      /\ WF_vars(AnswerOk(i) \/ AnswerError(i) \/ AnswerLost(i))

FairSpec == Spec /\ Fairness

-----------------------------------------------------------------------------
TypeOK ==
  /\ busy \in BOOLEAN /\ timedOut \in BOOLEAN /\ expired \in BOOLEAN
  /\ data \in Coins \cup {NoCoin}
  /\ threads \in [Slots -> Threads]
  /\ scan \in [Callers -> Scans]
  /\ left \in Coins /\ active \in BOOLEAN /\ rows \in Coins \cup {NoCoin}
  /\ actions \in 0 .. MaxActions /\ needReset \in BOOLEAN
  /\ gaveUp \in BOOLEAN /\ lost \in 0 .. MaxLost

(* The busy indicator never stands for nothing, although several threads   *)
(* set and clear it: some thread is about to ask, a request is on its way  *)
(* or being answered, or one was given up and the timeout is still to come.*)
BusyHasCause ==
  busy => \/ \E t \in Callers : scan[t].pc = "claimed"
          \/ \E i \in Slots : threads[i].stage \in {"sent", "store", "release"}
          \/ gaveUp

(* "releasing busy state to avoid an infinite UI spinner": the indicator   *)
(* goes out in the end, whatever is lost.                                  *)
BusyReleased == busy ~> ~busy

(* An idle scanner asks again, unless it has timed out.                    *)
IdleScans == (active /\ ~busy /\ ~timedOut) ~> (~active \/ busy \/ timedOut)

(* "Scan orderbook widget every 30 seconds if there is not any update": on *)
(* an open page the scanner asks again and again.                          *)
ScansContinue == []<>(~active \/ \E i \in Slots : threads[i].stage = "sent")
=============================================================================
