---------------------------- MODULE ZhtlcActivation ----------------------------
(***************************************************************************)
(* Activation of ZHTLC coins (kdf_service::enable_zhtlc): a task of the    *)
(* KDF daemon scans the chain for minutes, and a pool thread polls its     *)
(* status every five seconds.  The coin is marked as enabled at the first  *)
(* scanning event, long before it is ready, and the main thread goes on    *)
(* meanwhile: the activation clock saves enabled coins as active, the tick *)
(* inserts announced rows, and the user may disable the coin.              *)
(*                                                                         *)
(* update_coin_status is one step here; CoinsFile has its own steps.  The  *)
(* queue in front of enable_zhtlc and the other coins are in               *)
(* CoinActivation.                                                         *)
(***************************************************************************)
EXTENDS Integers, FiniteSets

CONSTANTS
  Coins,       \* ZHTLC coins
  NoCoin,
  Tasks,       \* bound: activations; each is a daemon task and a pool thread that polls it
  MaxTries,    \* z_max_try (600 in the code)
  MaxLost,     \* bound: answers lost to the HTTP timeout
  MaxAlready   \* bound: "already activated" answers to one poll

ASSUME ZhtlcAssumption ==
  /\ NoCoin \notin Coins
  /\ MaxTries \in Nat \ {0}
  /\ {MaxLost, MaxAlready} \subseteq Nat

VARIABLES
  enabled,     \* m_coins_informations[c].currently_enabled
  active,      \* the coins saved as active
  status,      \* m_coins_informations[c].activation_status
  task,        \* what each polling thread is at
  job,         \* the daemon's side of each task
  daemon,      \* the daemon's view of each coin
  announced,   \* application::m_portfolio_queue
  rows,        \* coins with a portfolio row
  rpc,         \* the coin the main thread is disabling
  trouble,     \* history: coins of which an activation was refused, failed, lost or timed out
  overtaken,   \* history: coins that were disabled while one of their threads was at work
  hidden,      \* history: ready coins the daemon refused to disable
  lost         \* how many answers were lost

vars == <<enabled, active, status, task, job, daemon, announced, rows, rpc,
          trouble, overtaken, hidden, lost>>

-----------------------------------------------------------------------------
Pcs == {"free", "sent", "already", "poll", "sleep", "ended", "failed", "tail", "final", "done"}
Threads == [pc : Pcs, coin : Coins \cup {NoCoin}, last : {"none", "activating", "scanning"},
            tries : 0 .. MaxTries, again : 0 .. MaxAlready]
Fresh(pc, c) == [pc |-> pc, coin |-> c, last |-> "none", tries |-> 0, again |-> 0]
Free == Fresh("free", NoCoin)
Sent(c) == Fresh("sent", c)
Done(c) == Fresh("done", c)

Coin(t) == task[t].coin
At(t, pc) == task[t].pc = pc
Goto(t, pc) == task' = [task EXCEPT ![t].pc = pc]

Live(t) == task[t].pc \notin {"free", "done"}
Working(c) == \E t \in Tasks : Live(t) /\ Coin(t) = c

(* kdf_service::is_zhtlc_coin_ready.                                       *)
Ready(c) == status[c] = "ok"

Announce(c) == announced' = announced \cup {c}
Mark(c)     == enabled' = [enabled EXCEPT ![c] = TRUE]
Save(c, on) == active' = IF on THEN active \cup {c} ELSE active \ {c}
Trouble(c)  == trouble' = trouble \cup {c}

daemonVars == <<job, daemon>>
viewVars == <<announced, rows, rpc>>
historyVars == <<trouble, overtaken, hidden, lost>>

(* Login: the coins saved as active are activated.                         *)
Init ==
  /\ active \in SUBSET Coins
  /\ task \in [Tasks -> {Free} \cup {Sent(c) : c \in active}]
  /\ \A c \in active : \E t \in Tasks : \A u \in Tasks : task[u] = Sent(c) <=> u = t
  /\ enabled = [c \in Coins |-> FALSE]
  /\ status = [c \in Coins |-> "none"]
  /\ job = [t \in Tasks |-> "none"]
  /\ daemon = [c \in Coins |-> "off"]
  /\ announced = {} /\ rows = {} /\ rpc = NoCoin
  /\ trouble = {} /\ overtaken = {} /\ hidden = {} /\ lost = 0

-----------------------------------------------------------------------------
(* The main thread.                                                        *)

(* The user enables a coin: refused once it is marked as enabled, but not  *)
(* while an earlier request has not marked it yet.                         *)
Enable(t, c) ==
  /\ rpc = NoCoin /\ ~enabled[c]
  /\ At(t, "free") /\ t = CHOOSE u \in Tasks : At(u, "free")
  /\ task' = [task EXCEPT ![t] = Sent(c)]
  /\ overtaken' = IF Working(c) \/ c \in announced \cup rows THEN overtaken ELSE overtaken \ {c}
  /\ UNCHANGED <<enabled, active, status, daemonVars, viewVars, trouble, hidden, lost>>

(* Mutant: a coin in activation can be disabled.                           *)
DisableAnyTime(c) ==
  /\ rpc = NoCoin /\ c \in rows
  /\ rpc' = c
  /\ rows' = rows \ {c}
  /\ UNCHANGED <<enabled, active, status, task, daemonVars, announced, historyVars>>

(* application::disable_coins takes the row away first.                    *)
Disable(c) ==
  /\ rpc = NoCoin /\ c \in rows
  /\ Ready(c)
  /\ rpc' = c
  /\ rows' = rows \ {c}
  /\ UNCHANGED <<enabled, active, status, task, daemonVars, announced, historyVars>>

(* The blocking disable_coin RPC, none for a coin that is not enabled.  The *)
(* daemon refuses a coin it does not know yet, and one that a swap needs.  *)
DaemonDisables(c) ==
  IF ~enabled[c] THEN UNCHANGED <<daemon, enabled, overtaken, hidden>>
  ELSE \/ /\ daemon[c] = "ready"
          /\ daemon' = [daemon EXCEPT ![c] = "off"]
          /\ enabled' = [enabled EXCEPT ![c] = FALSE]
          /\ overtaken' = IF Working(c) \/ c \in announced THEN overtaken \cup {c} ELSE overtaken
          /\ UNCHANGED hidden
       \/ /\ hidden' = IF daemon[c] = "ready" THEN hidden \cup {c} ELSE hidden
          /\ UNCHANGED <<daemon, enabled, overtaken>>

(* Mutant: coins are not saved as inactive.                                *)
DisableEndUnsaved ==
  /\ rpc # NoCoin
  /\ DaemonDisables(rpc)
  /\ rpc' = NoCoin
  /\ UNCHANGED <<active, status, task, job, announced, rows, trouble, lost>>

(* The end of disable_multiple_coins: the coin is saved as inactive even   *)
(* when the daemon refused.                                                *)
DisableEnd ==
  /\ rpc # NoCoin
  /\ DaemonDisables(rpc)
  /\ Save(rpc, FALSE)
  /\ rpc' = NoCoin
  /\ UNCHANGED <<status, task, job, announced, rows, trouble, lost>>

(* The activation clock of kdf_service::update.                            *)
SaveEnabled ==
  /\ rpc = NoCoin
  /\ \E c \in Coins : enabled[c] /\ c \notin active
  /\ active' = active \cup {c \in Coins : enabled[c]}
  /\ UNCHANGED <<enabled, status, task, daemonVars, viewVars, historyVars>>

(* application::tick.                                                      *)
InsertRows ==
  /\ rpc = NoCoin /\ announced # {}
  /\ rows' = rows \cup announced
  /\ announced' = {}
  /\ UNCHANGED <<enabled, active, status, task, daemonVars, rpc, historyVars>>

-----------------------------------------------------------------------------
(* The daemon: a task ends.                                                *)
DaemonEnds(t) ==
  /\ job[t] = "runs"
  /\ \E good \in BOOLEAN :
       /\ job' = [job EXCEPT ![t] = IF good THEN "ok" ELSE "failed"]
       /\ daemon' = [daemon EXCEPT ![Coin(t)] = IF good THEN "ready" ELSE "off"]
  /\ UNCHANGED <<enabled, active, status, task, viewVars, historyVars>>

-----------------------------------------------------------------------------
(* The pool thread of one activation.                                      *)

(* The daemon answers task::enable_z_coin::init: a task, "already          *)
(* activated", or an error, which saves the coin as inactive.              *)
InitAnswered(t) ==
  LET c == Coin(t) IN
  /\ At(t, "sent")
  /\ \/ /\ daemon[c] = "off" /\ Goto(t, "poll")
        /\ job' = [job EXCEPT ![t] = "runs"] /\ daemon' = [daemon EXCEPT ![c] = "works"]
        /\ UNCHANGED trouble
     \/ daemon[c] = "ready" /\ Goto(t, "already") /\ Trouble(c) /\ UNCHANGED daemonVars
     \/ daemon[c] = "works" /\ Goto(t, "failed") /\ Trouble(c) /\ UNCHANGED daemonVars
  /\ UNCHANGED <<enabled, active, status, viewVars, overtaken, hidden, lost>>

(* Mutant: the thread polls although it has no task.                       *)
InitLostPolls(t) ==
  /\ At(t, "sent") /\ lost < MaxLost
  /\ lost' = lost + 1
  /\ Goto(t, "poll") /\ Trouble(Coin(t))
  /\ UNCHANGED <<enabled, active, status, daemonVars, viewVars, overtaken, hidden>>

(* The answer does not arrive, whether the daemon served the request or    *)
(* not: only the last continuation runs.                                   *)
InitLost(t) ==
  LET c == Coin(t) IN
  /\ At(t, "sent") /\ lost < MaxLost
  /\ lost' = lost + 1
  /\ Goto(t, "final") /\ Trouble(c)
  /\ \/ UNCHANGED daemonVars
     \/ /\ daemon[c] = "off"
        /\ job' = [job EXCEPT ![t] = "runs"] /\ daemon' = [daemon EXCEPT ![c] = "works"]
  /\ UNCHANGED <<enabled, active, status, viewVars, overtaken, hidden>>

(* "CoinIsAlreadyActivated": no poll, so the status stays what it was.     *)
AlreadyActivated(t) ==
  /\ At(t, "already")
  /\ Mark(Coin(t)) /\ Announce(Coin(t))
  /\ Goto(t, "tail")
  /\ UNCHANGED <<active, status, daemonVars, rows, rpc, historyVars>>

(* A poll sees the task at work.  A new scanning event marks the coin.     *)
PollProgress(t, event) ==
  /\ At(t, "poll") /\ job[t] = "runs"
  /\ task' = [task EXCEPT ![t].pc = "sleep", ![t].last = event]
  /\ IF event # task[t].last /\ ~enabled[Coin(t)] /\ event # "activating"
     THEN Mark(Coin(t)) /\ Announce(Coin(t))
     ELSE UNCHANGED <<enabled, announced>>
  /\ UNCHANGED <<active, status, daemonVars, rows, rpc, historyVars>>

(* Mutant: the tries are not counted.                                      *)
StoreUncounted(t) ==
  /\ At(t, "sleep")
  /\ status' = [status EXCEPT ![Coin(t)] = "progress"]
  /\ Goto(t, "poll")
  /\ UNCHANGED <<enabled, active, daemonVars, viewVars, historyVars>>

(* Five seconds later the answer of that poll becomes the status.          *)
Store(t) ==
  /\ At(t, "sleep")
  /\ status' = [status EXCEPT ![Coin(t)] = "progress"]
  /\ task' = [task EXCEPT ![t].tries = @ + 1,
                          ![t].pc = IF task[t].tries + 1 < MaxTries THEN "poll" ELSE "ended"]
  /\ UNCHANGED <<enabled, active, daemonVars, viewVars, historyVars>>

(* All tries used: the coin is saved as inactive, and stays enabled.       *)
TimedOut(t) ==
  /\ At(t, "ended")
  /\ Save(Coin(t), FALSE) /\ Trouble(Coin(t))
  /\ Goto(t, "failed")
  /\ UNCHANGED <<enabled, status, daemonVars, viewVars, overtaken, hidden, lost>>

(* Mutant: the status that made the loop end is not stored.                *)
PollOkUnstored(t) ==
  /\ At(t, "poll") /\ job[t] = "ok"
  /\ Mark(Coin(t)) /\ Announce(Coin(t))
  /\ Goto(t, "tail")
  /\ UNCHANGED <<active, status, daemonVars, rows, rpc, historyVars>>

(* The task is complete.                                                   *)
PollOk(t) ==
  /\ At(t, "poll") /\ job[t] = "ok"
  /\ status' = [status EXCEPT ![Coin(t)] = "ok"]
  /\ Mark(Coin(t)) /\ Announce(Coin(t))
  /\ Goto(t, "tail")
  /\ UNCHANGED <<active, daemonVars, rows, rpc, historyVars>>

(* The task failed: an error, or an Ok answer with an error inside, which  *)
(* is stored.                                                              *)
PollError(t) ==
  /\ At(t, "poll") /\ job[t] = "failed"
  /\ status' = [status EXCEPT ![Coin(t)] = "error"] \/ UNCHANGED status
  /\ Goto(t, "failed") /\ Trouble(Coin(t))
  /\ UNCHANGED <<enabled, active, daemonVars, viewVars, overtaken, hidden, lost>>

(* An Ok answer with CoinIsAlreadyActivated inside: the next poll follows  *)
(* at once, and the try is not counted.                                    *)
PollAlready(t) ==
  /\ At(t, "poll") /\ job[t] = "failed"
  /\ task[t].again < MaxAlready
  /\ task' = [task EXCEPT ![t].again = @ + 1]
  /\ status' = [status EXCEPT ![Coin(t)] = "error"]
  /\ UNCHANGED <<enabled, active, daemonVars, viewVars, historyVars>>

(* The poll throws: the coin is saved as inactive, and stays enabled if it *)
(* was.                                                                    *)
PollLost(t) ==
  /\ At(t, "poll") /\ lost < MaxLost
  /\ lost' = lost + 1
  /\ Goto(t, "failed") /\ Trouble(Coin(t))
  /\ UNCHANGED <<enabled, active, status, daemonVars, viewVars, overtaken, hidden>>

(* Mutant: a failed coin stays on the list of tickers.                     *)
RemovedAnnounced(t) ==
  /\ At(t, "failed")
  /\ Save(Coin(t), FALSE)
  /\ Announce(Coin(t))
  /\ Goto(t, "final")
  /\ UNCHANGED <<enabled, status, daemonVars, rows, rpc, historyVars>>

(* A failed coin is taken off the list of tickers and saved as inactive;   *)
(* the others are announced once more.                                     *)
Removed(t) ==
  /\ At(t, "failed")
  /\ Save(Coin(t), FALSE)
  /\ Goto(t, "final")
  /\ UNCHANGED <<enabled, status, daemonVars, viewVars, historyVars>>

Tail(t) ==
  /\ At(t, "tail")
  /\ Announce(Coin(t))
  /\ Goto(t, "final")
  /\ UNCHANGED <<enabled, active, status, daemonVars, rows, rpc, historyVars>>

(* The last continuation saves the coin as inactive, however it went.      *)
Final(t) ==
  /\ At(t, "final")
  /\ Save(Coin(t), FALSE)
  /\ task' = [task EXCEPT ![t] = Done(Coin(t))]
  /\ UNCHANGED <<enabled, status, daemonVars, viewVars, historyVars>>

ThreadStep(t) ==
  \/ InitAnswered(t) \/ InitLost(t) \/ AlreadyActivated(t)
  \/ \E event \in {"activating", "scanning"} : PollProgress(t, event)
  \/ Store(t) \/ TimedOut(t) \/ PollOk(t) \/ PollError(t) \/ PollAlready(t) \/ PollLost(t)
  \/ Removed(t) \/ Tail(t) \/ Final(t)

-----------------------------------------------------------------------------
MainStep == DisableEnd \/ SaveEnabled \/ InsertRows

Next ==
  \/ \E t \in Tasks : ThreadStep(t) \/ DaemonEnds(t) \/ \E c \in Coins : Enable(t, c)
  \/ \E c \in Coins : Disable(c)
  \/ MainStep

Spec == Init /\ [][Next]_vars

(* Threads go on (a request is answered or times out), and the main thread *)
(* comes back to its clock and its tick.  Neither the daemon nor the user  *)
(* is assumed to do anything.                                              *)
Fairness ==
  /\ \A t \in Tasks : WF_vars(ThreadStep(t))
  /\ WF_vars(DisableEnd) /\ WF_vars(SaveEnabled) /\ WF_vars(InsertRows)
FairSpec == Spec /\ Fairness

-----------------------------------------------------------------------------
(* Types, and the threads that poll have a task of the daemon.             *)
TypeOK ==
  /\ enabled \in [Coins -> BOOLEAN] /\ active \subseteq Coins
  /\ status \in [Coins -> {"none", "progress", "ok", "error"}]
  /\ task \in [Tasks -> Threads]
  /\ job \in [Tasks -> {"none", "runs", "ok", "failed"}]
  /\ daemon \in [Coins -> {"off", "works", "ready"}]
  /\ announced \subseteq Coins /\ rows \subseteq Coins /\ rpc \in Coins \cup {NoCoin}
  /\ trouble \subseteq Coins /\ overtaken \subseteq Coins /\ hidden \subseteq Coins /\ lost \in 0 .. MaxLost
  /\ \A t \in Tasks :
       /\ At(t, "free") <=> Coin(t) = NoCoin
       /\ task[t].pc \in {"poll", "sleep", "ended"} => job[t] # "none"

(* A coin that is enabled with nobody working on it any more is ready, so  *)
(* that it can be used and disabled, unless one of its activations was     *)
(* refused, failed, was lost or took too long.                             *)
StuckHasCause ==
  \A c \in Coins : enabled[c] /\ ~Working(c) => Ready(c) \/ c \in trouble

(* A coin that is enabled has a row, unless the daemon refused to disable  *)
(* it.  The guard of disable_coins lets a coin in activation go when it    *)
(* was activated before in this session, for its old status is still Ok:   *)
(* such a coin can be left enabled, invisible and not to be enabled again. *)
RowMissingHasCause ==
  \A c \in Coins :
    enabled[c] /\ ~Working(c) /\ rpc # c =>
      \/ c \in rows \cup announced \cup hidden
      \/ \E t, u \in Tasks : t # u /\ Coin(t) = c /\ Coin(u) = c

(* A disabled coin stays out of the registry and out of the portfolio,     *)
(* unless a thread of its activation was still at work when it was         *)
(* disabled: such a thread announces or marks it again.                    *)
DisabledStaysOff ==
  \A c \in rows \cup announced : enabled[c] \/ c \in overtaken

(* Every activation comes to its end: MaxTries polls, whatever the daemon  *)
(* answers.                                                                *)
ActivationEnds == \A t \in Tasks : Live(t) ~> ~Live(t)

(* Although every activation ends with saving its coin as inactive, what   *)
(* is saved in the end, once the user stops, is what is enabled: the next  *)
(* login activates exactly that.                                           *)
SavedInTheEnd == <>[](\A c \in Coins : c \in active <=> enabled[c])
=============================================================================
