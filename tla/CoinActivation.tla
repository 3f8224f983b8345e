--------------------------- MODULE CoinActivation ---------------------------
(***************************************************************************)
(* Enabling and disabling coins: application::enable_coins and             *)
(* disable_coins, the activation queue kdf_service::update empties, the    *)
(* activation RPCs sent to the KDF daemon, the callbacks that handle their *)
(* answers on pool threads, and the portfolio rows the tick inserts.       *)
(*                                                                         *)
(* Three kinds of agents run concurrently: the main (Qt) thread, which     *)
(* runs the user's commands and the tick; the daemon; and the callbacks,   *)
(* one per answered call.  A callback is a program of micro steps: each    *)
(* takes m_coin_cfg_mutex once (mark, unmark) or triggers one              *)
(* coin_fully_initialized (announce), and other agents run in between.     *)
(*                                                                         *)
(* ZHTLC coins have an activation loop of their own: see ZhtlcActivation.  *)
(***************************************************************************)
EXTENDS Integers, Sequences, FiniteSets

CONSTANTS
  Coins,          \* tickers of the coins registry
  Platform,       \* the parent the activation groups a coin under, or NoCoin (UTXO, QRC20)
  NoCoin,
  AskAgainMarks,  \* coins whose callback marks them on TokenIsAlreadyActivated (SLP, Tendermint)
  Protected,      \* default coins: always active in the config and never disabled
  BatchLimit,     \* coins taken from the queue per update (20 in the code)
  MaxEnabled,     \* setting MaximumNbCoinsEnabled
  AllowResubmit,  \* may the user ask again for a coin that is still on its way?
  MaxCommands,    \* bound: user commands
  MaxLost,        \* bound: answers lost to the 30 s HTTP timeout
  MaxCrashes      \* bound: crashes of the application

ASSUME CoinsAssumption ==
  /\ Platform \in [Coins -> Coins \cup {NoCoin}]
  /\ NoCoin \notin Coins
  /\ \A c \in Coins : Platform[c] \in Coins => Platform[Platform[c]] = Platform[c]
  /\ AskAgainMarks \subseteq Coins
  /\ Protected \subseteq Coins
  /\ IsFiniteSet(Coins)
ASSUME LimitsAssumption ==
  /\ BatchLimit \in Nat \ {0}
  /\ MaxEnabled \in Nat
  /\ AllowResubmit \in BOOLEAN
  /\ {MaxCommands, MaxLost, MaxCrashes} \subseteq Nat

VARIABLES
  enabled,        \* m_coins_informations[c].currently_enabled
  active,         \* m_coins_informations[c].active, and "active" in the coins file
  queue,          \* m_activation_queue
  mainOp,         \* what the main thread is in the middle of
  work,           \* coins it still has to handle in that operation
  tokens,         \* tokens of a group whose parent was read as enabled, not yet sent
  batch,          \* the coins of the running disable_multiple_coins
  rpc,            \* the running synchronous disable_coin RPC: its coin and its answer
  calls,          \* activation RPCs in flight and their callbacks
  daemon,         \* coins running in the KDF daemon
  portfolioQueue, \* application::m_portfolio_queue
  rows,           \* coins with a portfolio row (and enabled in global_coins_cfg_model)
  hidden,         \* history: coins whose row a disable removed and no announcement restored
  used            \* how much of the bounds was used

vars == <<enabled, active, queue, mainOp, work, tokens, batch, rpc, calls, daemon,
          portfolioQueue, rows, hidden, used>>

mainVars == <<mainOp, work, tokens, batch, rpc>>

-----------------------------------------------------------------------------
Utxo == {c \in Coins : Platform[c] = NoCoin}

MicroSteps == [do : {"mark", "unmark", "announce"}, coins : SUBSET Coins]
Unmark(S)   == [do |-> "unmark", coins |-> S]
Announce(S) == [do |-> "announce", coins |-> S]

(***************************************************************************)
(* A call is "sent" until the daemon serves it, then "served": its script  *)
(* is what the callback still has to do.  A call whose answer the client   *)
(* gave up on before the daemon served it is "lost".                       *)
(***************************************************************************)
Calls ==
  {call \in [st : {"sent", "served", "lost"}, kind : {"utxo", "platform", "token"},
             top : Coins \cup {NoCoin}, coins : SUBSET Coins, script : Seq(MicroSteps)] :
     /\ call.kind # "utxo" => call.top \in Coins
     /\ call.st = "served" <=> call.script # <<>>}

UtxoCall(S)        == [st |-> "sent", kind |-> "utxo", top |-> NoCoin, coins |-> S, script |-> <<>>]
PlatformCall(p, S) == [st |-> "sent", kind |-> "platform", top |-> p, coins |-> S, script |-> <<>>]
TokenCall(t)       == [st |-> "sent", kind |-> "token", top |-> t, coins |-> {}, script |-> <<>>]

Rpcs  == [coin : Coins \cup {NoCoin}, answer : {"none", "awaited", "ok", "refused"}]
NoRpc == [coin |-> NoCoin, answer |-> "none"]

Asked(call) == call.coins \cup ({call.top} \ {NoCoin})

WithoutCall(i) == [j \in 1 .. Len(calls) - 1 |-> IF j < i THEN calls[j] ELSE calls[j + 1]]

Queued == {queue[i] : i \in DOMAIN queue}

(* The coins whose activation is asked for and not yet answered.           *)
Pending(c) ==
  \/ c \in Queued \cup work \cup tokens
  \/ \E i \in DOMAIN calls :
       \/ calls[i].st = "sent" /\ c \in Asked(calls[i])
       \/ /\ calls[i].st = "served"
          /\ \E k \in DOMAIN calls[i].script : c \in calls[i].script[k].coins

Orderings(S) == {f \in [1 .. Cardinality(S) -> S] : \A i, j \in DOMAIN f : f[i] = f[j] => i = j}

-----------------------------------------------------------------------------
(* Login: the config gives the active coins, the default ones included,    *)
(* and enable_default_coins queues them in the order of an unordered map.  *)
Init ==
  /\ active \in {f \in [Coins -> BOOLEAN] : \A c \in Protected : f[c]}
  /\ Cardinality({c \in Coins : active[c]}) <= MaxEnabled
  /\ queue \in Orderings({c \in Coins : active[c]})
  /\ enabled = [c \in Coins |-> FALSE]
  /\ mainOp = "idle" /\ work = {} /\ tokens = {} /\ batch = {} /\ rpc = NoRpc
  /\ calls = <<>> /\ daemon = {}
  /\ portfolioQueue = {} /\ rows = {} /\ hidden = {}
  /\ used = [commands |-> 0, lost |-> 0, crashes |-> 0]

-----------------------------------------------------------------------------
(* The user's commands, on the main thread.                                *)

(* The platform coins application::enable_coins adds to the chosen ones.   *)
ExtraCoins(chosen) ==
  {p \in Coins \ chosen : /\ \E c \in chosen : Platform[c] = p
                          /\ ~enabled[p] /\ ~active[p]}

(* enable_coins copies the registry entries and skips the enabled ones in  *)
(* one read of the registry each, so the copies it queues say "not         *)
(* enabled": the same test made on the copy by activate_coins never skips. *)
EnableCoins(chosen) ==
  LET asked == chosen \cup ExtraCoins(chosen)
  IN  /\ mainOp = "idle"
      /\ chosen # {}
      /\ used.commands < MaxCommands
      /\ Cardinality(chosen) + Cardinality(rows) <= MaxEnabled
      /\ AllowResubmit \/ \A c \in asked : ~Pending(c)
      /\ \E new \in Orderings({c \in asked : ~enabled[c]}) : queue' = queue \o new
      /\ used' = [used EXCEPT !.commands = @ + 1]
      /\ UNCHANGED <<enabled, active, mainVars, calls, daemon, portfolioQueue, rows, hidden>>

(* disable_coins removes the rows first, then disables one coin at a time. *)
DisableCoins(chosen) ==
  /\ mainOp = "idle"
  /\ used.commands < MaxCommands
  /\ chosen # {} /\ chosen \subseteq rows \ Protected
  /\ rows' = rows \ chosen
  /\ hidden' = hidden \cup chosen
  /\ mainOp' = "disable" /\ work' = chosen /\ batch' = chosen
  /\ used' = [used EXCEPT !.commands = @ + 1]
  /\ UNCHANGED <<enabled, active, queue, tokens, rpc, calls, daemon, portfolioQueue>>

(* kdf_service::disable_coin: nothing to do for a coin not enabled, else a *)
(* blocking RPC.  Tokens come before their platform.                       *)
DisableCoin(c) ==
  /\ mainOp = "disable" /\ rpc = NoRpc /\ c \in work
  /\ Platform[c] = c => \A t \in work : t # c => Platform[t] # c
  /\ IF enabled[c]
     THEN rpc' = [coin |-> c, answer |-> "awaited"] /\ UNCHANGED work
     ELSE work' = work \ {c} /\ UNCHANGED rpc
  /\ UNCHANGED <<enabled, active, queue, mainOp, tokens, batch, calls, daemon,
                 portfolioQueue, rows, hidden, used>>

(* The daemon answers disable_coin.  "refused" stands for every error text *)
(* (unknown coin, active swaps, matching orders, others): none of them     *)
(* changes the registry.                                                   *)
DaemonDisables ==
  /\ rpc.answer = "awaited"
  /\ \/ /\ rpc.coin \in daemon
        /\ daemon' = daemon \ {rpc.coin}
        /\ rpc' = [rpc EXCEPT !.answer = "ok"]
     \/ rpc' = [rpc EXCEPT !.answer = "refused"] /\ UNCHANGED daemon
  /\ UNCHANGED <<enabled, active, queue, mainOp, work, tokens, batch, calls,
                 portfolioQueue, rows, hidden, used>>

(* Mutant: a successful answer leaves the flag.                            *)
DisableAnsweredNoReset ==
  /\ rpc.answer \in {"ok", "refused"}
  /\ work' = work \ {rpc.coin}
  /\ rpc' = NoRpc
  /\ UNCHANGED <<enabled, active, queue, mainOp, tokens, batch, calls, daemon,
                 portfolioQueue, rows, hidden, used>>

DisableAnswered ==
  /\ rpc.answer \in {"ok", "refused"}
  /\ enabled' = [c \in Coins |-> enabled[c] /\ ~(c = rpc.coin /\ rpc.answer = "ok")]
  /\ work' = work \ {rpc.coin}
  /\ rpc' = NoRpc
  /\ UNCHANGED <<active, queue, mainOp, tokens, batch, calls, daemon,
                 portfolioQueue, rows, hidden, used>>

(* update_coin_status(all tickers, false), refused ones included.          *)
DisableFinished ==
  /\ mainOp = "disable" /\ work = {}
  /\ active' = [c \in Coins |-> active[c] /\ c \notin batch]
  /\ mainOp' = "idle" /\ batch' = {}
  /\ UNCHANGED <<enabled, queue, work, tokens, rpc, calls, daemon,
                 portfolioQueue, rows, hidden, used>>

-----------------------------------------------------------------------------
(* kdf_service::update, on the main thread.                                *)

(* Mutants: one coin too many leaves the queue; nothing is saved.          *)
UpdateActivationOffByOne ==
  LET n == IF Len(queue) < BatchLimit THEN Len(queue) ELSE BatchLimit
  IN  /\ mainOp = "idle"
      /\ active' = [c \in Coins |-> active[c] \/ enabled[c]]
      /\ work' = {queue[i] : i \in 1 .. n}
      /\ queue' = SubSeq(queue, n + 2, Len(queue))
      /\ mainOp' = IF n = 0 THEN "idle" ELSE "activate"
      /\ UNCHANGED <<enabled, tokens, batch, rpc, calls, daemon, portfolioQueue,
                     rows, hidden, used>>
UpdateActivationUnsaved ==
  LET n == IF Len(queue) < BatchLimit THEN Len(queue) ELSE BatchLimit
  IN  /\ mainOp = "idle"
      /\ work' = {queue[i] : i \in 1 .. n}
      /\ queue' = SubSeq(queue, n + 1, Len(queue))
      /\ mainOp' = IF n = 0 THEN "idle" ELSE "activate"
      /\ UNCHANGED <<enabled, active, tokens, batch, rpc, calls, daemon, portfolioQueue,
                     rows, hidden, used>>

(* The 7 s activation clock fires: every enabled coin is saved as active,  *)
(* then at most BatchLimit coins leave the queue.                          *)
UpdateActivation ==
  LET n == IF Len(queue) < BatchLimit THEN Len(queue) ELSE BatchLimit
  IN  /\ mainOp = "idle"
      /\ active' = [c \in Coins |-> active[c] \/ enabled[c]]
      /\ work' = {queue[i] : i \in 1 .. n}
      /\ queue' = SubSeq(queue, n + 1, Len(queue))
      /\ mainOp' = IF n = 0 THEN "idle" ELSE "activate"
      /\ UNCHANGED <<enabled, tokens, batch, rpc, calls, daemon, portfolioQueue,
                     rows, hidden, used>>

(* activate_coins, first group: one "electrum" batch for all UTXO coins.   *)
ActivateUtxo ==
  /\ mainOp = "activate" /\ tokens = {}
  /\ work \cap Utxo # {}
  /\ calls' = Append(calls, UtxoCall(work \cap Utxo))
  /\ work' = work \ Utxo
  /\ UNCHANGED <<enabled, active, queue, mainOp, tokens, batch, rpc, daemon,
                 portfolioQueue, rows, hidden, used>>

(* activate_coins, the groups with a parent: one call for the parent with  *)
(* the tokens, or, when the parent is enabled, one call per token.         *)
ActivateGroup(p) ==
  LET group == {c \in work : Platform[c] = p}
  IN  /\ mainOp = "activate" /\ tokens = {}
      /\ work \cap Utxo = {}
      /\ group # {}
      /\ work' = work \ group
      /\ IF enabled[p]
         THEN tokens' = group \ {p} /\ UNCHANGED calls
         ELSE calls' = Append(calls, PlatformCall(p, group \ {p})) /\ UNCHANGED tokens
      /\ UNCHANGED <<enabled, active, queue, mainOp, batch, rpc, daemon,
                     portfolioQueue, rows, hidden, used>>

SendToken(t) ==
  /\ t \in tokens
  /\ calls' = Append(calls, TokenCall(t))
  /\ tokens' = tokens \ {t}
  /\ UNCHANGED <<enabled, active, queue, mainOp, work, batch, rpc, daemon,
                 portfolioQueue, rows, hidden, used>>

ActivateFinished ==
  /\ mainOp = "activate" /\ work = {} /\ tokens = {}
  /\ mainOp' = "idle"
  /\ UNCHANGED <<enabled, active, queue, work, tokens, batch, rpc, calls, daemon,
                 portfolioQueue, rows, hidden, used>>

(* Mutant: the tick takes one announced coin and forgets the others.       *)
InitializeOne ==
  /\ mainOp = "idle"
  /\ \E c \in portfolioQueue : rows' = rows \cup {c} /\ hidden' = hidden \ {c}
  /\ portfolioQueue' = {}
  /\ UNCHANGED <<enabled, active, queue, mainVars, calls, daemon, used>>

(* application::tick: the announced coins get a portfolio row.             *)
InitializePortfolio ==
  /\ mainOp = "idle"
  /\ portfolioQueue # {}
  /\ rows' = rows \cup portfolioQueue
  /\ hidden' = hidden \ portfolioQueue
  /\ portfolioQueue' = {}
  /\ UNCHANGED <<enabled, active, queue, mainVars, calls, daemon, used>>

-----------------------------------------------------------------------------
(* The daemon, and the callbacks of its answers.                           *)

(* The daemon acted on call i; its answer runs the script, unless there is *)
(* nothing to do or the client no longer waits for it.                     *)
Answer(i, script) ==
  calls' = IF calls[i].st = "sent" /\ script # <<>>
           THEN [calls EXCEPT ![i] = [calls[i] EXCEPT !.st = "served", !.script = script]]
           ELSE WithoutCall(i)

(* An ok answer announces each coin before it marks it, an "already"       *)
(* answer after; the parent comes before its tokens.                       *)
Alternate(order, first, second) ==
  [k \in 1 .. 2 * Len(order) |->
     [do |-> IF k % 2 = 1 THEN first ELSE second, coins |-> {order[(k + 1) \div 2]}]]
TopFirst(call) == {<<call.top>> \o order : order \in Orderings(call.coins)}
(* Mutants: only the parent is announced; the marked coins are not.        *)
ParentAnnounced(call) ==
  {SelectSeq(Alternate(order, "announce", "mark"),
             LAMBDA step : step.do = "mark" \/ call.top \in step.coins) : order \in TopFirst(call)}
MarkedOnly(call) == {Alternate(order, "mark", "mark") : order \in TopFirst(call)}
OkScripts(call) == {Alternate(order, "announce", "mark") : order \in TopFirst(call)}
AlreadyScripts(call) == {Alternate(order, "mark", "announce") : order \in TopFirst(call)}

(* The UTXO callback goes through the batch of answers (an ok answer marks *)
(* its coin), marks every activated coin, announces them all at once and   *)
(* then unmarks the failed ones.  A coin "already initialized" counts as   *)
(* activated.                                                              *)
Each(what, order, among) ==
  [k \in 1 .. Len(order) |-> [do |-> what, coins |-> {order[k]} \cap among]]
(* Mutant: the refused coins are announced with the others.                *)
UtxoScriptAnnouncingAll(order, fresh, activated, failed) ==
  Each("mark", order, fresh) \o Each("mark", order, activated)
    \o <<Announce(activated \cup failed)>> \o Each("unmark", order, failed)
UtxoScript(order, fresh, activated, failed) ==
  Each("mark", order, fresh) \o Each("mark", order, activated)
    \o <<Announce(activated)>> \o Each("unmark", order, failed)

ServeUtxo(i) ==
  LET S == calls[i].coins
  IN  /\ calls[i].kind = "utxo"
      /\ \E failed \in SUBSET (S \ daemon), order \in Orderings(S) :
           /\ daemon' = daemon \cup (S \ failed)
           /\ Answer(i, UtxoScript(order, (S \ failed) \ daemon, S \ failed, failed))

(* The daemon activates a platform with all its tokens, or refuses.        *)
ServePlatform(i) ==
  LET p == calls[i].top
  IN  /\ calls[i].kind = "platform"
      /\ \/ /\ p \in daemon
            /\ \E script \in AlreadyScripts(calls[i]) : Answer(i, script)
            /\ UNCHANGED daemon
         \/ /\ p \notin daemon
            /\ \E script \in OkScripts(calls[i]) : Answer(i, script)
            /\ daemon' = daemon \cup Asked(calls[i])
         \/ /\ p \notin daemon
            /\ Answer(i, <<Unmark({p})>>)
            /\ UNCHANGED daemon

(* The ERC-20 callback only logs TokenIsAlreadyActivated.                  *)
ServeToken(i) ==
  LET t == calls[i].top
  IN  /\ calls[i].kind = "token"
      /\ \/ /\ t \in daemon
            /\ \E script \in (IF t \in AskAgainMarks THEN AlreadyScripts(calls[i]) ELSE {<<>>}) :
                 Answer(i, script)
            /\ UNCHANGED daemon
         \/ /\ t \notin daemon /\ Platform[t] \in daemon
            /\ \E script \in OkScripts(calls[i]) : Answer(i, script)
            /\ daemon' = daemon \cup {t}
         \/ /\ t \notin daemon
            /\ Answer(i, <<Unmark({t})>>)
            /\ UNCHANGED daemon

Serve(i) ==
  /\ calls[i].st # "served"
  /\ ServeUtxo(i) \/ ServePlatform(i) \/ ServeToken(i)
  /\ UNCHANGED <<enabled, active, queue, mainVars, portfolioQueue, rows, hidden, used>>

(* One micro step of the callback of call i.                               *)
Callback(i) ==
  LET step == Head(calls[i].script)
  IN  /\ calls[i].st = "served"
      /\ calls' = IF Len(calls[i].script) = 1
                  THEN WithoutCall(i)
                  ELSE [calls EXCEPT ![i] = [calls[i] EXCEPT !.script = Tail(calls[i].script)]]
      /\ enabled' = [c \in Coins |-> \/ step.do = "mark" /\ c \in step.coins
                                     \/ enabled[c] /\ ~(step.do = "unmark" /\ c \in step.coins)]
      /\ portfolioQueue' = IF step.do = "announce" THEN portfolioQueue \cup step.coins
                                                   ELSE portfolioQueue
      /\ UNCHANGED <<active, queue, mainVars, daemon, rows, hidden, used>>

(* The 30 s timeout, or an answer that cannot be used: no callback, no     *)
(* flag changes, nobody is told.  The daemon may still act on the call.    *)
LoseAnswer(i) ==
  /\ used.lost < MaxLost
  /\ calls[i].st = "sent"
  /\ calls' = [calls EXCEPT ![i] = [calls[i] EXCEPT !.st = "lost"]]
  /\ used' = [used EXCEPT !.lost = @ + 1]
  /\ UNCHANGED <<enabled, active, queue, mainVars, daemon, portfolioQueue, rows, hidden>>

(* The application dies and is started again: only the coins file is left, *)
(* and a new daemon replaces the old one.                                  *)
CrashRestart ==
  /\ used.crashes < MaxCrashes
  /\ used' = [used EXCEPT !.crashes = @ + 1]
  /\ enabled' = [c \in Coins |-> FALSE]
  /\ active' = [c \in Coins |-> active[c] \/ c \in Protected]
  /\ queue' \in Orderings({c \in Coins : active'[c]})
  /\ mainOp' = "idle" /\ work' = {} /\ tokens' = {} /\ batch' = {} /\ rpc' = NoRpc
  /\ calls' = <<>> /\ daemon' = {}
  /\ portfolioQueue' = {} /\ rows' = {} /\ hidden' = {}

-----------------------------------------------------------------------------
Next ==
  \/ \E chosen \in SUBSET Coins : EnableCoins(chosen)
  \/ \E chosen \in SUBSET Coins : DisableCoins(chosen)
  \/ \E c \in Coins : DisableCoin(c)
  \/ DaemonDisables
  \/ DisableAnswered
  \/ DisableFinished
  \/ UpdateActivation
  \/ ActivateUtxo
  \/ \E p \in Coins : ActivateGroup(p)
  \/ \E t \in Coins : SendToken(t)
  \/ ActivateFinished
  \/ InitializePortfolio
  \/ \E i \in DOMAIN calls : Serve(i)
  \/ \E i \in DOMAIN calls : Callback(i)
  \/ \E i \in DOMAIN calls : LoseAnswer(i)
  \/ CrashRestart

Spec == Init /\ [][Next]_vars

(* The Qt timer keeps ticking, the main thread finishes what it began, the *)
(* daemon answers and the pool runs every callback.  The user, the loss of *)
(* an answer and a crash are never forced.                                 *)
Fairness ==
  /\ WF_vars(\E c \in Coins : DisableCoin(c))
  /\ WF_vars(DaemonDisables) /\ WF_vars(DisableAnswered) /\ WF_vars(DisableFinished)
  /\ WF_vars(UpdateActivation) /\ WF_vars(InitializePortfolio)
  /\ WF_vars(ActivateUtxo) /\ WF_vars(\E p \in Coins : ActivateGroup(p))
  /\ WF_vars(\E t \in Coins : SendToken(t)) /\ WF_vars(ActivateFinished)
  /\ WF_vars(\E i \in DOMAIN calls : Serve(i))
  /\ WF_vars(\E i \in DOMAIN calls : Callback(i))

FairSpec == Spec /\ Fairness

-----------------------------------------------------------------------------
(* Properties.                                                             *)

(* The type of every variable.                                             *)
TypeOK ==
  /\ enabled \in [Coins -> BOOLEAN] /\ active \in [Coins -> BOOLEAN]
  /\ queue \in Seq(Coins)
  /\ mainOp \in {"idle", "activate", "disable"}
  /\ work \subseteq Coins /\ tokens \subseteq Coins /\ batch \subseteq Coins
  /\ rpc \in Rpcs /\ (rpc.answer # "none" => rpc.coin \in Coins)
  /\ calls \in Seq(Calls)
  /\ daemon \subseteq Coins
  /\ portfolioQueue \subseteq Coins /\ rows \subseteq Coins
  /\ hidden \subseteq Coins
  /\ used \in [commands : Nat, lost : Nat, crashes : Nat]

(* No enabled coin is missing from the portfolio by accident: whichever    *)
(* callback set the flag, the coin has a row, or the tick or a callback    *)
(* will still give it one, or the user removed the row.                    *)
Accounted(c) == c \in rows \cup portfolioQueue \cup hidden
Announces(script, c) == \E k \in DOMAIN script : script[k].do = "announce" /\ c \in script[k].coins
Scripts == {calls[i].script : i \in {j \in DOMAIN calls : calls[j].st = "served"}}
NoneMissing ==
  \A c \in Coins : enabled[c] => Accounted(c) \/ \E script \in Scripts : Announces(script, c)

(* What makes it hold: wherever a callback stands, a coin it has still to  *)
(* mark was announced before, or the same callback announces it.           *)
MarksAnnounced ==
  \A script \in Scripts : \A k \in DOMAIN script :
    script[k].do = "mark" => \A c \in script[k].coins : Accounted(c) \/ Announces(script, c)

(* A UTXO coin the registry calls enabled runs in the daemon, except while *)
(* the daemon's answer to disable_coin is on its way.  Needs a user who    *)
(* does not ask twice (AllowResubmit = FALSE): with two calls in flight a  *)
(* late "already initialized" marks a coin disabled in between.            *)
UtxoEnabledRuns ==
  \A c \in Utxo : enabled[c] => c \in daemon \/ rpc = [coin |-> c, answer |-> "ok"]

(* Under the same condition a row of a UTXO coin is the row of an enabled  *)
(* coin: no failed or late answer leaves a row behind.                     *)
UtxoRowsEnabled == \A c \in rows \cap Utxo : enabled[c]

(* A coin that leaves the activation queue, or a group being sent, is in a *)
(* call, or is the enabled parent of its group; only a crash drops it.     *)
Waiting == Queued \cup tokens \cup (IF mainOp = "activate" THEN work ELSE {})
NoneDropped ==
  [][\/ used'.crashes # used.crashes
     \/ \A c \in Waiting \ Waiting' : \/ \E i \in DOMAIN calls' : c \in Asked(calls'[i])
                                      \/ enabled[c]]_vars

(* Every enabled coin is saved as active, or stops being enabled: the next *)
(* login finds it.                                                         *)
EnabledIsSaved == \A c \in Coins : enabled[c] ~> (active[c] \/ ~enabled[c])

(* Every enabled coin gets its row, or the user removed it.                *)
EnabledIsShown == \A c \in Coins : enabled[c] ~> (c \in rows \cup hidden \/ ~enabled[c])

=============================================================================
