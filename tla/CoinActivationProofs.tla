------------------------ MODULE CoinActivationProofs ------------------------
(***************************************************************************)
(* Proofs about CoinActivation for every set of coins and every bound: the *)
(* types; that an enabled coin is in the portfolio page, about to be, or   *)
(* was taken out by the user; that no coin asked for is dropped while a    *)
(* disable runs; and, for a user who does not ask for a coin that is still *)
(* on its way, that an enabled UTXO coin runs and that its row is the row  *)
(* of an enabled coin.                                                     *)
(***************************************************************************)
EXTENDS CoinActivation, FiniteSetTheorems, SequenceTheorems, TLAPS

(* An ordering of some coins is a sequence of those coins.                 *)
LEMMA OrderingsType ==
  ASSUME NEW S \in SUBSET Coins, NEW f \in Orderings(S)
  PROVE  f \in Seq(Coins) /\ \A k \in DOMAIN f : f[k] \in S
<1>1. IsFiniteSet(S)
  BY CoinsAssumption, FS_Subset
<1>2. Cardinality(S) \in Nat
  BY <1>1, FS_CardinalityType
<1> QED
  BY <1>2 DEF Orderings

(* Removing a call leaves a sequence of the other calls.                   *)
LEMMA WithoutCallType ==
  ASSUME calls \in Seq(Calls), NEW i \in DOMAIN calls
  PROVE  /\ WithoutCall(i) \in Seq(Calls)
         /\ \A j \in DOMAIN WithoutCall(i) :
              \E k \in DOMAIN calls : k # i /\ WithoutCall(i)[j] = calls[k]
  BY DEF WithoutCall

(* The single steps of a callback are steps.                               *)
LEMMA MicroStepTypes ==
  ASSUME NEW S \in SUBSET Coins
  PROVE  Unmark(S) \in MicroSteps /\ Announce(S) \in MicroSteps
  BY DEF Unmark, Announce, MicroSteps

(* One step per coin of an ordering is a script.                           *)
LEMMA EachType ==
  ASSUME NEW order \in Seq(Coins), NEW what \in {"mark", "unmark"}, NEW among \in SUBSET Coins
  PROVE  Each(what, order, among) \in Seq(MicroSteps)
<1>1. \A k \in 1 .. Len(order) :
        [do |-> what, coins |-> {order[k]} \cap among] \in MicroSteps
  BY DEF MicroSteps
<1> QED
  BY <1>1 DEF Each

(* Marking and announcing the coins one by one is a script, never empty.   *)
LEMMA AlternateType ==
  ASSUME NEW order \in Seq(Coins), order # <<>>,
         NEW first \in {"mark", "announce"}, NEW second \in {"mark", "announce"}
  PROVE  Alternate(order, first, second) \in Seq(MicroSteps) \ {<<>>}
<1>1. \A k \in 1 .. 2 * Len(order) : (k + 1) \div 2 \in DOMAIN order
  OBVIOUS
<1>2. \A k \in DOMAIN order : {order[k]} \in SUBSET Coins
  OBVIOUS
<1>3. 2 * Len(order) \in Nat \ {0}
  OBVIOUS
<1> QED
  BY <1>1, <1>2, <1>3 DEF Alternate, MicroSteps

(* The scripts of the callbacks are scripts.                               *)
LEMMA ScriptTypes ==
  ASSUME NEW call \in Calls, call.kind # "utxo"
  PROVE  /\ OkScripts(call) \subseteq Seq(MicroSteps) \ {<<>>}
         /\ AlreadyScripts(call) \subseteq Seq(MicroSteps) \ {<<>>}
<1>1. call.top \in Coins /\ call.coins \in SUBSET Coins
  BY DEF Calls
<1>2. \A order \in TopFirst(call) : order \in Seq(Coins) /\ order # <<>>
  BY <1>1, OrderingsType DEF TopFirst
<1> QED
  BY <1>2, AlternateType DEF OkScripts, AlreadyScripts

(* The fields of a call have their types, and so has a call that moves on. *)
LEMMA CallTypes ==
  ASSUME NEW call \in Calls
  PROVE  /\ call.script \in Seq(MicroSteps)
         /\ call.top \in Coins \cup {NoCoin} /\ call.coins \in SUBSET Coins
         /\ \A script \in Seq(MicroSteps) \ {<<>>} :
              [call EXCEPT !.st = "served", !.script = script] \in Calls
         /\ call.st = "sent" => [call EXCEPT !.st = "lost"] \in Calls
         /\ call.st = "served" => /\ call.script # <<>>
                                  /\ \A script \in Seq(MicroSteps) \ {<<>>} :
                                       [call EXCEPT !.script = script] \in Calls
<1>1. /\ call \in [st : {"sent", "served", "lost"}, kind : {"utxo", "platform", "token"},
                  top : Coins \cup {NoCoin}, coins : SUBSET Coins, script : Seq(MicroSteps)]
      /\ call.kind # "utxo" => call.top \in Coins
      /\ call.st = "served" <=> call.script # <<>>
  BY DEF Calls
<1>2. ASSUME NEW script \in Seq(MicroSteps) \ {<<>>}
      PROVE  [call EXCEPT !.st = "served", !.script = script] \in Calls
  BY <1>1 DEF Calls
<1>3. ASSUME call.st = "sent" PROVE [call EXCEPT !.st = "lost"] \in Calls
  BY <1>1, <1>3 DEF Calls
<1>4. ASSUME call.st = "served", NEW script \in Seq(MicroSteps) \ {<<>>}
      PROVE  [call EXCEPT !.script = script] \in Calls
  BY <1>1, <1>4 DEF Calls
<1> QED
  BY <1>1, <1>2, <1>3, <1>4

(* Answering a call leaves a sequence of calls.                            *)
LEMMA AnswerType ==
  ASSUME calls \in Seq(Calls), NEW i \in DOMAIN calls,
         NEW script \in Seq(MicroSteps), Answer(i, script)
  PROVE  calls' \in Seq(Calls)
<1>0. calls[i] \in Calls
  OBVIOUS
<1>1. CASE calls[i].st = "sent" /\ script # <<>>
  <2>1. [calls[i] EXCEPT !.st = "served", !.script = script] \in Calls
    BY <1>0, <1>1, CallTypes
  <2> QED
    BY <1>1, <2>1 DEF Answer
<1>2. CASE ~(calls[i].st = "sent" /\ script # <<>>)
  BY <1>2, WithoutCallType DEF Answer
<1> QED
  BY <1>1, <1>2

(* The service answers a call with a call and marks within type.           *)
LEMMA ServeType ==
  ASSUME TypeOK, NEW i \in DOMAIN calls, Serve(i)
  PROVE  calls' \in Seq(Calls) /\ daemon' \subseteq Coins
<1> USE DEF TypeOK
<1>0. calls[i] \in Calls
  OBVIOUS
<1>1. CASE ServeUtxo(i)
  <2> DEFINE S == calls[i].coins
  <2>1. S \in SUBSET Coins
    BY <1>0 DEF Calls
  <2>2. PICK failed \in SUBSET (S \ daemon), order \in Orderings(S) :
        /\ daemon' = daemon \cup (S \ failed)
        /\ Answer(i, UtxoScript(order, (S \ failed) \ daemon, S \ failed, failed))
    BY <1>1 DEF ServeUtxo
  <2> HIDE DEF S
  <2>3. order \in Seq(Coins)
    BY <2>1, OrderingsType
  <2>4. /\ Each("mark", order, (S \ failed) \ daemon) \in Seq(MicroSteps)
        /\ Each("mark", order, S \ failed) \in Seq(MicroSteps)
        /\ Each("unmark", order, failed) \in Seq(MicroSteps)
        /\ <<Announce(S \ failed)>> \in Seq(MicroSteps)
    BY <2>1, <2>3, EachType, MicroStepTypes
  <2>5. UtxoScript(order, (S \ failed) \ daemon, S \ failed, failed) \in Seq(MicroSteps)
    BY <2>4 DEF UtxoScript
  <2> QED
    BY <2>1, <2>2, <2>5, AnswerType
<1>2. CASE ServePlatform(i) \/ ServeToken(i)
  <2>1. calls[i].kind # "utxo" /\ calls[i].top \in Coins /\ Asked(calls[i]) \subseteq Coins
    BY <1>0, <1>2 DEF ServePlatform, ServeToken, Calls, Asked
  <2>2. daemon' \subseteq Coins
    BY <1>2, <2>1 DEF ServePlatform, ServeToken
  <2>3. <<Unmark({calls[i].top})>> \in Seq(MicroSteps)
    BY <2>1, MicroStepTypes
  <2>4. \E script \in Seq(MicroSteps) : Answer(i, script)
    <3>1. /\ OkScripts(calls[i]) \subseteq Seq(MicroSteps)
          /\ AlreadyScripts(calls[i]) \subseteq Seq(MicroSteps)
          /\ <<>> \in Seq(MicroSteps)
      BY <1>0, <2>1, ScriptTypes
    <3>2. CASE ServePlatform(i)
      BY <2>3, <3>1, <3>2 DEF ServePlatform
    <3>3. CASE ServeToken(i)
      BY <2>3, <3>1, <3>3 DEF ServeToken
    <3> QED
      BY <1>2, <3>2, <3>3
  <2> QED
    BY <2>2, <2>4, AnswerType
<1> QED
  BY <1>1, <1>2 DEF Serve

(* A callback has a step left to take, and taking it keeps the types.      *)
LEMMA CallbackType ==
  ASSUME TypeOK, NEW i \in DOMAIN calls, Callback(i)
  PROVE  /\ calls[i].script # <<>>
         /\ Head(calls[i].script) \in MicroSteps
         /\ calls' \in Seq(Calls)
<1> USE DEF TypeOK
<1>0. calls[i] \in Calls /\ calls[i].st = "served"
  BY DEF Callback
<1>1. calls[i].script \in Seq(MicroSteps) /\ calls[i].script # <<>>
  BY <1>0, CallTypes
<1>2. CASE Len(calls[i].script) = 1
  BY <1>1, <1>2, WithoutCallType DEF Callback
<1>3. CASE Len(calls[i].script) # 1
  <2>1. Tail(calls[i].script) \in Seq(MicroSteps) \ {<<>>}
    <3> DEFINE s == calls[i].script
    <3> HIDE DEF s
    <3>1. s \in Seq(MicroSteps) /\ s # <<>> /\ Len(s) # 1
      BY <1>1, <1>3 DEF s
    <3>2. Tail(s) \in Seq(MicroSteps) /\ Len(Tail(s)) # 0
      BY <3>1
    <3>3. ASSUME NEW t \in Seq(MicroSteps), Len(t) # 0 PROVE t # <<>>
      BY <3>3
    <3>4. Tail(s) \in Seq(MicroSteps) \ {<<>>}
      BY <3>2, <3>3
    <3> QED
      BY <3>4 DEF s
  <2>2. [calls[i] EXCEPT !.script = Tail(calls[i].script)] \in Calls
    BY <1>0, <2>1, CallTypes
  <2>3. calls' = [calls EXCEPT ![i] = [calls[i] EXCEPT !.script = Tail(calls[i].script)]]
    BY <1>3 DEF Callback
  <2> QED
    BY <1>1, <2>2, <2>3
<1>4. Head(calls[i].script) \in MicroSteps
  <2> DEFINE s == calls[i].script
  <2> HIDE DEF s
  <2>1. s \in Seq(MicroSteps) /\ s # <<>>
    BY <1>1 DEF s
  <2>2. Head(s) \in MicroSteps
    BY <2>1
  <2> QED
    BY <2>2 DEF s
<1> QED
  BY <1>1, <1>2, <1>3, <1>4

(***************************************************************************)
(* Type correctness.                                                       *)
(***************************************************************************)
LEMMA TypeInit == Init => TypeOK
<1> SUFFICES ASSUME Init PROVE TypeOK
  OBVIOUS
<1>1. queue \in Seq(Coins)
  BY OrderingsType DEF Init
<1>2. calls \in Seq(Calls)
  BY DEF Init
<1> QED
  BY <1>1, <1>2 DEF Init, TypeOK, Rpcs, NoRpc

(* The counters that bound a run stay counters when one is raised.         *)
LEMMA UsedTypes ==
  ASSUME NEW u \in [commands : Nat, lost : Nat, crashes : Nat]
  PROVE  /\ [u EXCEPT !.commands = @ + 1] \in [commands : Nat, lost : Nat, crashes : Nat]
         /\ [u EXCEPT !.lost = @ + 1] \in [commands : Nat, lost : Nat, crashes : Nat]
         /\ [u EXCEPT !.crashes = @ + 1] \in [commands : Nat, lost : Nat, crashes : Nat]
  OBVIOUS

(* Every step keeps the types.                                             *)
LEMMA TypeStep == TypeOK /\ [Next]_vars => TypeOK'
<1> SUFFICES ASSUME TypeOK, [Next]_vars PROVE TypeOK'
  OBVIOUS
<1> USE DEF TypeOK, mainVars
<1>1. ASSUME NEW chosen \in SUBSET Coins, EnableCoins(chosen) PROVE TypeOK'
  <2>1. chosen \cup ExtraCoins(chosen) \in SUBSET Coins
    BY DEF ExtraCoins
  <2>2. {c \in chosen \cup ExtraCoins(chosen) : ~enabled[c]} \in SUBSET Coins
    BY <2>1
  <2>3. PICK new \in Orderings({c \in chosen \cup ExtraCoins(chosen) : ~enabled[c]}) :
          queue' = queue \o new
    BY <1>1 DEF EnableCoins
  <2>4. new \in Seq(Coins)
    BY <2>2, OrderingsType
  <2>5. queue' \in Seq(Coins)
    BY <2>3, <2>4
  <2>6. used' \in [commands : Nat, lost : Nat, crashes : Nat]
    BY <1>1, UsedTypes DEF EnableCoins
  <2> QED
    BY <1>1, <2>5, <2>6 DEF EnableCoins
<1>2. ASSUME NEW chosen \in SUBSET Coins, DisableCoins(chosen) PROVE TypeOK'
  BY <1>2 DEF DisableCoins
<1>3. ASSUME NEW c \in Coins, DisableCoin(c) PROVE TypeOK'
  BY <1>3 DEF DisableCoin, Rpcs, NoRpc
<1>4. CASE DaemonDisables
  BY <1>4 DEF DaemonDisables, Rpcs
<1>5. CASE DisableAnswered
  BY <1>5 DEF DisableAnswered, Rpcs, NoRpc
<1>6. CASE DisableFinished
  BY <1>6 DEF DisableFinished
<1>7. CASE UpdateActivation
  <2> DEFINE n == IF Len(queue) < BatchLimit THEN Len(queue) ELSE BatchLimit
  <2>1. n \in 0 .. Len(queue)
    BY LimitsAssumption
  <2>2. SubSeq(queue, n + 1, Len(queue)) \in Seq(Coins)
    BY <2>1
  <2>3. {queue[k] : k \in 1 .. n} \subseteq Coins
    BY <2>1
  <2> QED
    BY <1>7, <2>2, <2>3 DEF UpdateActivation
<1>8. CASE ActivateUtxo
  <2>1. UtxoCall(work \cap Utxo) \in Calls
    BY DEF UtxoCall, Calls, Utxo
  <2> QED
    BY <1>8, <2>1 DEF ActivateUtxo
<1>9. ASSUME NEW p \in Coins, ActivateGroup(p) PROVE TypeOK'
  <2> DEFINE call == PlatformCall(p, {c \in work : Platform[c] = p} \ {p})
  <2>1. call \in Calls
    BY DEF PlatformCall, Calls
  <2>2. calls' = calls \/ calls' = Append(calls, call)
    BY <1>9 DEF ActivateGroup
  <2> HIDE DEF call
  <2>3. Append(calls, call) \in Seq(Calls)
    BY <2>1
  <2>4. calls' \in Seq(Calls)
    BY <2>2, <2>3
  <2>5. work' \subseteq Coins /\ tokens' \subseteq Coins
    BY <1>9 DEF ActivateGroup
  <2> QED
    BY <1>9, <2>4, <2>5 DEF ActivateGroup
<1>10. ASSUME NEW t \in Coins, SendToken(t) PROVE TypeOK'
  <2>1. TokenCall(t) \in Calls
    BY DEF TokenCall, Calls
  <2> QED
    BY <1>10, <2>1 DEF SendToken
<1>11. CASE ActivateFinished
  BY <1>11 DEF ActivateFinished
<1>12. CASE InitializePortfolio
  BY <1>12 DEF InitializePortfolio
<1>13. ASSUME NEW i \in DOMAIN calls, Serve(i) PROVE TypeOK'
  BY <1>13, ServeType DEF Serve
<1>14. ASSUME NEW i \in DOMAIN calls, Callback(i) PROVE TypeOK'
  <2>1. Head(calls[i].script) \in MicroSteps
    BY <1>14, CallbackType
  <2>2. portfolioQueue' \subseteq Coins
    BY <1>14, <2>1 DEF Callback, MicroSteps
  <2>3. enabled' \in [Coins -> BOOLEAN]
    BY <1>14 DEF Callback
  <2> QED
    BY <1>14, <2>2, <2>3, CallbackType DEF Callback
<1>15. ASSUME NEW i \in DOMAIN calls, LoseAnswer(i) PROVE TypeOK'
  <2>0. calls[i] \in Calls /\ calls[i].st = "sent"
    BY <1>15 DEF LoseAnswer
  <2>1. [calls[i] EXCEPT !.st = "lost"] \in Calls
    BY <2>0, CallTypes
  <2>2. calls' \in Seq(Calls)
    BY <1>15, <2>1 DEF LoseAnswer
  <2>3. used' \in [commands : Nat, lost : Nat, crashes : Nat]
    BY <1>15, UsedTypes DEF LoseAnswer
  <2> QED
    BY <1>15, <2>2, <2>3 DEF LoseAnswer
<1>16. CASE CrashRestart
  <2>1. active' \in [Coins -> BOOLEAN]
    BY <1>16 DEF CrashRestart
  <2>2. queue' \in Seq(Coins)
    BY <1>16, OrderingsType DEF CrashRestart
  <2>3. calls' \in Seq(Calls)
    BY <1>16 DEF CrashRestart
  <2>4. used' \in [commands : Nat, lost : Nat, crashes : Nat]
    BY <1>16, UsedTypes DEF CrashRestart
  <2>5. rpc' \in Rpcs /\ rpc'.answer = "none"
    BY <1>16 DEF CrashRestart, Rpcs, NoRpc
  <2>6. enabled' \in [Coins -> BOOLEAN]
    BY <1>16 DEF CrashRestart
  <2> QED
    BY <1>16, <2>1, <2>2, <2>3, <2>4, <2>5, <2>6 DEF CrashRestart
<1>17. CASE UNCHANGED vars
  BY <1>17 DEF vars
<1> QED
  BY <1>1, <1>2, <1>3, <1>4, <1>5, <1>6, <1>7, <1>8, <1>9, <1>10, <1>11, <1>12,
     <1>13, <1>14, <1>15, <1>16, <1>17 DEF Next

(* Every variable keeps its type, for every configuration of coins.        *)
THEOREM TypeCorrect == Spec => []TypeOK
<1> QED
  BY TypeInit, TypeStep, PTL DEF Spec

(***************************************************************************)
(* No enabled coin is missing from the portfolio.                          *)
(*                                                                         *)
(* NoneMissing alone is not inductive: a callback may mark a coin whose    *)
(* announcement is behind it.  MarksAnnounced says that it is then         *)
(* accounted for.  Accounted coins stay accounted for until a crash, which *)
(* clears the enabled flags too.                                           *)
(***************************************************************************)
PortfolioInv == TypeOK /\ NoneMissing /\ MarksAnnounced

GoodScript(script) ==
  \A k \in DOMAIN script : script[k].do = "mark" => \A c \in script[k].coins : Announces(script, c)

(* A step that enables nothing, forgets no accounted coin and no script,   *)
(* and adds only good scripts.                                             *)
LEMMA QuietStep ==
  ASSUME PortfolioInv, TypeOK',
         \A c \in Coins : enabled'[c] => enabled[c],
         \A c : Accounted(c) => Accounted(c)',
         Scripts \subseteq Scripts',
         \A script \in Scripts' \ Scripts : GoodScript(script)
  PROVE  PortfolioInv'
<1>1. NoneMissing'
  BY DEF PortfolioInv, NoneMissing
<1>2. ASSUME NEW script \in Scripts', NEW k \in DOMAIN script, script[k].do = "mark",
             NEW c \in script[k].coins
      PROVE  Accounted(c)' \/ Announces(script, c)
  <2>1. CASE script \in Scripts
    <3>1. Accounted(c) \/ Announces(script, c)
      BY <1>2, <2>1 DEF PortfolioInv, MarksAnnounced
    <3> QED
      BY <3>1
  <2>2. CASE script \notin Scripts
    BY <1>2, <2>2 DEF GoodScript
  <2> QED
    BY <2>1, <2>2
<1> QED
  BY <1>1, <1>2 DEF PortfolioInv, MarksAnnounced

(* The scripts of a sequence of calls are scripts.                         *)
LEMMA ScriptsType ==
  ASSUME TypeOK
  PROVE  Scripts \subseteq Seq(MicroSteps) \ {<<>>}
<1> SUFFICES ASSUME NEW i \in DOMAIN calls, calls[i].st = "served"
             PROVE  calls[i].script \in Seq(MicroSteps) \ {<<>>}
  BY DEF Scripts
<1>1. calls[i] \in Calls
  BY DEF TypeOK
<1> QED
  BY <1>1, CallTypes

(* How the steps change the scripts that are still to run.                 *)
LEMMA AppendedScripts ==
  ASSUME TypeOK, NEW call, call.st = "sent", calls' = Append(calls, call)
  PROVE  Scripts' = Scripts
<1>1. /\ Len(calls) \in Nat /\ DOMAIN calls = 1 .. Len(calls)
      /\ DOMAIN calls' = 1 .. Len(calls) + 1
      /\ calls'[Len(calls) + 1] = call
      /\ \A i \in DOMAIN calls : calls'[i] = calls[i]
  BY DEF TypeOK
<1> QED
  BY <1>1 DEF Scripts

(* Removing a call keeps every other call.                                 *)
LEMMA WithoutCallKeeps ==
  ASSUME TypeOK, NEW i \in DOMAIN calls, calls' = WithoutCall(i)
  PROVE  /\ \A k \in DOMAIN calls \ {i} : \E j \in DOMAIN calls' : calls'[j] = calls[k]
         /\ \A j \in DOMAIN calls' : \E k \in DOMAIN calls \ {i} : calls'[j] = calls[k]
<1>1. Len(calls) \in Nat /\ DOMAIN calls = 1 .. Len(calls)
  BY DEF TypeOK
<1>2. /\ DOMAIN calls' = 1 .. Len(calls) - 1
      /\ \A j \in DOMAIN calls' : calls'[j] = IF j < i THEN calls[j] ELSE calls[j + 1]
  BY DEF WithoutCall
<1>3. ASSUME NEW k \in DOMAIN calls \ {i} PROVE \E j \in DOMAIN calls' : calls'[j] = calls[k]
  <2>1. CASE k < i
    BY <1>1, <1>2, <2>1
  <2>2. CASE k > i
    <3>1. k - 1 \in DOMAIN calls' /\ ~(k - 1 < i) /\ (k - 1) + 1 = k
      BY <1>1, <1>2, <2>2
    <3> QED
      BY <1>2, <3>1
  <2> QED
    BY <1>1, <2>1, <2>2
<1>4. ASSUME NEW j \in DOMAIN calls' PROVE \E k \in DOMAIN calls \ {i} : calls'[j] = calls[k]
  <2>1. CASE j < i
    BY <1>1, <1>2, <2>1
  <2>2. CASE ~(j < i)
    <3>1. j + 1 \in DOMAIN calls \ {i}
      BY <1>1, <1>2, <2>2
    <3> QED
      BY <1>2, <2>2, <3>1
  <2> QED
    BY <2>1, <2>2
<1> QED
  BY <1>3, <1>4

(* Removing a call removes at most its own script.                         *)
LEMMA RemovedCallScripts ==
  ASSUME TypeOK, NEW i \in DOMAIN calls, calls' = WithoutCall(i)
  PROVE  /\ Scripts' \subseteq Scripts
         /\ Scripts \subseteq Scripts' \cup {calls[i].script}
         /\ calls[i].st # "served" => Scripts' = Scripts
<1>1. Scripts' \subseteq Scripts
  BY WithoutCallKeeps DEF Scripts
<1>2. Scripts \subseteq Scripts' \cup {calls[i].script}
  BY WithoutCallKeeps DEF Scripts
<1>3. calls[i].st # "served" => Scripts \subseteq Scripts'
  BY WithoutCallKeeps DEF Scripts
<1> QED
  BY <1>1, <1>2, <1>3

(* Replacing a call replaces at most its own script.                       *)
LEMMA ReplacedCallScripts ==
  ASSUME TypeOK, NEW i \in DOMAIN calls, NEW call, calls' = [calls EXCEPT ![i] = call]
  PROVE  /\ Scripts' \subseteq Scripts \cup (IF call.st = "served" THEN {call.script} ELSE {})
         /\ call.st = "served" => call.script \in Scripts'
         /\ Scripts \subseteq Scripts' \cup (IF calls[i].st = "served" THEN {calls[i].script} ELSE {})
<1>1. DOMAIN calls' = DOMAIN calls
  BY DEF TypeOK
<1>2. calls'[i] = call
  BY DEF TypeOK
<1>3. \A j \in DOMAIN calls \ {i} : calls'[j] = calls[j]
  BY DEF TypeOK
<1> QED
  BY <1>1, <1>2, <1>3 DEF Scripts

(* Every script an answer starts announces the coins it marks.             *)
LEMMA AlternateGood ==
  ASSUME NEW order \in Seq(Coins)
  PROVE  /\ GoodScript(Alternate(order, "announce", "mark"))
         /\ GoodScript(Alternate(order, "mark", "announce"))
<1>1. Len(order) \in Nat
  OBVIOUS
<1>2. ASSUME NEW first \in {"mark", "announce"}, NEW second \in {"mark", "announce"},
             NEW k \in 1 .. 2 * Len(order)
      PROVE  /\ Alternate(order, first, second)[k].do = IF k % 2 = 1 THEN first ELSE second
             /\ Alternate(order, first, second)[k].coins = {order[(k + 1) \div 2]}
  BY <1>1 DEF Alternate
<1>3. \A k \in 1 .. 2 * Len(order) : k % 2 # 1 =>
        k - 1 \in 1 .. 2 * Len(order) /\ (k - 1) % 2 = 1 /\ ((k - 1) + 1) \div 2 = (k + 1) \div 2
  BY <1>1
<1>4. \A k \in 1 .. 2 * Len(order) : k % 2 = 1 =>
        k + 1 \in 1 .. 2 * Len(order) /\ (k + 1) % 2 # 1 /\ ((k + 1) + 1) \div 2 = (k + 1) \div 2
  BY <1>1
<1>5. ASSUME NEW first, NEW second PROVE DOMAIN Alternate(order, first, second) = 1 .. 2 * Len(order)
  BY DEF Alternate
<1>6. GoodScript(Alternate(order, "announce", "mark"))
  <2> DEFINE s == Alternate(order, "announce", "mark")
  <2>1. ASSUME NEW k \in DOMAIN s, s[k].do = "mark", NEW c \in s[k].coins
        PROVE  Announces(s, c)
    <3>1. k \in 1 .. 2 * Len(order) /\ k % 2 # 1
      BY <1>2, <1>5, <2>1
    <3>2. k - 1 \in 1 .. 2 * Len(order) /\ (k - 1) % 2 = 1
      BY <1>3, <3>1
    <3>3. s[k - 1].do = "announce" /\ s[k - 1].coins = {order[((k - 1) + 1) \div 2]}
      BY <1>2, <3>2
    <3>4. s[k].coins = {order[(k + 1) \div 2]}
      BY <1>2, <3>1
    <3>5. k - 1 \in DOMAIN s /\ s[k - 1].do = "announce" /\ s[k - 1].coins = s[k].coins
      BY <1>3, <1>5, <3>1, <3>2, <3>3, <3>4
    <3> QED
      BY <2>1, <3>5 DEF Announces
  <2> QED
    BY <2>1 DEF GoodScript
<1>7. GoodScript(Alternate(order, "mark", "announce"))
  <2> DEFINE s == Alternate(order, "mark", "announce")
  <2>1. ASSUME NEW k \in DOMAIN s, s[k].do = "mark", NEW c \in s[k].coins
        PROVE  Announces(s, c)
    <3>1. k \in 1 .. 2 * Len(order) /\ k % 2 = 1
      BY <1>2, <1>5, <2>1
    <3>2. k + 1 \in 1 .. 2 * Len(order) /\ (k + 1) % 2 # 1
      BY <1>4, <3>1
    <3>3. s[k + 1].do = "announce" /\ s[k + 1].coins = {order[((k + 1) + 1) \div 2]}
      BY <1>2, <3>2
    <3>4. s[k].coins = {order[(k + 1) \div 2]}
      BY <1>2, <3>1
    <3>5. k + 1 \in DOMAIN s /\ s[k + 1].do = "announce" /\ s[k + 1].coins = s[k].coins
      BY <1>4, <1>5, <3>1, <3>2, <3>3, <3>4
    <3> QED
      BY <2>1, <3>5 DEF Announces
  <2> QED
    BY <2>1 DEF GoodScript
<1> QED
  BY <1>6, <1>7

(* The scripts of the callbacks announce the coins they mark.              *)
LEMMA GoodScripts ==
  ASSUME NEW call \in Calls, call.kind # "utxo"
  PROVE  \A script \in OkScripts(call) \cup AlreadyScripts(call) : GoodScript(script)
<1>1. call.top \in Coins /\ call.coins \in SUBSET Coins
  BY DEF Calls
<1>2. \A order \in TopFirst(call) : order \in Seq(Coins)
  BY <1>1, OrderingsType DEF TopFirst
<1> QED
  BY <1>2, AlternateGood DEF OkScripts, AlreadyScripts

(* A script that marks nothing is good.                                    *)
LEMMA UnmarkGood ==
  ASSUME NEW S PROVE GoodScript(<<Unmark(S)>>) /\ GoodScript(<<>>)
  BY DEF GoodScript, Unmark

MarksWithin(script, S) == \A k \in DOMAIN script : script[k].do = "mark" => script[k].coins \subseteq S

(* Two scripts in a row mark and announce what the two do.                 *)
LEMMA ConcatScripts ==
  ASSUME NEW a \in Seq(MicroSteps), NEW b \in Seq(MicroSteps), NEW S
  PROVE  /\ a \o b \in Seq(MicroSteps)
         /\ MarksWithin(a, S) /\ MarksWithin(b, S) => MarksWithin(a \o b, S)
         /\ \A c : Announces(a, c) \/ Announces(b, c) => Announces(a \o b, c)
<1> DEFINE ab == a \o b
<1>1. Len(a) \in Nat /\ Len(b) \in Nat /\ DOMAIN a = 1 .. Len(a) /\ DOMAIN b = 1 .. Len(b)
  OBVIOUS
<1>2. ab \in Seq(MicroSteps) /\ Len(ab) = Len(a) + Len(b) /\ DOMAIN ab = 1 .. Len(a) + Len(b)
  OBVIOUS
<1>3. ASSUME NEW k \in 1 .. Len(a) PROVE k \in DOMAIN ab /\ ab[k] = a[k]
  OBVIOUS
<1>4. ASSUME NEW k \in 1 .. Len(b) PROVE Len(a) + k \in DOMAIN ab /\ ab[Len(a) + k] = b[k]
  BY <1>1
<1>5. ASSUME NEW k \in DOMAIN ab
      PROVE  (\E i \in DOMAIN a : ab[k] = a[i]) \/ (\E i \in DOMAIN b : ab[k] = b[i])
  <2>1. CASE k <= Len(a)
    BY <1>1, <1>2, <1>3, <2>1
  <2>2. CASE ~(k <= Len(a))
    <3>1. k - Len(a) \in 1 .. Len(b) /\ Len(a) + (k - Len(a)) = k
      BY <1>1, <1>2, <2>2
    <3> QED
      BY <1>1, <1>4, <3>1
  <2> QED
    BY <2>1, <2>2
<1> HIDE DEF ab
<1>6. MarksWithin(a, S) /\ MarksWithin(b, S) => MarksWithin(ab, S)
  BY <1>5 DEF MarksWithin
<1>7. \A c : Announces(a, c) \/ Announces(b, c) => Announces(ab, c)
  BY <1>1, <1>3, <1>4 DEF Announces
<1> QED
  BY <1>2, <1>6, <1>7 DEF ab

(* One step per coin of an ordering marks only the coins asked for.        *)
LEMMA EachMarks ==
  ASSUME NEW order \in Seq(Coins), NEW what \in {"mark", "unmark"}, NEW among \in SUBSET Coins, NEW S,
         what = "mark" => among \subseteq S
  PROVE  MarksWithin(Each(what, order, among), S)
  BY DEF Each, MarksWithin

(* The scripts of an answered batch announce what they mark.               *)
LEMMA UtxoGood ==
  ASSUME NEW order \in Seq(Coins), NEW activated \in SUBSET Coins, NEW fresh \in SUBSET activated,
         NEW failed \in SUBSET Coins
  PROVE  GoodScript(UtxoScript(order, fresh, activated, failed))
<1> DEFINE a == Each("mark", order, fresh)
           b == Each("mark", order, activated)
           x == <<Announce(activated)>>
           d == Each("unmark", order, failed)
           s == a \o b \o x \o d
<1>1. /\ a \in Seq(MicroSteps) /\ b \in Seq(MicroSteps)
      /\ x \in Seq(MicroSteps) /\ d \in Seq(MicroSteps)
  BY EachType, MicroStepTypes
<1>2. MarksWithin(a, activated) /\ MarksWithin(b, activated) /\ MarksWithin(d, activated)
  BY EachMarks
<1>3. MarksWithin(x, activated) /\ \A c \in activated : Announces(x, c)
  BY DEF MarksWithin, Announces, Announce
<1> HIDE DEF a, b, x, d
<1>4. a \o b \in Seq(MicroSteps) /\ MarksWithin(a \o b, activated)
  BY <1>1, <1>2, ConcatScripts
<1>5. /\ a \o b \o x \in Seq(MicroSteps) /\ MarksWithin(a \o b \o x, activated)
      /\ \A c \in activated : Announces(a \o b \o x, c)
  BY <1>1, <1>3, <1>4, ConcatScripts
<1>6. MarksWithin(s, activated) /\ \A c \in activated : Announces(s, c)
  BY <1>1, <1>2, <1>5, ConcatScripts
<1>7. GoodScript(s)
  BY <1>6 DEF GoodScript, MarksWithin
<1> QED
  BY <1>7 DEF UtxoScript, a, b, x, d

(* An answer leaves a call with a good script.                             *)
LEMMA ServeAnswers ==
  ASSUME TypeOK, NEW i \in DOMAIN calls, Serve(i)
  PROVE  \E script : GoodScript(script) /\ Answer(i, script)
<1>1. calls[i] \in Calls
  BY DEF TypeOK
<1>2. CASE ServeUtxo(i)
  <2> DEFINE S == calls[i].coins
  <2>1. PICK failed \in SUBSET (S \ daemon), order \in Orderings(S) :
          Answer(i, UtxoScript(order, (S \ failed) \ daemon, S \ failed, failed))
    BY <1>2 DEF ServeUtxo
  <2>2. order \in Seq(Coins) /\ S \in SUBSET Coins
    BY <1>1, OrderingsType DEF Calls
  <2> QED
    BY <2>1, <2>2, UtxoGood
<1>3. CASE ServePlatform(i)
  <2>1. calls[i].kind # "utxo"
    BY <1>3 DEF ServePlatform
  <2> QED
    BY <1>1, <1>3, <2>1, GoodScripts, UnmarkGood DEF ServePlatform
<1>4. CASE ServeToken(i)
  <2>1. calls[i].kind # "utxo"
    BY <1>4 DEF ServeToken
  <2>2. \A script \in (IF calls[i].top \in AskAgainMarks THEN AlreadyScripts(calls[i]) ELSE {<<>>}) :
          GoodScript(script)
    BY <1>1, <2>1, GoodScripts, UnmarkGood
  <2> QED
    BY <1>1, <1>4, <2>1, <2>2, GoodScripts, UnmarkGood DEF ServeToken
<1> QED
  BY <1>2, <1>3, <1>4 DEF Serve

(* One micro step: an announced coin is accounted for at once; a marked    *)
(* one was, or is announced by what is left of the script.                 *)
LEMMA HeadTail ==
  ASSUME NEW s \in Seq(MicroSteps) \ {<<>>}
  PROVE  /\ Head(s) = s[1] /\ 1 \in DOMAIN s
         /\ \A k \in DOMAIN Tail(s) : k + 1 \in DOMAIN s /\ Tail(s)[k] = s[k + 1]
  OBVIOUS

(* What a script announces is announced at its head or in its tail.        *)
LEMMA AnnounceLeft ==
  ASSUME NEW s \in Seq(MicroSteps) \ {<<>>}, NEW c, Announces(s, c),
         ~(Head(s).do = "announce" /\ c \in Head(s).coins)
  PROVE  Len(s) # 1 /\ Announces(Tail(s), c)
<1>1. Head(s) = s[1] /\ Len(s) \in Nat \ {0} /\ DOMAIN s = 1 .. Len(s)
  OBVIOUS
<1>2. DOMAIN Tail(s) = 1 .. Len(s) - 1
  BY <1>1
<1>3. PICK k \in DOMAIN s : s[k].do = "announce" /\ c \in s[k].coins
  BY DEF Announces
<1>4. k # 1
  BY <1>1, <1>3
<1>5. k - 1 \in DOMAIN Tail(s) /\ (k - 1) + 1 = k
  BY <1>1, <1>2, <1>4
<1>6. Tail(s)[k - 1] = s[k]
  BY <1>5, HeadTail
<1> QED
  BY <1>1, <1>3, <1>4, <1>5, <1>6 DEF Announces

(* A callback step keeps the strengthened invariant of the portfolio.      *)
LEMMA CallbackStep ==
  ASSUME PortfolioInv, TypeOK', NEW i \in DOMAIN calls, Callback(i)
  PROVE  PortfolioInv'
<1> DEFINE s == calls[i].script
           step == Head(s)
<1>1. TypeOK /\ NoneMissing /\ MarksAnnounced
  BY DEF PortfolioInv
<1>2. calls[i].st = "served" /\ s \in Scripts /\ s \in Seq(MicroSteps) \ {<<>>}
  BY <1>1, ScriptsType DEF Callback, Scripts
<1>3. /\ Scripts' \subseteq Scripts \cup (IF Len(s) = 1 THEN {} ELSE {Tail(s)})
      /\ Scripts \subseteq Scripts' \cup {s}
      /\ Len(s) # 1 => Tail(s) \in Scripts'
  <2>1. CASE Len(s) = 1
    BY <1>1, <2>1, RemovedCallScripts DEF Callback
  <2>2. CASE Len(s) # 1
    <3> DEFINE call == [calls[i] EXCEPT !.script = Tail(s)]
    <3>1. calls' = [calls EXCEPT ![i] = call]
      BY <2>2 DEF Callback
    <3>2. calls[i] \in Calls
      BY <1>1 DEF TypeOK
    <3>3. call.st = "served" /\ call.script = Tail(s)
      BY <1>2, <3>2 DEF Calls
    <3> HIDE DEF call
    <3> QED
      BY <1>1, <1>2, <2>2, <3>1, <3>3, ReplacedCallScripts
  <2> QED
    BY <2>1, <2>2
<1>4. \A c : Accounted(c) => Accounted(c)'
  BY DEF Callback, Accounted
<1>5. \A c : step.do = "announce" /\ c \in step.coins => Accounted(c)'
  BY DEF Callback, Accounted
<1>6. ASSUME NEW c, Announces(s, c) PROVE Accounted(c)' \/ (Len(s) # 1 /\ Announces(Tail(s), c))
  BY <1>2, <1>5, <1>6, AnnounceLeft
<1>7. NoneMissing'
  <2> SUFFICES ASSUME NEW c \in Coins, enabled'[c]
               PROVE  Accounted(c)' \/ \E script \in Scripts' : Announces(script, c)
    BY DEF NoneMissing
  <2>1. Accounted(c) \/ \E script \in Scripts : Announces(script, c)
    <3>1. CASE enabled[c]
      BY <1>1, <3>1 DEF NoneMissing
    <3>2. CASE step.do = "mark" /\ c \in step.coins
      <4>1. step = s[1] /\ 1 \in DOMAIN s
        BY <1>2, HeadTail
      <4> QED
        BY <1>1, <1>2, <3>2, <4>1 DEF MarksAnnounced
    <3> QED
      BY <3>1, <3>2 DEF Callback
  <2>2. CASE Accounted(c)
    BY <1>4, <2>2
  <2>3. CASE \E script \in Scripts : Announces(script, c)
    <3>1. PICK script \in Scripts : Announces(script, c)
      BY <2>3
    <3>2. CASE script = s
      BY <1>3, <1>6, <3>1, <3>2
    <3>3. CASE script # s
      BY <1>3, <3>1, <3>3
    <3> QED
      BY <3>2, <3>3
  <2> QED
    BY <2>1, <2>2, <2>3
<1>8. MarksAnnounced'
  <2> SUFFICES ASSUME NEW script \in Scripts', NEW k \in DOMAIN script, script[k].do = "mark",
                      NEW c \in script[k].coins
               PROVE  Accounted(c)' \/ Announces(script, c)
    BY DEF MarksAnnounced
  <2>1. CASE script \in Scripts
    <3>1. Accounted(c) \/ Announces(script, c)
      BY <1>1, <2>1 DEF MarksAnnounced
    <3> QED
      BY <1>4, <3>1
  <2>2. CASE Len(s) # 1 /\ script = Tail(s)
    <3>1. k + 1 \in DOMAIN s /\ s[k + 1].do = "mark" /\ c \in s[k + 1].coins
      BY <1>2, <2>2, HeadTail
    <3>2. Accounted(c) \/ Announces(s, c)
      BY <1>1, <1>2, <3>1 DEF MarksAnnounced
    <3> QED
      BY <1>4, <1>6, <2>2, <3>2
  <2> QED
    BY <1>3, <2>1, <2>2
<1> QED
  BY <1>7, <1>8 DEF PortfolioInv

(* The strengthened invariant of the portfolio holds initially.            *)
LEMMA PortfolioInit == Init => PortfolioInv
<1> SUFFICES ASSUME Init PROVE PortfolioInv
  OBVIOUS
<1>1. Scripts = {}
  BY DEF Init, Scripts
<1>2. \A c \in Coins : ~enabled[c]
  BY DEF Init
<1> QED
  BY <1>1, <1>2, TypeInit DEF PortfolioInv, NoneMissing, MarksAnnounced

(* Every step keeps the strengthened invariant of the portfolio.           *)
LEMMA PortfolioStep == PortfolioInv /\ [Next]_vars => PortfolioInv'
<1> SUFFICES ASSUME PortfolioInv, [Next]_vars PROVE PortfolioInv'
  OBVIOUS
<1>0. TypeOK /\ TypeOK'
  BY TypeStep DEF PortfolioInv
(* Steps that leave the calls alone.                                       *)
<1>1. ASSUME calls' = calls,
             \A c \in Coins : enabled'[c] => enabled[c],
             \A c : Accounted(c) => Accounted(c)'
      PROVE  PortfolioInv'
  <2>1. Scripts' = Scripts
    BY <1>1 DEF Scripts
  <2> QED
    BY <1>0, <1>1, <2>1, QuietStep
(* Steps that send a call.                                                 *)
<1>2. ASSUME NEW call, call.st = "sent", calls' = Append(calls, call),
             UNCHANGED <<enabled, portfolioQueue, rows, hidden>>
      PROVE  PortfolioInv'
  <2>1. Scripts' = Scripts
    BY <1>0, <1>2, AppendedScripts
  <2>2. \A c : Accounted(c) => Accounted(c)'
    BY <1>2 DEF Accounted
  <2> QED
    BY <1>0, <1>2, <2>1, <2>2, QuietStep
<1>3. ASSUME NEW chosen \in SUBSET Coins, EnableCoins(chosen) PROVE PortfolioInv'
  BY <1>1, <1>3 DEF EnableCoins, Accounted
<1>4. ASSUME NEW chosen \in SUBSET Coins, DisableCoins(chosen) PROVE PortfolioInv'
  BY <1>1, <1>4 DEF DisableCoins, Accounted
<1>5. ASSUME NEW c \in Coins, DisableCoin(c) PROVE PortfolioInv'
  BY <1>1, <1>5 DEF DisableCoin, Accounted
<1>6. CASE DaemonDisables
  BY <1>1, <1>6 DEF DaemonDisables, Accounted
<1>7. CASE DisableAnswered
  BY <1>1, <1>7 DEF DisableAnswered, Accounted
<1>8. CASE DisableFinished
  BY <1>1, <1>8 DEF DisableFinished, Accounted
<1>9. CASE UpdateActivation
  BY <1>1, <1>9 DEF UpdateActivation, Accounted
<1>10. CASE ActivateUtxo
  <2>1. UtxoCall(work \cap Utxo).st = "sent"
    BY DEF UtxoCall
  <2> QED
    BY <1>2, <1>10, <2>1 DEF ActivateUtxo
<1>11. ASSUME NEW p \in Coins, ActivateGroup(p) PROVE PortfolioInv'
  <2> DEFINE call == PlatformCall(p, {c \in work : Platform[c] = p} \ {p})
  <2>1. call.st = "sent"
    BY DEF PlatformCall
  <2>2. calls' = calls \/ calls' = Append(calls, call)
    BY <1>11 DEF ActivateGroup
  <2>3. UNCHANGED <<enabled, portfolioQueue, rows, hidden>>
    BY <1>11 DEF ActivateGroup
  <2> HIDE DEF call
  <2> QED
    BY <1>1, <1>2, <2>1, <2>2, <2>3 DEF Accounted
<1>12. ASSUME NEW t \in Coins, SendToken(t) PROVE PortfolioInv'
  <2>1. TokenCall(t).st = "sent"
    BY DEF TokenCall
  <2> QED
    BY <1>2, <1>12, <2>1 DEF SendToken
<1>13. CASE ActivateFinished
  BY <1>1, <1>13 DEF ActivateFinished, Accounted
<1>14. CASE InitializePortfolio
  BY <1>1, <1>14 DEF InitializePortfolio, Accounted
<1>15. ASSUME NEW i \in DOMAIN calls, Serve(i) PROVE PortfolioInv'
  <2>1. PICK script : GoodScript(script) /\ Answer(i, script)
    BY <1>0, <1>15, ServeAnswers
  <2>2. calls[i].st # "served" /\ calls[i] \in Calls
    BY <1>0, <1>15 DEF Serve, TypeOK
  <2>3. Scripts \subseteq Scripts' /\ Scripts' \subseteq Scripts \cup {script}
    <3>1. CASE calls' = WithoutCall(i)
      BY <1>0, <2>2, <3>1, RemovedCallScripts
    <3>2. CASE calls' = [calls EXCEPT ![i] = [calls[i] EXCEPT !.st = "served", !.script = script]]
      <4> DEFINE call == [calls[i] EXCEPT !.st = "served", !.script = script]
      <4>1. call.st = "served" /\ call.script = script
        BY <2>2 DEF Calls
      <4>2. calls' = [calls EXCEPT ![i] = call]
        BY <3>2
      <4> HIDE DEF call
      <4> QED
        BY <1>0, <2>2, <4>1, <4>2, ReplacedCallScripts
    <3> QED
      BY <2>1, <3>1, <3>2 DEF Answer
  <2>4. UNCHANGED <<enabled, portfolioQueue, rows, hidden>>
    BY <1>15 DEF Serve
  <2>5. \A c : Accounted(c) => Accounted(c)'
    BY <2>4 DEF Accounted
  <2> QED
    BY <1>0, <2>1, <2>3, <2>4, <2>5, QuietStep
<1>16. ASSUME NEW i \in DOMAIN calls, Callback(i) PROVE PortfolioInv'
  BY <1>0, <1>16, CallbackStep
<1>17. ASSUME NEW i \in DOMAIN calls, LoseAnswer(i) PROVE PortfolioInv'
  <2> DEFINE call == [calls[i] EXCEPT !.st = "lost"]
  <2>1. calls[i] \in Calls /\ calls[i].st = "sent"
    BY <1>0, <1>17 DEF LoseAnswer, TypeOK
  <2>2. call.st = "lost" /\ calls' = [calls EXCEPT ![i] = call]
    BY <1>17, <2>1 DEF LoseAnswer, Calls
  <2> HIDE DEF call
  <2>3. Scripts' = Scripts
    BY <1>0, <2>1, <2>2, ReplacedCallScripts
  <2>4. UNCHANGED <<enabled, portfolioQueue, rows, hidden>>
    BY <1>17 DEF LoseAnswer
  <2>5. \A c : Accounted(c) => Accounted(c)'
    BY <2>4 DEF Accounted
  <2> QED
    BY <1>0, <2>3, <2>4, <2>5, QuietStep
<1>18. CASE CrashRestart
  <2>1. Scripts' = {}
    BY <1>18 DEF CrashRestart, Scripts
  <2>2. \A c \in Coins : ~enabled'[c]
    BY <1>18 DEF CrashRestart
  <2> QED
    BY <1>0, <2>1, <2>2 DEF PortfolioInv, NoneMissing, MarksAnnounced
<1>19. CASE UNCHANGED vars
  BY <1>1, <1>19 DEF vars, Accounted
<1> QED
  BY <1>3, <1>4, <1>5, <1>6, <1>7, <1>8, <1>9, <1>10, <1>11, <1>12,
     <1>13, <1>14, <1>15, <1>16, <1>17, <1>18, <1>19 DEF Next

(* Whatever the interleaving of callbacks, commands and ticks, lost        *)
(* answers and crashes included, an enabled coin is in the portfolio, is   *)
(* about to be, or was taken out by the user.                              *)
THEOREM NoneMissingCorrect == Spec => []NoneMissing
<1>1. Spec => []PortfolioInv
  BY PortfolioInit, PortfolioStep, PTL DEF Spec
<1>2. PortfolioInv => NoneMissing
  BY DEF PortfolioInv
<1> QED
  BY <1>1, <1>2, PTL

(* A callback never marks a coin that nobody announces: for every grouping *)
(* of coins and every order of the callbacks.                              *)
THEOREM MarksAnnouncedCorrect == Spec => []MarksAnnounced
<1>1. Spec => []PortfolioInv
  BY PortfolioInit, PortfolioStep, PTL DEF Spec
<1>2. PortfolioInv => MarksAnnounced
  BY DEF PortfolioInv
<1> QED
  BY <1>1, <1>2, PTL

-----------------------------------------------------------------------------
(* What the main thread is in the middle of.  Only a running disable has a *)
(* batch and a blocking call, for a coin it still has to handle; a token   *)
(* of a group is never a UTXO coin.                                        *)
MainShape ==
  /\ mainOp = "idle" => work = {}
  /\ mainOp = "disable" => work \subseteq batch
  /\ mainOp # "disable" => batch = {}
  /\ rpc # NoRpc => mainOp = "disable" /\ rpc.coin \in work
  /\ tokens \cap Utxo = {}

MainInv == TypeOK /\ MainShape

(* The parent of a group is not a UTXO coin, nor is any of the group.      *)
LEMMA GroupNotUtxo ==
  ASSUME NEW p \in Coins, NEW c \in Coins, Platform[c] = p
  PROVE  c \notin Utxo /\ p \notin Utxo
BY CoinsAssumption DEF Utxo

LEMMA MainInit == Init => MainInv
BY TypeInit DEF Init, MainInv, MainShape

LEMMA MainStep == MainInv /\ [Next]_vars => MainInv'
<1> SUFFICES ASSUME MainInv, [Next]_vars PROVE MainShape'
  BY TypeStep DEF MainInv
<1>0. TypeOK /\ MainShape
  BY DEF MainInv
<1> USE DEF MainShape
<1>1. ASSUME UNCHANGED mainVars PROVE MainShape'
  BY <1>0, <1>1 DEF mainVars
<1>2. ASSUME NEW chosen \in SUBSET Coins, EnableCoins(chosen) PROVE MainShape'
  BY <1>1, <1>2 DEF EnableCoins
<1>3. ASSUME NEW chosen \in SUBSET Coins, DisableCoins(chosen) PROVE MainShape'
  BY <1>0, <1>3 DEF DisableCoins
<1>4. ASSUME NEW c \in Coins, DisableCoin(c) PROVE MainShape'
  BY <1>0, <1>4 DEF DisableCoin
<1>5. CASE DaemonDisables
  <2>1. rpc # NoRpc /\ rpc'.coin = rpc.coin
    BY <1>0, <1>5 DEF DaemonDisables, NoRpc, TypeOK, Rpcs
  <2> QED
    BY <1>0, <1>5, <2>1 DEF DaemonDisables
<1>6. CASE DisableAnswered
  <2>1. rpc # NoRpc
    BY <1>6 DEF DisableAnswered, NoRpc
  <2> QED
    BY <1>0, <1>6, <2>1 DEF DisableAnswered
<1>7. CASE DisableFinished
  BY <1>0, <1>7 DEF DisableFinished
<1>8. CASE UpdateActivation
  <2> DEFINE n == IF Len(queue) < BatchLimit THEN Len(queue) ELSE BatchLimit
  <2>1. /\ mainOp = "idle" /\ work' = {queue[k] : k \in 1 .. n}
        /\ mainOp' = IF n = 0 THEN "idle" ELSE "activate"
        /\ UNCHANGED <<tokens, batch, rpc>>
    BY <1>8 DEF UpdateActivation
  <2> HIDE DEF n
  <2>2. n = 0 => work' = {}
    BY <2>1
  <2> QED
    BY <1>0, <2>1, <2>2
<1>9. CASE ActivateUtxo
  BY <1>0, <1>9 DEF ActivateUtxo
<1>10. ASSUME NEW p \in Coins, ActivateGroup(p) PROVE MainShape'
  <2>1. \A c \in tokens' : c \notin Utxo
    BY <1>0, <1>10, GroupNotUtxo DEF ActivateGroup, TypeOK
  <2> QED
    BY <1>0, <1>10, <2>1 DEF ActivateGroup
<1>11. ASSUME NEW t \in Coins, SendToken(t) PROVE MainShape'
  BY <1>0, <1>11 DEF SendToken
<1>12. CASE ActivateFinished
  BY <1>0, <1>12 DEF ActivateFinished
<1>13. CASE InitializePortfolio
  BY <1>1, <1>13 DEF InitializePortfolio
<1>14. ASSUME NEW i \in DOMAIN calls, Serve(i) \/ Callback(i) \/ LoseAnswer(i) PROVE MainShape'
  BY <1>1, <1>14 DEF Serve, Callback, LoseAnswer
<1>15. CASE CrashRestart
  BY <1>15 DEF CrashRestart
<1>16. CASE UNCHANGED vars
  BY <1>1, <1>16 DEF vars, mainVars
<1> QED
  BY <1>2, <1>3, <1>4, <1>5, <1>6, <1>7, <1>8, <1>9, <1>10, <1>11, <1>12,
     <1>13, <1>14, <1>15, <1>16 DEF Next

LEMMA MainCorrect == Spec => []MainInv
BY MainInit, MainStep, PTL DEF Spec

(***************************************************************************)
(* No coin on its way is dropped.                                          *)
(***************************************************************************)

(* What is left of a queue, and what was taken from it, is the queue.      *)
LEMMA QueueSplit ==
  ASSUME NEW q \in Seq(Coins), NEW n \in 0 .. Len(q)
  PROVE  LET rest == SubSeq(q, n + 1, Len(q)) IN
         /\ rest \in Seq(Coins) /\ DOMAIN rest = 1 .. Len(q) - n
         /\ \A k \in 1 .. Len(q) - n : rest[k] = q[n + k]
         /\ \A k \in DOMAIN q : k \in 1 .. n \/ \E j \in DOMAIN rest : rest[j] = q[k]
<1> DEFINE rest == SubSeq(q, n + 1, Len(q))
<1>1. Len(q) \in Nat /\ DOMAIN q = 1 .. Len(q) /\ n \in Nat /\ n <= Len(q)
  OBVIOUS
<1>2. rest = [k \in 1 .. Len(q) - n |-> q[n + k]]
  BY <1>1
<1>3. rest \in Seq(Coins) /\ DOMAIN rest = 1 .. Len(q) - n
  BY <1>1, <1>2
<1>4. ASSUME NEW k \in DOMAIN q, k \notin 1 .. n PROVE \E j \in DOMAIN rest : rest[j] = q[k]
  <2>1. k - n \in DOMAIN rest /\ n + (k - n) = k
    BY <1>1, <1>3, <1>4
  <2>2. rest[k - n] = q[n + (k - n)]
    BY <1>2, <1>3, <2>1
  <2> QED
    BY <2>1, <2>2
<1> QED
  BY <1>2, <1>3, <1>4

(* Appending keeps the calls, and adds one.                                *)
LEMMA AppendedCall ==
  ASSUME TypeOK, NEW call, calls' = Append(calls, call)
  PROVE  /\ Len(calls) + 1 \in DOMAIN calls' /\ calls'[Len(calls) + 1] = call
         /\ DOMAIN calls' = DOMAIN calls \cup {Len(calls) + 1}
         /\ Len(calls) + 1 \notin DOMAIN calls
         /\ \A i \in DOMAIN calls : calls'[i] = calls[i]
BY DEF TypeOK

SentOrEnabled(c) == (\E i \in DOMAIN calls' : c \in Asked(calls'[i])) \/ enabled[c]

(* A step that leaves all of the waiting coins where they are.             *)
LEMMA WaitingKept ==
  ASSUME Queued \subseteq Queued', tokens \subseteq tokens',
         mainOp = "activate" => mainOp' = "activate" /\ work' = work
  PROVE  Waiting \subseteq Waiting'
BY DEF Waiting

LEMMA NoneDroppedStep ==
  ASSUME MainInv, [Next]_vars
  PROVE  \/ used'.crashes # used.crashes
         \/ \A c \in Waiting \ Waiting' : SentOrEnabled(c)
<1> USE DEF MainInv, TypeOK, mainVars
<1>1. ASSUME NEW chosen \in SUBSET Coins, EnableCoins(chosen) PROVE Waiting \subseteq Waiting'
  <2>1. {c \in chosen \cup ExtraCoins(chosen) : ~enabled[c]} \in SUBSET Coins
    BY DEF ExtraCoins
  <2>2. PICK new \in Orderings({c \in chosen \cup ExtraCoins(chosen) : ~enabled[c]}) :
          queue' = queue \o new
    BY <1>1 DEF EnableCoins
  <2>3. new \in Seq(Coins)
    BY <2>1, OrderingsType
  <2>4. \A i \in DOMAIN queue : i \in DOMAIN queue' /\ queue'[i] = queue[i]
    BY <2>2, <2>3
  <2> QED
    BY <1>1, <2>4, WaitingKept DEF EnableCoins, Queued
<1>2. ASSUME NEW chosen \in SUBSET Coins, DisableCoins(chosen) PROVE Waiting \subseteq Waiting'
  BY <1>2, WaitingKept DEF DisableCoins, Queued
<1>3. ASSUME NEW c \in Coins, DisableCoin(c) PROVE Waiting \subseteq Waiting'
  BY <1>3, WaitingKept DEF DisableCoin, Queued
<1>4. ASSUME DaemonDisables \/ DisableAnswered \/ DisableFinished \/ InitializePortfolio
      PROVE  Waiting \subseteq Waiting'
  <2>1. rpc.answer \in {"ok", "refused"} => mainOp # "activate"
    BY DEF MainShape, NoRpc
  <2> QED
    BY <1>4, <2>1, WaitingKept DEF DaemonDisables, DisableAnswered, DisableFinished, InitializePortfolio, Queued
<1>5. CASE UpdateActivation
  <2> DEFINE n == IF Len(queue) < BatchLimit THEN Len(queue) ELSE BatchLimit
  <2>1. n \in 0 .. Len(queue)
    BY LimitsAssumption
  <2>2. /\ mainOp = "idle" /\ tokens' = tokens
        /\ work' = {queue[k] : k \in 1 .. n} /\ queue' = SubSeq(queue, n + 1, Len(queue))
        /\ mainOp' = IF n = 0 THEN "idle" ELSE "activate"
    BY <1>5 DEF UpdateActivation
  <2> HIDE DEF n
  <2>3. \A k \in DOMAIN queue : k \in 1 .. n \/ \E j \in DOMAIN queue' : queue'[j] = queue[k]
    BY <2>1, <2>2, QueueSplit
  <2>4. \A k \in 1 .. n : queue[k] \in work' /\ mainOp' = "activate"
    BY <2>1, <2>2
  <2>5. Waiting = Queued \cup tokens
    BY <2>2 DEF Waiting
  <2>6. Queued \subseteq Waiting'
    BY <2>3, <2>4 DEF Queued, Waiting
  <2> QED
    BY <2>2, <2>5, <2>6 DEF Waiting
<1>6. CASE ActivateUtxo
  <2>1. Asked(UtxoCall(work \cap Utxo)) = work \cap Utxo
    BY DEF Asked, UtxoCall
  <2>2. \A c \in work \cap Utxo : SentOrEnabled(c)
    BY <1>6, <2>1, AppendedCall DEF ActivateUtxo, SentOrEnabled
  <2>3. Waiting \ (work \cap Utxo) \subseteq Waiting'
    BY <1>6 DEF ActivateUtxo, Waiting, Queued
  <2> QED
    BY <2>2, <2>3
<1>7. ASSUME NEW p \in Coins, ActivateGroup(p)
      PROVE  \A c \in Waiting \ Waiting' : SentOrEnabled(c)
  <2> DEFINE group == {c \in work : Platform[c] = p}
  <2>1. /\ mainOp = "activate" /\ mainOp' = "activate" /\ tokens = {} /\ queue' = queue
        /\ work' = work \ group
        /\ IF enabled[p]
           THEN tokens' = group \ {p} /\ UNCHANGED calls
           ELSE calls' = Append(calls, PlatformCall(p, group \ {p})) /\ UNCHANGED tokens
    BY <1>7 DEF ActivateGroup
  <2>2. Asked(PlatformCall(p, group \ {p})) = group \cup {p}
    BY CoinsAssumption DEF Asked, PlatformCall
  <2> HIDE DEF group
  <2>3. Waiting \ group \subseteq Waiting'
    BY <2>1 DEF Waiting, Queued
  <2>4. CASE enabled[p]
    BY <2>1, <2>3, <2>4 DEF Waiting, SentOrEnabled
  <2>5. CASE ~enabled[p]
    <3>1. \A c \in group : SentOrEnabled(c)
      BY <2>1, <2>2, <2>5, AppendedCall DEF SentOrEnabled
    <3> QED
      BY <2>3, <3>1
  <2> QED
    BY <2>4, <2>5
<1>8. ASSUME NEW t \in Coins, SendToken(t) PROVE \A c \in Waiting \ Waiting' : SentOrEnabled(c)
  <2>1. t \in Asked(TokenCall(t))
    BY CoinsAssumption DEF Asked, TokenCall
  <2>2. SentOrEnabled(t)
    BY <1>8, <2>1, AppendedCall DEF SendToken, SentOrEnabled
  <2>3. Waiting \ {t} \subseteq Waiting'
    BY <1>8 DEF SendToken, Waiting, Queued
  <2> QED
    BY <2>2, <2>3
<1>9. CASE ActivateFinished
  BY <1>9 DEF ActivateFinished, Waiting, Queued
<1>10. ASSUME NEW i \in DOMAIN calls, Serve(i) \/ Callback(i) \/ LoseAnswer(i)
       PROVE  Waiting \subseteq Waiting'
  BY <1>10, WaitingKept DEF Serve, Callback, LoseAnswer, Queued
<1>11. CASE CrashRestart
  BY <1>11 DEF CrashRestart
<1>12. CASE UNCHANGED vars
  BY <1>12, WaitingKept DEF vars, Queued
<1> QED
  BY <1>1, <1>2, <1>3, <1>4, <1>5, <1>6, <1>7, <1>8, <1>9, <1>10, <1>11, <1>12 DEF Next

(* A coin that leaves the activation queue, or a group being sent, is in a *)
(* call or the enabled parent of its group; only a crash drops it.         *)
THEOREM NoneDroppedCorrect == Spec => NoneDropped
<1>1. MainInv /\ [Next]_vars =>
        [\/ used'.crashes # used.crashes
         \/ \A c \in Waiting \ Waiting' : \/ \E i \in DOMAIN calls' : c \in Asked(calls'[i])
                                          \/ enabled[c]]_vars
  BY NoneDroppedStep DEF SentOrEnabled
<1> QED
  BY <1>1, MainCorrect, PTL DEF Spec, NoneDropped

(***************************************************************************)
(* UTXO coins, and a user who does not ask twice: an enabled coin runs in  *)
(* the daemon, and a row is the row of an enabled coin.                    *)
(*                                                                         *)
(* A coin is on its way from the queue to the announcement (or the         *)
(* refusal) of its callback.  It is at one place at a time, and as long as *)
(* it is on its way it has no row, no announcement and is not being        *)
(* disabled; so the mark of its callback comes while the daemon runs it,   *)
(* its announcement after the mark, and a refusal finds nothing to clear.  *)
(***************************************************************************)
Activating == IF mainOp = "activate" THEN work ELSE {}

Holds(call, c) ==
  \/ call.st = "sent" /\ c \in Asked(call)
  \/ (call.st = "served" /\ \E k \in DOMAIN call.script : c \in call.script[k].coins)
Held(cs) == {c \in Utxo : \E i \in DOMAIN cs : Holds(cs[i], c)}
HeldOnce(cs) == \A c \in Utxo : \A i, j \in DOMAIN cs : Holds(cs[i], c) /\ Holds(cs[j], c) => i = j
OnWay == (Utxo \cap (Queued \cup Activating)) \cup Held(calls)
Shown == rows \cup portfolioQueue

(* Only UTXO calls ask for UTXO coins.                                     *)
CallShape == \A i \in DOMAIN calls : calls[i].kind # "utxo" => Asked(calls[i]) \cap Utxo = {}

(* A coin on its way is at one place.                                      *)
Once ==
  /\ \A i, j \in DOMAIN queue : queue[i] = queue[j] => i = j
  /\ HeldOnce(calls)
  /\ Utxo \cap (Queued \cap Activating) = {}
  /\ Held(calls) \cap (Queued \cup Activating) = {}

(* Coins on their way, shown, announced and being disabled are apart.      *)
Apart ==
  /\ OnWay \cap (Shown \cup batch) = {}
  /\ Utxo \cap (rows \cap portfolioQueue) = {}
  /\ Utxo \cap (batch \cap Shown) = {}

ShownEnabled == \A c \in Utxo \cap Shown : enabled[c]

(* What a callback has still to do for coin c: it marks it while it runs,  *)
(* announces it last and after a mark, and unmarks only a coin that it     *)
(* neither marks nor announces.                                            *)
Orderly(s, c, marked, running) ==
  \A k \in DOMAIN s : c \in s[k].coins =>
    /\ s[k].do = "mark" => c \in running
    /\ s[k].do = "announce" =>
         /\ marked[c] \/ \E j \in 1 .. k - 1 : s[j].do = "mark" /\ c \in s[j].coins
         /\ \A j \in DOMAIN s : j > k => c \notin s[j].coins
    /\ s[k].do = "unmark" => \A j \in DOMAIN s : s[j].do # "unmark" => c \notin s[j].coins
AllOrderly ==
  \A i \in DOMAIN calls : calls[i].st = "served" => \A c \in Utxo : Orderly(calls[i].script, c, enabled, daemon)

UtxoInv == MainInv /\ CallShape /\ Once /\ Apart /\ ShownEnabled /\ AllOrderly /\ UtxoEnabledRuns

(* An ordering of a finite set is an injection onto it.                    *)
LEMMA OrderingsOnto ==
  ASSUME NEW S \in SUBSET Coins, NEW f \in Orderings(S)
  PROVE  /\ f \in Seq(Coins)
         /\ \A i, j \in DOMAIN f : f[i] = f[j] => i = j
         /\ {f[i] : i \in DOMAIN f} = S
<1> DEFINE n == Cardinality(S)
<1>1. IsFiniteSet(S) /\ n \in Nat
  BY CoinsAssumption, FS_Subset, FS_CardinalityType
<1>2. f \in [1 .. n -> S] /\ \A i, j \in 1 .. n : f[i] = f[j] => i = j
  BY DEF Orderings
<1>3. ASSUME NEW x \in S, \A i \in 1 .. n : f[i] # x PROVE FALSE
  <2>1. f \in [1 .. n -> S \ {x}]
    BY <1>2, <1>3
  <2>2. IsFiniteSet(S \ {x}) /\ Cardinality(S \ {x}) = n - 1
    BY <1>1, FS_RemoveElement
  <2>3. IsFiniteSet(1 .. n) /\ Cardinality(1 .. n) = n
    BY <1>1, FS_Interval
  <2>4. Cardinality(S \ {x}) < Cardinality(1 .. n)
    BY <1>1, <2>2, <2>3
  <2>5. \E i, j \in 1 .. n : i # j /\ f[i] = f[j]
    <3> DEFINE D == 1 .. n
               T == S \ {x}
    <3>1. f \in [D -> T] /\ IsFiniteSet(D) /\ IsFiniteSet(T) /\ Cardinality(T) < Cardinality(D)
      BY <2>1, <2>2, <2>3, <2>4
    <3> HIDE DEF D, T
    <3>2. \E i, j \in D : i # j /\ f[i] = f[j]
      BY <3>1, FS_PigeonHole
    <3> QED
      BY <3>2 DEF D
  <2> QED
    BY <1>2, <2>5
<1>4. f \in Seq(Coins)
  BY OrderingsType
<1> QED
  BY <1>2, <1>3, <1>4

-----------------------------------------------------------------------------
(* Where the coins of the calls are, after a call is sent, answered or     *)
(* moves on.                                                               *)
LEMMA HeldAppended ==
  ASSUME TypeOK, NEW call, calls' = Append(calls, call), HeldOnce(calls),
         \A c \in Held(calls) : ~Holds(call, c)
  PROVE  /\ HeldOnce(calls')
         /\ \A c \in Held(calls') : c \in Held(calls) \/ Holds(call, c)
<1>1. /\ DOMAIN calls' = DOMAIN calls \cup {Len(calls) + 1}
      /\ calls'[Len(calls) + 1] = call
      /\ \A i \in DOMAIN calls : calls'[i] = calls[i]
  BY AppendedCall
<1> DEFINE n == Len(calls) + 1
<1> HIDE DEF n
<1>2. /\ DOMAIN calls' = DOMAIN calls \cup {n} /\ calls'[n] = call
      /\ \A i \in DOMAIN calls : calls'[i] = calls[i]
  BY <1>1 DEF n
<1>3. ASSUME NEW c \in Utxo, NEW i \in DOMAIN calls', NEW j \in DOMAIN calls',
             Holds(calls'[i], c), Holds(calls'[j], c)
      PROVE  i = j
  <2>1. CASE i \in DOMAIN calls /\ j \in DOMAIN calls
    BY <1>2, <1>3, <2>1 DEF HeldOnce
  <2>2. CASE i = n /\ j = n
    BY <2>2
  <2>3. CASE (i \in DOMAIN calls /\ j = n) \/ (j \in DOMAIN calls /\ i = n)
    BY <1>2, <1>3, <2>3 DEF Held
  <2> QED
    BY <1>2, <2>1, <2>2, <2>3
<1> QED
  BY <1>2, <1>3 DEF HeldOnce, Held

(* A call that moves on holds no more coins than before, and the coins it  *)
(* no longer holds are in no call.                                         *)
LEMMA HeldReplaced ==
  ASSUME TypeOK, NEW i \in DOMAIN calls, NEW call, calls' = [calls EXCEPT ![i] = call],
         HeldOnce(calls), \A c \in Utxo : Holds(call, c) => Holds(calls[i], c)
  PROVE  /\ HeldOnce(calls') /\ Held(calls') \subseteq Held(calls)
         /\ \A c \in Held(calls') : Holds(calls[i], c) => Holds(call, c)
<1>1. DOMAIN calls' = DOMAIN calls /\ calls'[i] = call
  BY DEF TypeOK
<1>2. \A j \in DOMAIN calls \ {i} : calls'[j] = calls[j]
  BY DEF TypeOK
<1>3. \A c \in Utxo, j \in DOMAIN calls' : Holds(calls'[j], c) => Holds(calls[j], c)
  BY <1>1, <1>2
<1>4. HeldOnce(calls') /\ Held(calls') \subseteq Held(calls)
  BY <1>1, <1>3 DEF HeldOnce, Held
<1>5. ASSUME NEW c \in Held(calls'), Holds(calls[i], c) PROVE Holds(call, c)
  <2>1. PICK j \in DOMAIN calls' : Holds(calls'[j], c)
    BY DEF Held
  <2>2. j = i
    BY <1>1, <1>3, <1>5, <2>1 DEF HeldOnce, Held
  <2> QED
    BY <1>1, <2>1, <2>2
<1> QED
  BY <1>4, <1>5

LEMMA HeldRemoved ==
  ASSUME TypeOK, NEW i \in DOMAIN calls, calls' = WithoutCall(i), HeldOnce(calls)
  PROVE  /\ HeldOnce(calls') /\ Held(calls') \subseteq Held(calls)
         /\ \A c \in Held(calls') : ~Holds(calls[i], c)
<1> DEFINE at == [j \in DOMAIN calls' |-> IF j < i THEN j ELSE j + 1]
<1>1. Len(calls) \in Nat /\ DOMAIN calls = 1 .. Len(calls)
  BY DEF TypeOK
<1>2. /\ DOMAIN calls' = 1 .. Len(calls) - 1
      /\ \A j \in DOMAIN calls' : calls'[j] = IF j < i THEN calls[j] ELSE calls[j + 1]
  BY DEF WithoutCall
<1>3. \A j \in DOMAIN calls' : at[j] \in DOMAIN calls /\ at[j] # i /\ calls'[j] = calls[at[j]]
  BY <1>1, <1>2
<1>4. \A j, k \in DOMAIN calls' : at[j] = at[k] => j = k
  BY <1>1, <1>2
<1> HIDE DEF at
<1>5. HeldOnce(calls') /\ Held(calls') \subseteq Held(calls)
  BY <1>3, <1>4 DEF HeldOnce, Held
<1>6. \A c \in Held(calls') : ~Holds(calls[i], c)
  BY <1>3 DEF HeldOnce, Held
<1> QED
  BY <1>5, <1>6

-----------------------------------------------------------------------------
(* The script of a batch, step by step.                                    *)
UtxoStep(order, fresh, activated, failed, k) ==
  IF k <= Len(order) THEN [do |-> "mark", coins |-> {order[k]} \cap fresh]
  ELSE IF k <= 2 * Len(order) THEN [do |-> "mark", coins |-> {order[k - Len(order)]} \cap activated]
  ELSE IF k = 2 * Len(order) + 1 THEN [do |-> "announce", coins |-> activated]
  ELSE [do |-> "unmark", coins |-> {order[k - (2 * Len(order) + 1)]} \cap failed]

LEMMA UtxoSteps ==
  ASSUME NEW order \in Seq(Coins), NEW fresh \in SUBSET Coins, NEW activated \in SUBSET Coins,
         NEW failed \in SUBSET Coins
  PROVE  /\ UtxoScript(order, fresh, activated, failed) \in Seq(MicroSteps)
         /\ Len(UtxoScript(order, fresh, activated, failed)) = 3 * Len(order) + 1
         /\ \A k \in DOMAIN UtxoScript(order, fresh, activated, failed) :
              UtxoScript(order, fresh, activated, failed)[k] = UtxoStep(order, fresh, activated, failed, k)
<1> DEFINE a == Each("mark", order, fresh)
           b == Each("mark", order, activated)
           x == <<Announce(activated)>>
           d == Each("unmark", order, failed)
           n == Len(order)
<1>1. /\ a \in Seq(MicroSteps) /\ b \in Seq(MicroSteps)
      /\ x \in Seq(MicroSteps) /\ d \in Seq(MicroSteps)
  BY EachType, MicroStepTypes
<1>2. /\ n \in Nat /\ Len(a) = n /\ Len(b) = n /\ Len(x) = 1 /\ Len(d) = n
      /\ \A k \in 1 .. n : /\ a[k] = [do |-> "mark", coins |-> {order[k]} \cap fresh]
                           /\ b[k] = [do |-> "mark", coins |-> {order[k]} \cap activated]
                           /\ d[k] = [do |-> "unmark", coins |-> {order[k]} \cap failed]
      /\ x[1] = [do |-> "announce", coins |-> activated]
  BY DEF Each, Announce
<1> HIDE DEF a, b, x, d, n
<1> DEFINE ab == a \o b
           abx == ab \o x
           s == abx \o d
<1>3. /\ ab \in Seq(MicroSteps) /\ Len(ab) = 2 * n
      /\ \A k \in 1 .. 2 * n : ab[k] = IF k <= n THEN a[k] ELSE b[k - n]
  <2>1. /\ ab \in Seq(MicroSteps) /\ Len(ab) = Len(a) + Len(b)
        /\ \A k \in 1 .. Len(a) + Len(b) : ab[k] = IF k <= Len(a) THEN a[k] ELSE b[k - Len(a)]
    BY <1>1, ConcatProperties
  <2>2. Len(a) + Len(b) = 2 * n
    BY <1>2
  <2> QED
    BY <1>2, <2>1, <2>2
<1> HIDE DEF ab
<1>4. /\ abx \in Seq(MicroSteps) /\ Len(abx) = 2 * n + 1
      /\ \A k \in 1 .. 2 * n + 1 : abx[k] = IF k <= 2 * n THEN ab[k] ELSE x[k - 2 * n]
  <2>1. /\ abx \in Seq(MicroSteps) /\ Len(abx) = Len(ab) + Len(x)
        /\ \A k \in 1 .. Len(ab) + Len(x) : abx[k] = IF k <= Len(ab) THEN ab[k] ELSE x[k - Len(ab)]
    BY <1>1, <1>3, ConcatProperties
  <2>2. Len(ab) + Len(x) = 2 * n + 1
    BY <1>2, <1>3
  <2> QED
    BY <1>3, <2>1, <2>2
<1> HIDE DEF abx
<1>5. /\ s \in Seq(MicroSteps) /\ Len(s) = 3 * n + 1 /\ DOMAIN s = 1 .. 3 * n + 1
      /\ \A k \in 1 .. 3 * n + 1 : s[k] = IF k <= 2 * n + 1 THEN abx[k] ELSE d[k - (2 * n + 1)]
  <2>1. /\ s \in Seq(MicroSteps) /\ Len(s) = Len(abx) + Len(d)
        /\ \A k \in 1 .. Len(abx) + Len(d) : s[k] = IF k <= Len(abx) THEN abx[k] ELSE d[k - Len(abx)]
    BY <1>1, <1>4, ConcatProperties
  <2>2. Len(abx) + Len(d) = 3 * n + 1
    BY <1>2, <1>4
  <2>3. DOMAIN s = 1 .. Len(s)
    BY <2>1
  <2> QED
    BY <1>4, <2>1, <2>2, <2>3
<1>6. s = UtxoScript(order, fresh, activated, failed)
  BY DEF UtxoScript, abx, ab, a, b, x, d
<1> HIDE DEF s
<1>7. ASSUME NEW k \in 1 .. 3 * n + 1
      PROVE  s[k] = IF k <= n THEN [do |-> "mark", coins |-> {order[k]} \cap fresh]
                    ELSE IF k <= 2 * n THEN [do |-> "mark", coins |-> {order[k - n]} \cap activated]
                    ELSE IF k = 2 * n + 1 THEN [do |-> "announce", coins |-> activated]
                    ELSE [do |-> "unmark", coins |-> {order[k - (2 * n + 1)]} \cap failed]
  <2>1. CASE k <= n
    <3>1. k \in 1 .. n /\ k <= 2 * n /\ k <= 2 * n + 1 /\ k \in 1 .. 2 * n /\ k \in 1 .. 2 * n + 1
      BY <1>2, <2>1
    <3> QED
      BY <1>2, <1>3, <1>4, <1>5, <2>1, <3>1
  <2>2. CASE n < k /\ k <= 2 * n
    <3>1. k - n \in 1 .. n /\ ~(k <= n) /\ k <= 2 * n + 1 /\ k \in 1 .. 2 * n /\ k \in 1 .. 2 * n + 1
      BY <1>2, <2>2
    <3> QED
      BY <1>2, <1>3, <1>4, <1>5, <2>2, <3>1
  <2>3. CASE k = 2 * n + 1
    <3>1. ~(k <= n) /\ ~(k <= 2 * n) /\ k - 2 * n = 1 /\ k \in 1 .. 2 * n + 1
      BY <1>2, <2>3
    <3> QED
      BY <1>2, <1>4, <1>5, <2>3, <3>1
  <2>4. CASE 2 * n + 1 < k
    <3>1. k - (2 * n + 1) \in 1 .. n /\ ~(k <= n) /\ ~(k <= 2 * n) /\ k # 2 * n + 1 /\ ~(k <= 2 * n + 1)
      BY <1>2, <2>4
    <3> QED
      BY <1>2, <1>5, <2>4, <3>1
  <2> QED
    BY <1>2, <2>1, <2>2, <2>3, <2>4
<1>8. \A k \in DOMAIN s : s[k] = UtxoStep(order, fresh, activated, failed, k)
  BY <1>5, <1>7 DEF UtxoStep, n
<1> QED
  BY <1>5, <1>6, <1>8 DEF n

(* It is in order for every coin, once the daemon runs the coins it        *)
(* activated.                                                              *)
LEMMA UtxoOrderly ==
  ASSUME NEW S \in SUBSET Coins, NEW order \in Orderings(S), NEW activated \in SUBSET S,
         NEW fresh \in SUBSET activated, activated \subseteq daemon', NEW c
  PROVE  LET s == UtxoScript(order, fresh, activated, S \ activated) IN
         /\ s \in Seq(MicroSteps)
         /\ Orderly(s, c, enabled', daemon')
         /\ \A k \in DOMAIN s : s[k].coins \subseteq S
<1> DEFINE s == UtxoScript(order, fresh, activated, S \ activated)
           n == Len(order)
<1>1. /\ order \in Seq(Coins) /\ {order[i] : i \in DOMAIN order} = S
  BY OrderingsOnto
<1>2. n \in Nat /\ DOMAIN order = 1 .. n
  BY <1>1
<1>3. /\ s \in Seq(MicroSteps) /\ Len(s) = 3 * n + 1
      /\ \A k \in DOMAIN s : s[k] = UtxoStep(order, fresh, activated, S \ activated, k)
  <2>1. fresh \in SUBSET Coins /\ activated \in SUBSET Coins /\ S \ activated \in SUBSET Coins
    OBVIOUS
  <2> QED
    BY <1>1, <2>1, UtxoSteps
<1> HIDE DEF s
<1>4. DOMAIN s = 1 .. 3 * n + 1
  BY <1>3
<1>5. ASSUME NEW k \in DOMAIN s
      PROVE  s[k] = IF k <= n THEN [do |-> "mark", coins |-> {order[k]} \cap fresh]
                    ELSE IF k <= 2 * n THEN [do |-> "mark", coins |-> {order[k - n]} \cap activated]
                    ELSE IF k = 2 * n + 1 THEN [do |-> "announce", coins |-> activated]
                    ELSE [do |-> "unmark", coins |-> {order[k - (2 * n + 1)]} \cap (S \ activated)]
  BY <1>3 DEF UtxoStep
<1> HIDE DEF n
<1>6. ASSUME NEW k \in DOMAIN s
      PROVE  /\ k <= 2 * n => s[k].do = "mark" /\ s[k].coins \subseteq activated
             /\ k = 2 * n + 1 => s[k].do = "announce" /\ s[k].coins = activated
             /\ k > 2 * n + 1 => s[k].do = "unmark" /\ s[k].coins \subseteq S \ activated
  <2>1. CASE k <= n
    BY <1>2, <1>5, <1>4, <2>1
  <2>2. CASE n < k /\ k <= 2 * n
    <3>1. s[k] = [do |-> "mark", coins |-> {order[k - n]} \cap activated]
      BY <1>2, <1>5, <1>4, <2>2
    <3> QED
      BY <1>2, <1>4, <2>2, <3>1
  <2>3. CASE k = 2 * n + 1
    <3>1. s[k] = [do |-> "announce", coins |-> activated]
      BY <1>2, <1>5, <1>4, <2>3
    <3> QED
      BY <1>2, <1>4, <2>3, <3>1
  <2>4. CASE k > 2 * n + 1
    <3>1. s[k] = [do |-> "unmark", coins |-> {order[k - (2 * n + 1)]} \cap (S \ activated)]
      BY <1>2, <1>5, <1>4, <2>4
    <3> QED
      BY <1>2, <1>4, <2>4, <3>1
  <2> QED
    BY <1>2, <1>4, <2>1, <2>2, <2>3, <2>4
<1>7. ASSUME NEW k \in DOMAIN s, c \in s[k].coins, s[k].do = "announce"
      PROVE  \E j \in 1 .. k - 1 : s[j].do = "mark" /\ c \in s[j].coins
  <2>1. k = 2 * n + 1 /\ c \in activated
    BY <1>2, <1>4, <1>6, <1>7
  <2>2. PICK i \in 1 .. n : order[i] = c
    BY <1>1, <1>2, <2>1
  <2>3. /\ n + i \in DOMAIN s /\ n + i \in 1 .. k - 1
        /\ ~(n + i <= n) /\ n + i <= 2 * n /\ (n + i) - n = i
    BY <1>2, <1>4, <2>1, <2>2
  <2>4. s[n + i] = [do |-> "mark", coins |-> {order[i]} \cap activated]
    BY <1>5, <2>3
  <2> QED
    BY <2>1, <2>2, <2>3, <2>4
<1>8. ASSUME NEW k \in DOMAIN s, c \in s[k].coins
      PROVE  /\ s[k].do = "mark" => c \in daemon'
             /\ s[k].do = "announce" => \A j \in DOMAIN s : j > k => c \notin s[j].coins
             /\ s[k].do = "unmark" => \A j \in DOMAIN s : s[j].do # "unmark" => c \notin s[j].coins
  <2>1. s[k].do = "mark" => c \in daemon'
    BY <1>2, <1>4, <1>6, <1>8
  <2>2. ASSUME s[k].do = "announce", NEW j \in DOMAIN s, j > k PROVE c \notin s[j].coins
    <3>1. k = 2 * n + 1 /\ c \in activated
      BY <1>2, <1>4, <1>6, <1>8, <2>2
    <3>2. s[j].coins \subseteq S \ activated
      BY <1>2, <1>4, <1>6, <2>2, <3>1
    <3> QED
      BY <3>1, <3>2
  <2>3. ASSUME s[k].do = "unmark", NEW j \in DOMAIN s, s[j].do # "unmark" PROVE c \notin s[j].coins
    <3>1. c \in S \ activated
      BY <1>2, <1>4, <1>6, <1>8, <2>3
    <3>2. s[j].coins \subseteq activated
      BY <1>2, <1>4, <1>6, <2>3
    <3> QED
      BY <3>1, <3>2
  <2> QED
    BY <2>1, <2>2, <2>3
<1>9. Orderly(s, c, enabled', daemon')
  BY <1>7, <1>8 DEF Orderly
<1>10. \A k \in DOMAIN s : s[k].coins \subseteq S
  BY <1>2, <1>4, <1>6
<1> QED
  BY <1>3, <1>9, <1>10 DEF s

-----------------------------------------------------------------------------
(* A script that handles no coin but those of its call.                    *)
Within(s, S) == \A k \in DOMAIN s : s[k].coins \subseteq S

LEMMA GroupScripts ==
  ASSUME NEW call \in Calls, call.kind # "utxo",
         NEW script \in OkScripts(call) \cup AlreadyScripts(call) \cup {<<Unmark({call.top})>>, <<>>}
  PROVE  script \in Seq(MicroSteps) /\ Within(script, Asked(call))
<1>1. call.top \in Coins /\ call.coins \in SUBSET Coins
  BY DEF Calls
<1>2. Asked(call) = call.coins \cup {call.top}
  BY <1>1, CoinsAssumption DEF Asked
<1>3. ASSUME NEW order \in TopFirst(call)
      PROVE  order \in Seq(Coins) /\ order # <<>> /\ \A k \in DOMAIN order : order[k] \in Asked(call)
  <2>1. PICK rest \in Orderings(call.coins) : order = <<call.top>> \o rest
    BY DEF TopFirst
  <2>2. rest \in Seq(Coins) /\ \A k \in DOMAIN rest : rest[k] \in call.coins
    BY <1>1, OrderingsType
  <2>3. order \in Seq(Coins) /\ order # <<>>
    BY <1>1, <2>1, <2>2
  <2>4. ASSUME NEW k \in DOMAIN order PROVE order[k] \in Asked(call)
    <3>1. CASE k = 1
      BY <1>1, <1>2, <2>1, <2>2, <3>1
    <3>2. CASE k # 1
      <4>1. k - 1 \in DOMAIN rest /\ order[k] = rest[k - 1]
        BY <1>1, <2>1, <2>2, <2>4, <3>2
      <4> QED
        BY <1>2, <2>2, <4>1
    <3> QED
      BY <3>1, <3>2
  <2> QED
    BY <2>3, <2>4
<1>4. ASSUME NEW order \in TopFirst(call), NEW first, NEW second
      PROVE  Within(Alternate(order, first, second), Asked(call))
  <2>1. order \in Seq(Coins) /\ \A k \in DOMAIN order : order[k] \in Asked(call)
    BY <1>3
  <2>2. ASSUME NEW k \in 1 .. 2 * Len(order) PROVE {order[(k + 1) \div 2]} \subseteq Asked(call)
    <3>1. (k + 1) \div 2 \in DOMAIN order
      BY <2>1, <2>2
    <3> QED
      BY <2>1, <3>1
  <2> QED
    BY <2>2 DEF Alternate, Within
<1>5. CASE script \in OkScripts(call) \cup AlreadyScripts(call)
  BY <1>4, <1>5, ScriptTypes DEF OkScripts, AlreadyScripts
<1>6. CASE script = <<Unmark({call.top})>>
  <2>1. Unmark({call.top}) \in MicroSteps /\ Unmark({call.top}).coins = {call.top}
    BY <1>1, MicroStepTypes DEF Unmark
  <2> QED
    BY <1>2, <1>6, <2>1 DEF Within
<1>7. CASE script = <<>>
  BY <1>7 DEF Within
<1> QED
  BY <1>5, <1>6, <1>7

(* An answer is a script within what the call asked for, in order for      *)
(* every UTXO coin once the daemon has served the call.                    *)
LEMMA ServeOrderly ==
  ASSUME UtxoInv, NEW i \in DOMAIN calls, Serve(i)
  PROVE  /\ daemon \subseteq daemon'
         /\ \E script \in Seq(MicroSteps) :
              /\ Answer(i, script)
              /\ Within(script, Asked(calls[i]))
              /\ \A c \in Utxo : Orderly(script, c, enabled', daemon')
<1>1. calls[i] \in Calls
  BY DEF UtxoInv, MainInv, TypeOK
<1>2. CASE ServeUtxo(i)
  <2> DEFINE S == calls[i].coins
  <2>1. PICK failed \in SUBSET (S \ daemon), order \in Orderings(S) :
          /\ daemon' = daemon \cup (S \ failed)
          /\ Answer(i, UtxoScript(order, (S \ failed) \ daemon, S \ failed, failed))
    BY <1>2 DEF ServeUtxo
  <2>2. S \in SUBSET Coins /\ S \subseteq Asked(calls[i])
    BY <1>1 DEF Calls, Asked
  <2> DEFINE activated == S \ failed
             fresh == activated \ daemon
  <2>3. failed = S \ activated /\ activated \in SUBSET S /\ fresh \in SUBSET activated
    BY <2>1
  <2>4. activated \subseteq daemon' /\ daemon \subseteq daemon'
    BY <2>1
  <2> DEFINE script == UtxoScript(order, fresh, activated, S \ activated)
  <2>5. Answer(i, script)
    BY <2>1, <2>3
  <2> HIDE DEF S, activated, fresh
  <2>6. \A c \in Utxo : /\ script \in Seq(MicroSteps) /\ Orderly(script, c, enabled', daemon')
                        /\ \A k \in DOMAIN script : script[k].coins \subseteq S
    BY <2>1, <2>2, <2>3, <2>4, UtxoOrderly
  <2>7. script \in Seq(MicroSteps) /\ \A k \in DOMAIN script : script[k].coins \subseteq S
    BY <2>1, <2>2, <2>3, <2>4, UtxoOrderly
  <2> HIDE DEF script
  <2> QED
    BY <2>2, <2>4, <2>5, <2>6, <2>7 DEF Within
<1>3. CASE ServePlatform(i) \/ ServeToken(i)
  <2>1. calls[i].kind # "utxo" /\ Asked(calls[i]) \cap Utxo = {}
    BY <1>3 DEF ServePlatform, ServeToken, UtxoInv, CallShape
  <2>2. daemon \subseteq daemon'
    BY <1>3 DEF ServePlatform, ServeToken
  <2>3. \E script \in OkScripts(calls[i]) \cup AlreadyScripts(calls[i]) \cup {<<Unmark({calls[i].top})>>, <<>>} :
          Answer(i, script)
    <3>1. CASE ServePlatform(i)
      BY <3>1 DEF ServePlatform
    <3>2. CASE ServeToken(i)
      BY <3>2 DEF ServeToken
    <3> QED
      BY <1>3, <3>1, <3>2
  <2>4. PICK script \in OkScripts(calls[i]) \cup AlreadyScripts(calls[i]) \cup {<<Unmark({calls[i].top})>>, <<>>} :
          Answer(i, script)
    BY <2>3
  <2>5. script \in Seq(MicroSteps) /\ Within(script, Asked(calls[i]))
    BY <1>1, <2>1, GroupScripts
  <2>6. \A c \in Utxo : Orderly(script, c, enabled', daemon')
    BY <2>1, <2>5 DEF Within, Orderly
  <2> QED
    BY <2>2, <2>4, <2>5, <2>6
<1> QED
  BY <1>2, <1>3 DEF Serve

-----------------------------------------------------------------------------
(* A step that does not clear, and does not stop, a coin a call holds      *)
(* leaves its script in order.                                             *)
Undisturbed(call) ==
  \A c \in Utxo :
    Holds(call, c) => (enabled[c] => enabled'[c]) /\ (c \in daemon => c \in daemon')

LEMMA OrderlyKept ==
  ASSUME UtxoInv,
         \A j \in DOMAIN calls' : calls'[j].st = "served" =>
            \/ \A c \in Utxo : Orderly(calls'[j].script, c, enabled', daemon')
            \/ \E i \in DOMAIN calls : calls'[j] = calls[i] /\ Undisturbed(calls[i])
  PROVE  AllOrderly'
<1> SUFFICES ASSUME NEW j \in DOMAIN calls', calls'[j].st = "served", NEW c \in Utxo
             PROVE  Orderly(calls'[j].script, c, enabled', daemon')
  BY DEF AllOrderly
<1>1. ASSUME NEW i \in DOMAIN calls, calls'[j] = calls[i], Undisturbed(calls[i])
      PROVE  Orderly(calls'[j].script, c, enabled', daemon')
  <2> DEFINE s == calls[i].script
  <2>1. Orderly(s, c, enabled, daemon)
    BY <1>1 DEF UtxoInv, AllOrderly
  <2>2. \A k \in DOMAIN s : c \in s[k].coins => Holds(calls[i], c)
    BY <1>1 DEF Holds
  <2>3. \A k \in DOMAIN s :
          c \in s[k].coins => (enabled[c] => enabled'[c]) /\ (c \in daemon => c \in daemon')
    BY <1>1, <2>2 DEF Undisturbed
  <2>4. calls'[j].script = s
    BY <1>1
  <2> HIDE DEF s
  <2>5. ASSUME NEW k \in DOMAIN s, c \in s[k].coins
        PROVE  /\ s[k].do = "mark" => c \in daemon'
               /\ s[k].do = "announce" =>
                    /\ enabled'[c] \/ \E n \in 1 .. k - 1 : s[n].do = "mark" /\ c \in s[n].coins
                    /\ \A n \in DOMAIN s : n > k => c \notin s[n].coins
               /\ s[k].do = "unmark" => \A n \in DOMAIN s : s[n].do # "unmark" => c \notin s[n].coins
    <3>1. /\ s[k].do = "mark" => c \in daemon
          /\ s[k].do = "announce" =>
               /\ enabled[c] \/ \E n \in 1 .. k - 1 : s[n].do = "mark" /\ c \in s[n].coins
               /\ \A n \in DOMAIN s : n > k => c \notin s[n].coins
          /\ s[k].do = "unmark" => \A n \in DOMAIN s : s[n].do # "unmark" => c \notin s[n].coins
      BY <2>1, <2>5, Zenon DEF Orderly
    <3>2. (enabled[c] => enabled'[c]) /\ (c \in daemon => c \in daemon')
      BY <2>3, <2>5
    <3> QED
      BY <3>1, <3>2, Zenon
  <2>6. Orderly(s, c, enabled', daemon')
    BY <2>5 DEF Orderly
  <2> QED
    BY <2>4, <2>6
<1> QED
  BY <1>1

(* Steps that leave the calls alone.                                       *)
LEMMA SameCalls ==
  ASSUME UtxoInv, calls' = calls,
         \A c \in Held(calls) : (enabled[c] => enabled'[c]) /\ (c \in daemon => c \in daemon')
  PROVE  CallShape' /\ HeldOnce(calls') /\ Held(calls') = Held(calls) /\ AllOrderly'
<1>1. \A i \in DOMAIN calls : Undisturbed(calls[i])
  BY DEF Undisturbed, Held
<1>2. AllOrderly'
  BY <1>1, OrderlyKept
<1> QED
  BY <1>2 DEF UtxoInv, CallShape, Once

(* A call that is answered, lost or moves on asks for the same coins, and  *)
(* holds no other.                                                         *)
Moves(old, new) ==
  /\ new.kind = old.kind /\ Asked(new) = Asked(old)
  /\ \A c \in Utxo : Holds(new, c) => Holds(old, c)

LEMMA MovedCall ==
  ASSUME UtxoInv, NEW i \in DOMAIN calls, NEW call,
         \/ calls' = WithoutCall(i)
         \/ /\ calls' = [calls EXCEPT ![i] = call]
            /\ Moves(calls[i], call)
            /\ call.st = "served" => \A c \in Utxo : Orderly(call.script, c, enabled', daemon'),
         \A j \in DOMAIN calls \ {i} : Undisturbed(calls[j])
  PROVE  CallShape' /\ HeldOnce(calls') /\ Held(calls') \subseteq Held(calls) /\ AllOrderly'
<1>0. TypeOK /\ HeldOnce(calls) /\ CallShape
  BY DEF UtxoInv, MainInv, Once
<1>1. CASE calls' = WithoutCall(i)
  <2>1. \A j \in DOMAIN calls' : \E k \in DOMAIN calls \ {i} : calls'[j] = calls[k]
    BY <1>0, <1>1, WithoutCallKeeps
  <2>2. CallShape'
    BY <1>0, <2>1 DEF CallShape
  <2>3. AllOrderly'
    BY <2>1, OrderlyKept
  <2> QED
    BY <1>0, <1>1, <2>2, <2>3, HeldRemoved
<1>2. CASE calls' = [calls EXCEPT ![i] = call] /\ calls' # WithoutCall(i)
  <2>1. DOMAIN calls' = DOMAIN calls /\ calls'[i] = call
    BY <1>0, <1>2 DEF TypeOK
  <2>2. \A j \in DOMAIN calls \ {i} : calls'[j] = calls[j]
    BY <1>0, <1>2 DEF TypeOK
  <2>3. Moves(calls[i], call)
    BY <1>2
  <2>4. CallShape'
    BY <1>0, <2>1, <2>2, <2>3 DEF CallShape, Moves
  <2>5. AllOrderly'
    BY <1>2, <2>1, <2>2, OrderlyKept
  <2>6. HeldOnce(calls') /\ Held(calls') \subseteq Held(calls)
    BY <1>0, <1>2, <2>3, HeldReplaced DEF Moves
  <2> QED
    BY <2>4, <2>5, <2>6
<1> QED
  BY <1>1, <1>2

(* The parts of the invariant after a step.                                *)
LEMMA UtxoInvFrom ==
  ASSUME MainInv', CallShape', AllOrderly', ShownEnabled', UtxoEnabledRuns',
         \A i, j \in DOMAIN queue' : queue'[i] = queue'[j] => i = j,
         HeldOnce(calls'),
         \A c \in Utxo : c \in Queued' => c \notin Activating',
         \A c \in Held(calls') : c \notin Queued' /\ c \notin Activating' /\ c \notin Shown' /\ c \notin batch',
         \A c \in Utxo : c \in Queued' \/ c \in Activating' => c \notin Shown' /\ c \notin batch',
         \A c \in Utxo : c \in rows' => c \notin portfolioQueue',
         \A c \in Utxo : c \in batch' => c \notin Shown'
  PROVE  UtxoInv'
<1>1. Held(calls)' = Held(calls') /\ HeldOnce(calls)'
  OBVIOUS
<1>2. Once'
  BY <1>1 DEF Once
<1>3. Apart'
  BY <1>1 DEF Apart, OnWay, Held
<1> QED
  BY <1>2, <1>3 DEF UtxoInv

LEMMA UtxoInvParts ==
  ASSUME UtxoInv
  PROVE  /\ MainInv /\ TypeOK /\ MainShape
         /\ CallShape /\ AllOrderly /\ ShownEnabled /\ UtxoEnabledRuns
         /\ \A i, j \in DOMAIN queue : queue[i] = queue[j] => i = j
         /\ HeldOnce(calls)
         /\ \A c \in Utxo : c \in Queued => c \notin Activating
         /\ \A c \in Held(calls) : c \notin Queued /\ c \notin Activating /\ c \notin Shown /\ c \notin batch
         /\ \A c \in Utxo : c \in Queued \/ c \in Activating => c \notin Shown /\ c \notin batch
         /\ \A c \in Utxo : c \in rows => c \notin portfolioQueue
         /\ \A c \in Utxo : c \in batch => c \notin Shown
BY DEF UtxoInv, MainInv, Once, Apart, OnWay, Held

-----------------------------------------------------------------------------
(* Steps in which no coin starts or ends its way.                          *)
LEMMA StillUtxo ==
  ASSUME UtxoInv, MainInv', UNCHANGED <<calls, enabled, daemon, queue, rows, portfolioQueue>>,
         \A c \in Utxo : c \in Activating' => c \in Activating,
         batch' \subseteq batch, UtxoEnabledRuns'
  PROVE  UtxoInv'
<1>1. CallShape' /\ HeldOnce(calls') /\ Held(calls') = Held(calls) /\ AllOrderly'
  BY SameCalls
<1>2. Queued' = Queued /\ Shown' = Shown
  BY DEF Queued, Shown
<1>3. ShownEnabled'
  BY <1>2, UtxoInvParts DEF ShownEnabled
<1>4. \A c \in Utxo : c \in batch' => c \in batch
  OBVIOUS
<1>5. \A c \in Held(calls') : c \in Utxo /\ c \in Held(calls)
  BY <1>1 DEF Held
<1>6. queue' = queue /\ rows' = rows /\ portfolioQueue' = portfolioQueue
  OBVIOUS
<1> QED
  BY <1>1, <1>2, <1>3, <1>4, <1>5, <1>6, UtxoInvParts, UtxoInvFrom

(* A call that is sent takes its UTXO coins from the group being sent.     *)
LEMMA SentCall ==
  ASSUME UtxoInv, MainInv', NEW call, call.st = "sent", calls' = Append(calls, call),
         UNCHANGED <<enabled, daemon, queue, rows, portfolioQueue, batch, rpc>>,
         call.kind # "utxo" => Asked(call) \cap Utxo = {},
         \A c \in Utxo : c \in Asked(call) => c \in Activating /\ c \notin Activating',
         \A c \in Utxo : c \in Activating' => c \in Activating
  PROVE  UtxoInv'
<1>1. /\ DOMAIN calls' = DOMAIN calls \cup {Len(calls) + 1}
      /\ calls'[Len(calls) + 1] = call
      /\ \A i \in DOMAIN calls : calls'[i] = calls[i]
  BY AppendedCall, UtxoInvParts
<1>2. CallShape'
  BY <1>1, UtxoInvParts DEF CallShape
<1>3. \A i \in DOMAIN calls : Undisturbed(calls[i])
  BY DEF Undisturbed
<1>4. AllOrderly'
  BY <1>1, <1>3, OrderlyKept
<1>5. \A c : Holds(call, c) => c \in Asked(call)
  BY DEF Holds
<1>6. \A c \in Held(calls) : c \in Utxo /\ ~Holds(call, c)
  BY <1>5, UtxoInvParts DEF Held
<1>7. /\ HeldOnce(calls')
      /\ \A c \in Held(calls') : c \in Held(calls) \/ Holds(call, c)
  BY <1>6, HeldAppended, UtxoInvParts
<1>8. \A c \in Held(calls') : c \in Utxo /\ (c \in Held(calls) \/ (c \in Activating /\ c \notin Activating'))
  BY <1>5, <1>7 DEF Held
<1>9. Queued' = Queued /\ Shown' = Shown
  BY DEF Queued, Shown
<1>10. ShownEnabled' /\ UtxoEnabledRuns'
  BY <1>9, UtxoInvParts DEF ShownEnabled, UtxoEnabledRuns
<1> QED
  BY <1>2, <1>4, <1>7, <1>8, <1>9, <1>10, UtxoInvParts, UtxoInvFrom

(* The user asks again for a coin that is on its way.                      *)
AsksAgain ==
  \E chosen \in SUBSET Coins :
    EnableCoins(chosen) /\ \E c \in chosen \cup ExtraCoins(chosen) : ~enabled[c] /\ Pending(c)

(* Otherwise the coins of a command are not on their way.                  *)
LEMMA EnableUtxo ==
  ASSUME ~AsksAgain, UtxoInv, MainInv',
         NEW chosen \in SUBSET Coins, EnableCoins(chosen)
  PROVE  UtxoInv'
<1> DEFINE asked == {c \in chosen \cup ExtraCoins(chosen) : ~enabled[c]}
<1>1. asked \in SUBSET Coins
  BY DEF ExtraCoins
<1>2. PICK new \in Orderings(asked) : queue' = queue \o new
  BY DEF EnableCoins
<1>3. /\ mainOp = "idle" /\ mainOp' = "idle"
      /\ \A c \in asked : ~Pending(c) /\ ~enabled[c]
      /\ UNCHANGED <<enabled, daemon, calls, batch, rpc, rows, portfolioQueue>>
  <2>1. \A c \in asked : ~Pending(c) /\ ~enabled[c]
    BY DEF AsksAgain
  <2> QED
    BY <2>1 DEF EnableCoins, mainVars
<1> HIDE DEF asked
<1>4. /\ new \in Seq(Coins) /\ \A i, j \in DOMAIN new : new[i] = new[j] => i = j
      /\ \A i \in DOMAIN new : new[i] \in asked
  BY <1>1, OrderingsOnto
<1>5. \A c \in asked : c \notin Queued /\ c \notin Held(calls) /\ (c \in Utxo => c \notin Shown)
  BY <1>3, UtxoInvParts DEF Pending, Held, Holds, ShownEnabled
<1>6. queue \in Seq(Coins)
  BY UtxoInvParts DEF TypeOK
<1>7. /\ DOMAIN queue' = 1 .. Len(queue) + Len(new)
      /\ \A i \in 1 .. Len(queue) + Len(new) :
           queue'[i] = IF i <= Len(queue) THEN queue[i] ELSE new[i - Len(queue)]
  <2>1. queue' \in Seq(Coins) /\ Len(queue') = Len(queue) + Len(new)
    BY <1>2, <1>4, <1>6, ConcatProperties
  <2>2. \A i \in 1 .. Len(queue) + Len(new) :
           queue'[i] = IF i <= Len(queue) THEN queue[i] ELSE new[i - Len(queue)]
    BY <1>2, <1>4, <1>6, ConcatProperties
  <2> QED
    BY <2>1, <2>2
<1>8. ASSUME NEW i \in DOMAIN queue'
      PROVE  \/ i \in DOMAIN queue /\ queue'[i] = queue[i] /\ queue'[i] \in Queued
             \/ i - Len(queue) \in DOMAIN new /\ queue'[i] = new[i - Len(queue)] /\ queue'[i] \in asked
  <2>1. Len(queue) \in Nat /\ Len(new) \in Nat /\ DOMAIN queue = 1 .. Len(queue) /\ DOMAIN new = 1 .. Len(new)
    BY <1>4, <1>6
  <2>2. CASE i <= Len(queue)
    BY <1>7, <2>1, <2>2 DEF Queued
  <2>3. CASE ~(i <= Len(queue))
    <3>1. i - Len(queue) \in DOMAIN new
      BY <1>7, <2>1, <2>3
    <3> QED
      BY <1>4, <1>7, <2>1, <2>3, <3>1
  <2> QED
    BY <2>2, <2>3
<1>9. \A i, j \in DOMAIN queue' : queue'[i] = queue'[j] => i = j
  <2> SUFFICES ASSUME NEW i \in DOMAIN queue', NEW j \in DOMAIN queue', queue'[i] = queue'[j] PROVE i = j
    OBVIOUS
  <2>1. i \in Int /\ j \in Int /\ Len(queue) \in Int
    BY <1>4, <1>6, <1>7
  <2>2. CASE i \in DOMAIN queue /\ queue'[i] = queue[i] /\ queue'[i] \in Queued
    BY <1>5, <1>8, <2>2, UtxoInvParts
  <2>3. CASE i - Len(queue) \in DOMAIN new /\ queue'[i] = new[i - Len(queue)] /\ queue'[i] \in asked
    <3>1. j - Len(queue) \in DOMAIN new /\ queue'[j] = new[j - Len(queue)]
      BY <1>5, <1>8, <2>3
    <3>2. i - Len(queue) = j - Len(queue)
      BY <1>4, <2>3, <3>1
    <3> QED
      BY <2>1, <3>2
  <2> QED
    BY <1>8, <2>2, <2>3
<1>10. \A c \in Queued' : c \in Queued \/ c \in asked
  BY <1>8 DEF Queued
<1>11. CallShape' /\ HeldOnce(calls') /\ Held(calls') = Held(calls) /\ AllOrderly'
  BY <1>3, SameCalls
<1>12. Activating' = {} /\ batch' = {} /\ Shown' = Shown
  BY <1>3, UtxoInvParts DEF Activating, Shown, MainShape
<1>13. ShownEnabled' /\ UtxoEnabledRuns'
  BY <1>3, <1>12, UtxoInvParts DEF ShownEnabled, UtxoEnabledRuns
<1> QED
  BY <1>3, <1>5, <1>9, <1>10, <1>11, <1>12, <1>13, UtxoInvParts, UtxoInvFrom DEF Shown

(* The rows that a disable removes were not on their way.                  *)
LEMMA DisableUtxo ==
  ASSUME UtxoInv, MainInv', NEW chosen \in SUBSET Coins, DisableCoins(chosen)
  PROVE  UtxoInv'
<1>1. /\ mainOp = "idle" /\ mainOp' = "disable" /\ rows' = rows \ chosen /\ batch' = chosen
      /\ chosen \subseteq rows
      /\ UNCHANGED <<enabled, queue, calls, daemon, portfolioQueue, rpc>>
  BY DEF DisableCoins
<1>2. CallShape' /\ HeldOnce(calls') /\ Held(calls') = Held(calls) /\ AllOrderly'
  BY <1>1, SameCalls
<1>3. Activating' = {} /\ Queued' = Queued
  BY <1>1 DEF Activating, Queued
<1>4. \A c : c \in Shown' => c \in Shown
  BY <1>1 DEF Shown
<1>5. \A c \in batch' : c \in Shown /\ (c \in Utxo => c \notin Shown')
  BY <1>1, UtxoInvParts DEF Shown
<1>6. ShownEnabled' /\ UtxoEnabledRuns'
  BY <1>1, <1>4, UtxoInvParts DEF ShownEnabled, UtxoEnabledRuns
<1> QED
  BY <1>1, <1>2, <1>3, <1>4, <1>5, <1>6, UtxoInvParts, UtxoInvFrom

(* The coin of a blocking call is of the batch, so neither on its way nor  *)
(* shown.                                                                  *)
LEMMA RpcCoin ==
  ASSUME UtxoInv, rpc # NoRpc
  PROVE  /\ rpc.coin \in batch /\ rpc.coin \notin Held(calls)
         /\ rpc.coin \in Utxo => rpc.coin \notin Shown
BY UtxoInvParts DEF MainShape

LEMMA DaemonDisablesUtxo ==
  ASSUME UtxoInv, MainInv', DaemonDisables
  PROVE  UtxoInv'
<1>1. /\ rpc.answer = "awaited"
      /\ UNCHANGED <<enabled, queue, mainOp, work, batch, calls, rows, portfolioQueue>>
  BY DEF DaemonDisables
<1>2. rpc # NoRpc /\ rpc \in Rpcs
  BY <1>1, UtxoInvParts DEF NoRpc, TypeOK
<1>3. \A c : c \in daemon => c \in daemon' \/ (c = rpc.coin /\ rpc' = [coin |-> c, answer |-> "ok"])
  BY <1>2 DEF DaemonDisables, Rpcs
<1>4. CallShape' /\ HeldOnce(calls') /\ Held(calls') = Held(calls) /\ AllOrderly'
  BY <1>1, <1>2, <1>3, RpcCoin, SameCalls
<1>5. Activating' = Activating /\ Queued' = Queued /\ Shown' = Shown
  BY <1>1 DEF Activating, Queued, Shown
<1>6. UtxoEnabledRuns'
  <2> SUFFICES ASSUME NEW c \in Utxo, enabled[c] PROVE c \in daemon' \/ rpc' = [coin |-> c, answer |-> "ok"]
    BY <1>1 DEF UtxoEnabledRuns
  <2>1. rpc # [coin |-> c, answer |-> "ok"]
    BY <1>1
  <2>2. c \in daemon
    BY <2>1, UtxoInvParts DEF UtxoEnabledRuns
  <2> QED
    BY <1>3, <2>2
<1>7. ShownEnabled'
  BY <1>1, <1>5, UtxoInvParts DEF ShownEnabled
<1> QED
  BY <1>1, <1>4, <1>5, <1>6, <1>7, UtxoInvParts, UtxoInvFrom

LEMMA DisableAnsweredUtxo ==
  ASSUME UtxoInv, MainInv', DisableAnswered
  PROVE  UtxoInv'
<1>1. /\ rpc.answer \in {"ok", "refused"}
      /\ enabled' = [c \in Coins |-> enabled[c] /\ ~(c = rpc.coin /\ rpc.answer = "ok")]
      /\ UNCHANGED <<queue, mainOp, batch, calls, daemon, rows, portfolioQueue>>
  BY DEF DisableAnswered
<1>2. rpc # NoRpc
  BY <1>1 DEF NoRpc
<1>3. \A c \in Utxo : c # rpc.coin => (enabled[c] => enabled'[c])
  BY <1>1 DEF Utxo
<1>4. \A c \in Held(calls) : c \in Utxo
  BY DEF Held
<1>5. CallShape' /\ HeldOnce(calls') /\ Held(calls') = Held(calls) /\ AllOrderly'
  BY <1>1, <1>2, <1>3, <1>4, RpcCoin, SameCalls
<1>6. Queued' = Queued /\ Shown' = Shown
  BY <1>1 DEF Queued, Shown
<1>7. ShownEnabled'
  BY <1>2, <1>3, <1>6, RpcCoin, UtxoInvParts DEF ShownEnabled
<1>8. mainOp = "disable" /\ Activating' = {}
  BY <1>1, <1>2, UtxoInvParts DEF MainShape, Activating
<1>9. UtxoEnabledRuns'
  <2> SUFFICES ASSUME NEW c \in Utxo, enabled'[c] PROVE c \in daemon'
    BY DEF UtxoEnabledRuns
  <2>1. c \in Coins
    BY DEF Utxo
  <2>2. enabled[c] /\ ~(c = rpc.coin /\ rpc.answer = "ok")
    BY <1>1, <2>1
  <2>3. rpc = [coin |-> c, answer |-> "ok"] => c = rpc.coin /\ rpc.answer = "ok"
    OBVIOUS
  <2> QED
    BY <1>1, <2>2, <2>3, UtxoInvParts DEF UtxoEnabledRuns
<1> QED
  BY <1>1, <1>5, <1>6, <1>7, <1>8, <1>9, UtxoInvParts, UtxoInvFrom

(* The coins taken from the queue were in it once.                         *)
LEMMA UpdateUtxo ==
  ASSUME UtxoInv, MainInv', UpdateActivation
  PROVE  UtxoInv'
<1> DEFINE n == IF Len(queue) < BatchLimit THEN Len(queue) ELSE BatchLimit
<1>0. queue \in Seq(Coins)
  BY UtxoInvParts DEF TypeOK
<1>1. n \in 0 .. Len(queue)
  BY <1>0, LimitsAssumption
<1>2. /\ mainOp = "idle" /\ work' = {queue[k] : k \in 1 .. n}
      /\ queue' = SubSeq(queue, n + 1, Len(queue))
      /\ UNCHANGED <<enabled, batch, rpc, calls, daemon, portfolioQueue, rows>>
  BY DEF UpdateActivation
<1> HIDE DEF n
<1>3. /\ DOMAIN queue' = 1 .. Len(queue) - n /\ Len(queue) \in Nat /\ n \in Nat
      /\ DOMAIN queue = 1 .. Len(queue)
      /\ \A k \in 1 .. Len(queue) - n : queue'[k] = queue[n + k]
  BY <1>0, <1>1, <1>2, QueueSplit
<1>4. \A k \in DOMAIN queue' : n + k \in DOMAIN queue /\ queue'[k] = queue[n + k] /\ n + k \notin 1 .. n /\ k \in Int
  BY <1>1, <1>3
<1>5. \A i, j \in DOMAIN queue' : queue'[i] = queue'[j] => i = j
  <2> SUFFICES ASSUME NEW i \in DOMAIN queue', NEW j \in DOMAIN queue', queue'[i] = queue'[j] PROVE i = j
    OBVIOUS
  <2>1. n + i = n + j
    BY <1>4, UtxoInvParts
  <2> QED
    BY <1>3, <1>4, <2>1
<1>6. \A c \in Queued' : c \in Queued /\ \A k \in 1 .. n : queue[k] # c
  <2> SUFFICES ASSUME NEW k \in DOMAIN queue' PROVE queue'[k] \in Queued /\ \A m \in 1 .. n : queue[m] # queue'[k]
    BY DEF Queued
  <2>1. \A m \in 1 .. n : m \in DOMAIN queue
    BY <1>1, <1>3
  <2> QED
    BY <1>4, <2>1, UtxoInvParts DEF Queued
<1>7. \A c \in Activating' : c \in Queued /\ c \notin Queued'
  <2>1. \A k \in 1 .. n : queue[k] \in Queued
    BY <1>1, <1>3 DEF Queued
  <2> QED
    BY <1>2, <1>6, <2>1 DEF Activating
<1>8. CallShape' /\ HeldOnce(calls') /\ Held(calls') = Held(calls) /\ AllOrderly'
  BY <1>2, SameCalls
<1>9. Shown' = Shown
  BY <1>2 DEF Shown
<1>10. ShownEnabled' /\ UtxoEnabledRuns'
  BY <1>2, <1>9, UtxoInvParts DEF ShownEnabled, UtxoEnabledRuns
<1> QED
  BY <1>2, <1>5, <1>6, <1>7, <1>8, <1>9, <1>10, UtxoInvParts, UtxoInvFrom

LEMMA PortfolioUtxo ==
  ASSUME UtxoInv, MainInv', InitializePortfolio
  PROVE  UtxoInv'
<1>1. /\ rows' = rows \cup portfolioQueue /\ portfolioQueue' = {}
      /\ UNCHANGED <<enabled, queue, mainOp, work, batch, rpc, calls, daemon>>
  BY DEF InitializePortfolio, mainVars
<1>2. CallShape' /\ HeldOnce(calls') /\ Held(calls') = Held(calls) /\ AllOrderly'
  BY <1>1, SameCalls
<1>3. Activating' = Activating /\ Queued' = Queued /\ Shown' = Shown
  BY <1>1 DEF Activating, Queued, Shown
<1>4. ShownEnabled' /\ UtxoEnabledRuns'
  BY <1>1, <1>3, UtxoInvParts DEF ShownEnabled, UtxoEnabledRuns
<1> QED
  BY <1>1, <1>2, <1>3, <1>4, UtxoInvParts, UtxoInvFrom

-----------------------------------------------------------------------------
(* Sending the calls of a batch.                                           *)
LEMMA ActivateUtxoUtxo ==
  ASSUME UtxoInv, MainInv', ActivateUtxo
  PROVE  UtxoInv'
<1> DEFINE call == UtxoCall(work \cap Utxo)
<1>1. call.st = "sent" /\ call.kind = "utxo" /\ Asked(call) = work \cap Utxo
  BY DEF UtxoCall, Asked
<1>2. /\ mainOp = "activate" /\ mainOp' = "activate" /\ work' = work \ Utxo
      /\ calls' = Append(calls, call)
      /\ UNCHANGED <<enabled, daemon, queue, rows, portfolioQueue, batch, rpc>>
  BY DEF ActivateUtxo
<1> HIDE DEF call
<1>3. Activating = work /\ Activating' = work \ Utxo
  BY <1>2 DEF Activating
<1> QED
  BY <1>1, <1>2, <1>3, SentCall

LEMMA ActivateGroupUtxo ==
  ASSUME UtxoInv, MainInv', NEW p \in Coins, ActivateGroup(p)
  PROVE  UtxoInv'
<1> DEFINE group == {c \in work : Platform[c] = p}
           call == PlatformCall(p, group \ {p})
<1>1. /\ mainOp = "activate" /\ mainOp' = "activate" /\ group # {} /\ work' = work \ group
      /\ UNCHANGED <<enabled, daemon, queue, rows, portfolioQueue, batch, rpc>>
      /\ calls' = calls \/ calls' = Append(calls, call)
  BY DEF ActivateGroup
<1>2. \A c \in group : c \in Coins /\ Platform[c] = p
  BY UtxoInvParts DEF TypeOK
<1>3. p \notin Utxo /\ \A c \in group : c \notin Utxo
  BY <1>1, <1>2, GroupNotUtxo
<1>4. call.st = "sent" /\ Asked(call) = group \cup {p}
  BY CoinsAssumption DEF PlatformCall, Asked
<1> HIDE DEF group, call
<1>5. Activating = work /\ Activating' = work \ group
  BY <1>1 DEF Activating
<1>6. CASE calls' = calls
  <2>1. UtxoEnabledRuns'
    BY <1>1, UtxoInvParts DEF UtxoEnabledRuns
  <2> QED
    BY <1>1, <1>5, <1>6, <2>1, StillUtxo
<1>7. CASE calls' = Append(calls, call)
  BY <1>1, <1>3, <1>4, <1>5, <1>7, SentCall
<1> QED
  BY <1>1, <1>6, <1>7

LEMMA SendTokenUtxo ==
  ASSUME UtxoInv, MainInv', NEW t \in Coins, SendToken(t)
  PROVE  UtxoInv'
<1>1. TokenCall(t).st = "sent" /\ Asked(TokenCall(t)) = {t}
  BY CoinsAssumption DEF TokenCall, Asked
<1>2. t \notin Utxo
  BY UtxoInvParts DEF SendToken, MainShape
<1>3. /\ calls' = Append(calls, TokenCall(t)) /\ Activating' = Activating
      /\ UNCHANGED <<enabled, daemon, queue, rows, portfolioQueue, batch, rpc>>
  BY DEF SendToken, Activating
<1> QED
  BY <1>1, <1>2, <1>3, SentCall

-----------------------------------------------------------------------------
(* Answers.                                                                *)
LEMMA MovedUtxo ==
  ASSUME UtxoInv, MainInv', CallShape', HeldOnce(calls'), Held(calls') \subseteq Held(calls), AllOrderly',
         daemon \subseteq daemon',
         UNCHANGED <<enabled, queue, mainOp, work, batch, rpc, rows, portfolioQueue>>
  PROVE  UtxoInv'
<1>1. Activating' = Activating /\ Queued' = Queued /\ Shown' = Shown
  BY DEF Activating, Queued, Shown
<1>2. ShownEnabled' /\ UtxoEnabledRuns'
  BY <1>1, UtxoInvParts DEF ShownEnabled, UtxoEnabledRuns
<1>3. \A c \in Held(calls') : c \in Held(calls)
  OBVIOUS
<1> QED
  BY <1>1, <1>2, <1>3, UtxoInvParts, UtxoInvFrom

LEMMA ServeUtxoInv ==
  ASSUME UtxoInv, MainInv', NEW i \in DOMAIN calls, Serve(i)
  PROVE  UtxoInv'
<1>1. PICK script \in Seq(MicroSteps) :
        /\ Answer(i, script)
        /\ Within(script, Asked(calls[i]))
        /\ \A c \in Utxo : Orderly(script, c, enabled', daemon')
  BY ServeOrderly
<1>2. /\ daemon \subseteq daemon'
      /\ UNCHANGED <<enabled, queue, mainOp, work, batch, rpc, rows, portfolioQueue>>
  BY ServeOrderly DEF Serve, mainVars
<1> DEFINE call == [calls[i] EXCEPT !.st = "served", !.script = script]
<1>3. calls[i] \in Calls
  BY UtxoInvParts DEF TypeOK
<1>4. /\ call.st = "served" /\ call.script = script /\ call.kind = calls[i].kind
      /\ call.top = calls[i].top /\ call.coins = calls[i].coins
  BY <1>3 DEF Calls
<1>5. \/ calls' = WithoutCall(i)
      \/ calls[i].st = "sent" /\ calls' = [calls EXCEPT ![i] = call]
  BY <1>1 DEF Answer
<1> HIDE DEF call
<1>6. calls[i].st = "sent" => Moves(calls[i], call)
  BY <1>1, <1>4 DEF Moves, Asked, Holds, Within
<1>7. \A j \in DOMAIN calls : Undisturbed(calls[j])
  BY <1>2 DEF Undisturbed
<1>8. CallShape' /\ HeldOnce(calls') /\ Held(calls') \subseteq Held(calls) /\ AllOrderly'
  BY <1>1, <1>4, <1>5, <1>6, <1>7, MovedCall
<1> QED
  BY <1>2, <1>8, MovedUtxo

LEMMA LoseUtxo ==
  ASSUME UtxoInv, MainInv', NEW i \in DOMAIN calls, LoseAnswer(i)
  PROVE  UtxoInv'
<1> DEFINE call == [calls[i] EXCEPT !.st = "lost"]
<1>1. calls' = [calls EXCEPT ![i] = call]
  BY DEF LoseAnswer
<1>2. UNCHANGED <<enabled, daemon, queue, mainOp, work, batch, rpc, rows, portfolioQueue>>
  BY DEF LoseAnswer, mainVars
<1>3. calls[i] \in Calls
  BY UtxoInvParts DEF TypeOK
<1>4. /\ call.st = "lost" /\ call.kind = calls[i].kind
      /\ call.top = calls[i].top /\ call.coins = calls[i].coins
  BY <1>3 DEF Calls
<1> HIDE DEF call
<1>5. Moves(calls[i], call)
  BY <1>4 DEF Moves, Asked, Holds
<1>6. \A j \in DOMAIN calls : Undisturbed(calls[j])
  BY <1>2 DEF Undisturbed
<1>7. CallShape' /\ HeldOnce(calls') /\ Held(calls') \subseteq Held(calls) /\ AllOrderly'
  BY <1>1, <1>4, <1>5, <1>6, MovedCall
<1> QED
  BY <1>2, <1>7, MovedUtxo

(* What is left of a script after its head, for a coin: still in order,    *)
(* when the head marked what it marks, and nothing of a coin just          *)
(* announced.                                                              *)
LEMMA TailOrderly ==
  ASSUME NEW s \in Seq(MicroSteps) \ {<<>>}, NEW c \in Coins, Orderly(s, c, enabled, daemon),
         daemon' = daemon,
         enabled' = [d \in Coins |-> \/ Head(s).do = "mark" /\ d \in Head(s).coins
                                     \/ enabled[d] /\ ~(Head(s).do = "unmark" /\ d \in Head(s).coins)]
  PROVE  /\ Orderly(Tail(s), c, enabled', daemon')
         /\ c \in Head(s).coins /\ Head(s).do = "announce" =>
              enabled[c] /\ \A k \in DOMAIN Tail(s) : c \notin Tail(s)[k].coins
         /\ c \in Head(s).coins /\ Head(s).do = "mark" => c \in daemon
<1>1. /\ Head(s) = s[1] /\ 1 \in DOMAIN s
      /\ \A k \in DOMAIN Tail(s) : k + 1 \in DOMAIN s /\ Tail(s)[k] = s[k + 1]
  BY HeadTail
<1>2. Len(s) \in Nat /\ DOMAIN s = 1 .. Len(s) /\ DOMAIN Tail(s) = 1 .. Len(s) - 1
  OBVIOUS
<1> DEFINE t == Tail(s)
           h == Head(s)
<1>3. /\ h = s[1] /\ 1 \in DOMAIN s
      /\ \A k \in DOMAIN t : k + 1 \in DOMAIN s /\ t[k] = s[k + 1] /\ k \in Int /\ 1 <= k
      /\ \A k \in DOMAIN s : k \in Int /\ 1 <= k
      /\ \A k \in DOMAIN s : k # 1 => k - 1 \in DOMAIN t /\ t[k - 1] = s[k]
  BY <1>1, <1>2
<1>4. enabled'[c] <=> (h.do = "mark" /\ c \in h.coins) \/ (enabled[c] /\ ~(h.do = "unmark" /\ c \in h.coins))
  OBVIOUS
<1> HIDE DEF t, h
<1>5. ASSUME NEW k \in DOMAIN s, c \in s[k].coins
      PROVE  /\ s[k].do = "mark" => c \in daemon
             /\ s[k].do = "announce" =>
                  /\ enabled[c] \/ \E j \in 1 .. k - 1 : s[j].do = "mark" /\ c \in s[j].coins
                  /\ \A j \in DOMAIN s : j > k => c \notin s[j].coins
             /\ s[k].do = "unmark" => \A j \in DOMAIN s : s[j].do # "unmark" => c \notin s[j].coins
  BY <1>5, Zenon DEF Orderly
<1>6. c \in h.coins /\ h.do = "announce" => enabled[c] /\ \A k \in DOMAIN t : c \notin t[k].coins
  <2> SUFFICES ASSUME c \in h.coins, h.do = "announce"
               PROVE  enabled[c] /\ \A k \in DOMAIN t : c \notin t[k].coins
    OBVIOUS
  <2>1. /\ enabled[c] \/ \E j \in 1 .. 1 - 1 : s[j].do = "mark" /\ c \in s[j].coins
        /\ \A j \in DOMAIN s : j > 1 => c \notin s[j].coins
    BY <1>3, <1>5
  <2>2. enabled[c]
    BY <2>1
  <2>3. ASSUME NEW k \in DOMAIN t PROVE c \notin t[k].coins
    <3>1. k + 1 \in DOMAIN s /\ k + 1 > 1 /\ t[k] = s[k + 1]
      BY <1>3
    <3> QED
      BY <2>1, <3>1
  <2> QED
    BY <2>2, <2>3
<1>7. c \in h.coins /\ h.do = "mark" => c \in daemon
  BY <1>3, <1>5
<1>8. ASSUME NEW k \in DOMAIN t, c \in t[k].coins
      PROVE  /\ t[k].do = "mark" => c \in daemon'
             /\ t[k].do = "announce" =>
                  /\ enabled'[c] \/ \E j \in 1 .. k - 1 : t[j].do = "mark" /\ c \in t[j].coins
                  /\ \A j \in DOMAIN t : j > k => c \notin t[j].coins
             /\ t[k].do = "unmark" => \A j \in DOMAIN t : t[j].do # "unmark" => c \notin t[j].coins
  <2>1. k + 1 \in DOMAIN s /\ t[k] = s[k + 1] /\ c \in s[k + 1].coins /\ k \in Int
    BY <1>3, <1>8
  <2>2. t[k].do = "mark" => c \in daemon'
    BY <1>5, <2>1
  <2>3. ASSUME t[k].do = "announce"
        PROVE  enabled'[c] \/ \E j \in 1 .. k - 1 : t[j].do = "mark" /\ c \in t[j].coins
    <3>1. enabled[c] \/ \E j \in 1 .. (k + 1) - 1 : s[j].do = "mark" /\ c \in s[j].coins
      BY <1>5, <2>1, <2>3
    <3>2. CASE enabled[c] /\ ~(h.do = "unmark" /\ c \in h.coins)
      BY <1>4, <3>2
    <3>3. CASE h.do = "unmark" /\ c \in h.coins
      BY <1>3, <1>5, <2>1, <2>3, <3>3
    <3>4. ASSUME NEW j \in 1 .. (k + 1) - 1, s[j].do = "mark", c \in s[j].coins
          PROVE  enabled'[c] \/ \E m \in 1 .. k - 1 : t[m].do = "mark" /\ c \in t[m].coins
      <4>1. CASE j = 1
        BY <1>3, <1>4, <3>4, <4>1
      <4>2. CASE j # 1
        <5>1. j \in DOMAIN s /\ j - 1 \in 1 .. k - 1
          BY <1>2, <2>1, <3>4, <4>2
        <5>2. t[j - 1] = s[j]
          BY <1>3, <4>2, <5>1
        <5> QED
          BY <3>4, <5>1, <5>2
      <4> QED
        BY <4>1, <4>2
    <3> QED
      BY <3>1, <3>2, <3>3, <3>4
  <2>4. ASSUME t[k].do = "announce", NEW j \in DOMAIN t, j > k PROVE c \notin t[j].coins
    <3>1. j + 1 \in DOMAIN s /\ j + 1 > k + 1 /\ t[j] = s[j + 1]
      BY <1>3, <2>1, <2>4
    <3>2. \A m \in DOMAIN s : m > k + 1 => c \notin s[m].coins
      BY <1>5, <2>1, <2>4
    <3> QED
      BY <3>1, <3>2
  <2>5. ASSUME t[k].do = "unmark", NEW j \in DOMAIN t, t[j].do # "unmark" PROVE c \notin t[j].coins
    <3>1. j + 1 \in DOMAIN s /\ t[j] = s[j + 1]
      BY <1>3
    <3> QED
      BY <1>5, <2>1, <2>5, <3>1
  <2> QED
    BY <2>2, <2>3, <2>4, <2>5
<1>9. Orderly(t, c, enabled', daemon')
  BY <1>8 DEF Orderly
<1> QED
  BY <1>6, <1>7, <1>9 DEF t, h

LEMMA CallbackUtxo ==
  ASSUME UtxoInv, MainInv', NEW i \in DOMAIN calls, Callback(i)
  PROVE  UtxoInv'
<1> DEFINE s == calls[i].script
           h == Head(s)
           call == [calls[i] EXCEPT !.script = Tail(s)]
<1>1. /\ calls[i].st = "served" /\ calls[i] \in Calls
      /\ UNCHANGED <<queue, mainOp, work, batch, rpc, daemon, rows>>
      /\ enabled' = [d \in Coins |-> \/ h.do = "mark" /\ d \in h.coins
                                     \/ enabled[d] /\ ~(h.do = "unmark" /\ d \in h.coins)]
      /\ portfolioQueue' = IF h.do = "announce" THEN portfolioQueue \cup h.coins ELSE portfolioQueue
  BY UtxoInvParts DEF Callback, mainVars, TypeOK
<1>2. s \in Seq(MicroSteps) \ {<<>>} /\ h \in MicroSteps
  BY <1>1, CallTypes, CallbackType, UtxoInvParts
<1>3. /\ call.st = "served" /\ call.script = Tail(s) /\ call.kind = calls[i].kind
      /\ call.top = calls[i].top /\ call.coins = calls[i].coins
  BY <1>1 DEF Calls
<1>4. \/ calls' = WithoutCall(i) /\ Len(s) = 1
      \/ calls' = [calls EXCEPT ![i] = call]
  BY DEF Callback
<1>5. ASSUME NEW c \in Utxo
      PROVE  /\ c \in Coins
             /\ Orderly(Tail(s), c, enabled', daemon')
             /\ c \in h.coins /\ h.do = "announce" =>
                  enabled[c] /\ \A k \in DOMAIN Tail(s) : c \notin Tail(s)[k].coins
             /\ c \in h.coins /\ h.do = "mark" => c \in daemon
  <2>1. c \in Coins
    BY DEF Utxo
  <2>2. Orderly(s, c, enabled, daemon)
    BY <1>1, UtxoInvParts DEF AllOrderly
  <2> QED
    BY <1>1, <1>2, <2>1, <2>2, TailOrderly
<1>6. /\ h = s[1] /\ 1 \in DOMAIN s
      /\ \A k \in DOMAIN Tail(s) : k + 1 \in DOMAIN s /\ Tail(s)[k] = s[k + 1]
  BY <1>2, HeadTail
<1>7. \A c \in Utxo : c \in h.coins => Holds(calls[i], c)
  BY <1>1, <1>6 DEF Holds
<1>8. Moves(calls[i], call)
  <2>1. Asked(call) = Asked(calls[i])
    BY <1>3 DEF Asked
  <2>2. ASSUME NEW c \in Utxo, Holds(call, c) PROVE Holds(calls[i], c)
    <3>1. PICK k \in DOMAIN Tail(s) : c \in Tail(s)[k].coins
      BY <1>3, <2>2 DEF Holds
    <3>2. k + 1 \in DOMAIN s /\ c \in s[k + 1].coins
      BY <1>6, <3>1
    <3> QED
      BY <1>1, <3>2 DEF Holds
  <2> QED
    BY <1>3, <2>1, <2>2 DEF Moves
(* No other call holds a coin of this step.                                *)
<1>9. \A j \in DOMAIN calls \ {i} : Undisturbed(calls[j])
  <2> SUFFICES ASSUME NEW j \in DOMAIN calls \ {i}, NEW c \in Utxo, Holds(calls[j], c)
               PROVE  (enabled[c] => enabled'[c]) /\ (c \in daemon => c \in daemon')
    BY DEF Undisturbed
  <2>1. c \notin h.coins
    BY <1>7, UtxoInvParts DEF HeldOnce
  <2> QED
    BY <1>1, <1>5, <2>1
<1> HIDE DEF call
<1>10. CallShape' /\ HeldOnce(calls') /\ Held(calls') \subseteq Held(calls) /\ AllOrderly'
  BY <1>3, <1>4, <1>5, <1>8, <1>9, MovedCall
<1>11. ASSUME NEW c \in Utxo, c \in h.coins, h.do = "announce"
       PROVE  /\ c \in Held(calls) /\ c \notin Held(calls')
              /\ enabled[c] /\ enabled'[c]
  <2>1. Holds(calls[i], c) /\ c \in Held(calls)
    BY <1>7, <1>11 DEF Held
  <2>2. enabled[c] /\ enabled'[c]
    BY <1>1, <1>5, <1>11
  <2>3. ~Holds(call, c)
    BY <1>3, <1>5, <1>11 DEF Holds
  <2>4. c \notin Held(calls')
    <3>1. CASE calls' = WithoutCall(i)
      BY <2>1, <3>1, HeldRemoved, UtxoInvParts
    <3>2. CASE calls' = [calls EXCEPT ![i] = call]
      BY <1>8, <2>1, <2>3, <3>2, HeldReplaced, UtxoInvParts DEF Moves
    <3> QED
      BY <1>4, <3>1, <3>2
  <2> QED
    BY <2>1, <2>2, <2>4
<1>12. Activating' = Activating /\ Queued' = Queued
  BY <1>1 DEF Activating, Queued
<1>13. \A c \in Utxo : c \in Shown' => c \in Shown \/ (c \in h.coins /\ h.do = "announce")
  BY <1>1 DEF Shown
<1>14. \A c \in Utxo : c \in portfolioQueue' => c \in portfolioQueue \/ (c \in h.coins /\ h.do = "announce")
  BY <1>1
<1>15. \A c \in Utxo : c \in h.coins => c \in Held(calls)
  BY <1>7 DEF Held
<1>16. ShownEnabled'
  <2> SUFFICES ASSUME NEW c \in Utxo, c \in Shown' PROVE enabled'[c]
    BY DEF ShownEnabled
  <2>1. CASE c \in Shown
    <3>1. enabled[c] /\ c \notin h.coins
      BY <1>15, <2>1, UtxoInvParts DEF ShownEnabled
    <3> QED
      BY <1>1, <1>5, <3>1
  <2>2. CASE c \in h.coins /\ h.do = "announce"
    BY <1>11, <2>2
  <2> QED
    BY <1>13, <2>1, <2>2
<1>17. UtxoEnabledRuns'
  <2> SUFFICES ASSUME NEW c \in Utxo, enabled'[c] PROVE c \in daemon \/ rpc = [coin |-> c, answer |-> "ok"]
    BY <1>1 DEF UtxoEnabledRuns
  <2>1. CASE enabled[c]
    BY <2>1, UtxoInvParts DEF UtxoEnabledRuns
  <2>2. CASE h.do = "mark" /\ c \in h.coins
    BY <1>5, <2>2
  <2> QED
    BY <1>1, <1>5, <2>1, <2>2
<1>18. \A c \in Held(calls') : c \in Utxo /\ c \in Held(calls)
  BY <1>10 DEF Held
<1> HIDE DEF s, h
<1>19. \A c \in Held(calls') : c \notin Queued' /\ c \notin Activating' /\ c \notin Shown' /\ c \notin batch'
  BY <1>1, <1>11, <1>12, <1>13, <1>18, UtxoInvParts
<1>20. \A c \in Utxo : c \in Queued' \/ c \in Activating' => c \notin Shown' /\ c \notin batch'
  BY <1>1, <1>11, <1>12, <1>13, UtxoInvParts
<1>21. \A c \in Utxo : c \in batch' => c \notin Shown'
  BY <1>1, <1>11, <1>13, UtxoInvParts
<1>22. \A c \in Utxo : c \in rows' => c \notin portfolioQueue'
  BY <1>1, <1>11, <1>14, UtxoInvParts DEF Shown
<1>23. \A j, k \in DOMAIN queue' : queue'[j] = queue'[k] => j = k
  BY <1>1, UtxoInvParts
<1>24. \A c \in Utxo : c \in Queued' => c \notin Activating'
  BY <1>12, UtxoInvParts
<1> QED
  BY <1>10, <1>16, <1>17, <1>19, <1>20, <1>21, <1>22, <1>23, <1>24, UtxoInvFrom

(* Login and restart: only the queue is filled, each coin once.            *)
LEMMA FreshUtxo ==
  ASSUME NEW S \in SUBSET Coins, queue' \in Orderings(S), MainInv',
         \A c \in Coins : ~enabled'[c],
         calls' = <<>>, rows' = {}, portfolioQueue' = {}, batch' = {}, mainOp' = "idle"
  PROVE  UtxoInv'
<1>1. \A i, j \in DOMAIN queue' : queue'[i] = queue'[j] => i = j
  BY OrderingsOnto
<1>2. DOMAIN calls' = {}
  OBVIOUS
<1>3. CallShape' /\ AllOrderly' /\ HeldOnce(calls') /\ Held(calls') = {}
  BY <1>2 DEF CallShape, AllOrderly, HeldOnce, Held
<1>4. Shown' = {} /\ Activating' = {}
  BY DEF Shown, Activating
<1>5. ShownEnabled' /\ UtxoEnabledRuns'
  BY <1>4 DEF ShownEnabled, UtxoEnabledRuns, Utxo
<1> QED
  BY <1>1, <1>3, <1>4, <1>5, UtxoInvFrom

LEMMA UtxoInit == Init => UtxoInv
<1> SUFFICES ASSUME Init PROVE UtxoInv
  OBVIOUS
<1>0. MainInv
  BY MainInit
<1>1. \A i, j \in DOMAIN queue : queue[i] = queue[j] => i = j
  BY OrderingsOnto DEF Init
<1>2. DOMAIN calls = {}
  BY DEF Init
<1>3. CallShape /\ AllOrderly /\ HeldOnce(calls) /\ Held(calls) = {}
  BY <1>2 DEF CallShape, AllOrderly, HeldOnce, Held
<1>4. Shown = {} /\ Activating = {} /\ batch = {} /\ rows = {}
  BY DEF Init, Shown, Activating
<1>5. ShownEnabled /\ UtxoEnabledRuns
  BY <1>4 DEF Init, ShownEnabled, UtxoEnabledRuns, Utxo
<1> QED
  BY <1>0, <1>1, <1>3, <1>4, <1>5 DEF UtxoInv, Once, Apart, OnWay

LEMMA UtxoStepInv == UtxoInv /\ [Next]_vars /\ [~AsksAgain]_vars => UtxoInv'
<1> SUFFICES ASSUME UtxoInv, [Next]_vars, [~AsksAgain]_vars PROVE UtxoInv'
  OBVIOUS
<1>0. MainInv'
  BY MainStep, UtxoInvParts
(* Steps in which no coin starts or ends its way.                          *)
<1>1. ASSUME UNCHANGED <<calls, enabled, daemon, queue, rows, portfolioQueue, work>>,
             mainOp' \in {mainOp, "idle"}, batch' \subseteq batch, rpc' = rpc
      PROVE  UtxoInv'
  <2>1. \A c \in Utxo : c \in Activating' => c \in Activating
    BY <1>1 DEF Activating
  <2>2. UtxoEnabledRuns'
    BY <1>1, UtxoInvParts DEF UtxoEnabledRuns
  <2> QED
    BY <1>0, <1>1, <2>1, <2>2, StillUtxo
<1>2. ASSUME NEW chosen \in SUBSET Coins, EnableCoins(chosen) PROVE UtxoInv'
  <2>1. CASE ~AsksAgain
    BY <1>0, <1>2, <2>1, EnableUtxo
  <2>2. CASE UNCHANGED vars
    BY <1>1, <2>2 DEF vars, mainVars
  <2> QED
    BY <2>1, <2>2
<1>3. ASSUME NEW chosen \in SUBSET Coins, DisableCoins(chosen) PROVE UtxoInv'
  BY <1>0, <1>3, DisableUtxo
<1>4. ASSUME NEW c \in Coins, DisableCoin(c) PROVE UtxoInv'
  <2>1. /\ UNCHANGED <<calls, enabled, daemon, queue, rows, portfolioQueue, batch, mainOp>>
        /\ mainOp = "disable" /\ rpc = NoRpc
    BY <1>4 DEF DisableCoin
  <2>2. Activating' = {}
    BY <2>1 DEF Activating
  <2>3. UtxoEnabledRuns'
    BY <2>1, UtxoInvParts DEF UtxoEnabledRuns, NoRpc
  <2> QED
    BY <1>0, <2>1, <2>2, <2>3, StillUtxo
<1>5. CASE DaemonDisables
  BY <1>0, <1>5, DaemonDisablesUtxo
<1>6. CASE DisableAnswered
  BY <1>0, <1>6, DisableAnsweredUtxo
<1>7. CASE DisableFinished
  BY <1>1, <1>7 DEF DisableFinished
<1>8. CASE UpdateActivation
  BY <1>0, <1>8, UpdateUtxo
<1>9. CASE ActivateUtxo
  BY <1>0, <1>9, ActivateUtxoUtxo
<1>10. ASSUME NEW p \in Coins, ActivateGroup(p) PROVE UtxoInv'
  BY <1>0, <1>10, ActivateGroupUtxo
<1>11. ASSUME NEW t \in Coins, SendToken(t) PROVE UtxoInv'
  BY <1>0, <1>11, SendTokenUtxo
<1>12. CASE ActivateFinished
  BY <1>1, <1>12 DEF ActivateFinished
<1>13. CASE InitializePortfolio
  BY <1>0, <1>13, PortfolioUtxo
<1>14. ASSUME NEW i \in DOMAIN calls, Serve(i) PROVE UtxoInv'
  BY <1>0, <1>14, ServeUtxoInv
<1>15. ASSUME NEW i \in DOMAIN calls, Callback(i) PROVE UtxoInv'
  BY <1>0, <1>15, CallbackUtxo
<1>16. ASSUME NEW i \in DOMAIN calls, LoseAnswer(i) PROVE UtxoInv'
  BY <1>0, <1>16, LoseUtxo
<1>17. CASE CrashRestart
  <2>1. /\ queue' \in Orderings({c \in Coins : active'[c]})
        /\ \A c \in Coins : ~enabled'[c]
        /\ calls' = <<>> /\ rows' = {} /\ portfolioQueue' = {} /\ batch' = {} /\ mainOp' = "idle"
    BY <1>17 DEF CrashRestart
  <2> QED
    BY <1>0, <2>1, FreshUtxo
<1>18. CASE UNCHANGED vars
  BY <1>1, <1>18 DEF vars, mainVars
<1> QED
  BY <1>2, <1>3, <1>4, <1>5, <1>6, <1>7, <1>8, <1>9, <1>10, <1>11, <1>12,
     <1>13, <1>14, <1>15, <1>16, <1>17, <1>18 DEF Next

(* The users of an instance without AllowResubmit never do.                *)
LEMMA NeverAgain ==
  ASSUME AllowResubmit = FALSE
  PROVE  Spec => [][~AsksAgain]_vars
<1>1. [Next]_vars => [~AsksAgain]_vars
  BY DEF AsksAgain, EnableCoins
<1> QED
  BY <1>1, PTL DEF Spec

(* As long as the user does not ask again for a coin on its way, an        *)
(* enabled UTXO coin runs in the daemon, or the daemon has just disabled   *)
(* it and its answer is about to be read: for every order of calls and     *)
(* callbacks, lost answers and crashes included.                           *)
THEOREM UtxoEnabledCorrect == Spec /\ [][~AsksAgain]_vars => []UtxoEnabledRuns
<1>1. UtxoInv => UtxoEnabledRuns
  BY UtxoInvParts
<1> QED
  BY <1>1, UtxoStepInv, UtxoInit, PTL DEF Spec

(* Under the same condition, a row of a UTXO coin is the row of an enabled *)
(* coin.                                                                   *)
THEOREM UtxoRowsCorrect == Spec /\ [][~AsksAgain]_vars => []UtxoRowsEnabled
<1>1. UtxoInv => UtxoRowsEnabled
  BY UtxoInvParts DEF UtxoRowsEnabled, ShownEnabled, Shown
<1> QED
  BY <1>1, UtxoStepInv, UtxoInit, PTL DEF Spec

=============================================================================
