------------------------- MODULE ZhtlcActivationProofs -------------------------
(***************************************************************************)
(* Proofs about ZhtlcActivation, for any number of coins and activations   *)
(* and every bound on tries and lost answers.                              *)
(***************************************************************************)
EXTENDS ZhtlcActivation, TLAPS

(* The types, in three parts.                                              *)
TasksTyped ==
  /\ task \in [Tasks -> Threads] /\ job \in [Tasks -> {"none", "runs", "ok", "failed"}]
  /\ \A t \in Tasks :
       /\ At(t, "free") <=> Coin(t) = NoCoin
       /\ task[t].pc \in {"poll", "sleep", "ended"} => job[t] # "none"
       /\ job[t] # "none" => Coin(t) # NoCoin
       /\ At(t, "sleep") => task[t].tries < MaxTries
       /\ At(t, "poll") => task[t].tries < MaxTries
       /\ At(t, "sent") => task[t].tries = 0
CoinsTyped ==
  /\ enabled \in [Coins -> BOOLEAN] /\ active \subseteq Coins
  /\ status \in [Coins -> {"none", "progress", "ok", "error"}]
  /\ daemon \in [Coins -> {"off", "works", "ready"}]
ViewTyped ==
  /\ announced \subseteq Coins /\ rows \subseteq Coins /\ rpc \in Coins \cup {NoCoin}
  /\ trouble \subseteq Coins /\ overtaken \subseteq Coins /\ hidden \subseteq Coins
  /\ lost \in 0 .. MaxLost
TypeInv == TasksTyped /\ CoinsTyped /\ ViewTyped

(* An enabled coin that is not ready is being polled, or had trouble.      *)
Polled(c) == \E t \in Tasks : Coin(t) = c /\ task[t].pc \in {"poll", "sleep", "ended"}
StuckInv ==
  /\ \A c \in Coins : enabled[c] => Ready(c) \/ c \in trouble \/ Polled(c)
  /\ \A t \in Tasks : At(t, "already") => Coin(t) \in trouble

(* A disable leaves nothing behind that could bring the coin back, unless  *)
(* a thread was at work.                                                   *)
OffInv ==
  /\ \A c \in rows \cup announced : enabled[c] \/ c \in overtaken
  /\ \A t \in Tasks : At(t, "tail") => enabled[Coin(t)] \/ Coin(t) \in overtaken
  /\ rpc \notin rows

-----------------------------------------------------------------------------
(* The records of the threads.                                             *)
LEMMA Records ==
  /\ \A s \in Threads : /\ s.pc \in Pcs /\ s.coin \in Coins \cup {NoCoin}
                        /\ s.tries \in 0 .. MaxTries /\ s.again \in 0 .. MaxAlready
  /\ \A c \in Coins : /\ Sent(c) \in Threads /\ Sent(c).pc = "sent" /\ Sent(c).coin = c
                       /\ Sent(c).tries = 0
                       /\ Done(c) \in Threads /\ Done(c).pc = "done" /\ Done(c).coin = c
  /\ Free \in Threads /\ Free.pc = "free" /\ Free.coin = NoCoin
  /\ NoCoin \notin Coins
<1>2. 0 \in 0 .. MaxTries /\ 0 \in 0 .. MaxAlready /\ NoCoin \notin Coins
  BY ZhtlcAssumption
<1>3. Free \in Threads /\ Free.pc = "free" /\ Free.coin = NoCoin
  BY <1>2 DEF Free, Fresh, Threads, Pcs
<1>4. ASSUME NEW c \in Coins
      PROVE  /\ Sent(c) \in Threads /\ Sent(c).pc = "sent" /\ Sent(c).coin = c /\ Sent(c).tries = 0
             /\ Done(c) \in Threads /\ Done(c).pc = "done" /\ Done(c).coin = c
  BY <1>2 DEF Threads, Pcs, Sent, Done, Fresh
<1>5. \A s \in Threads : /\ s.pc \in Pcs /\ s.coin \in Coins \cup {NoCoin}
                        /\ s.tries \in 0 .. MaxTries /\ s.again \in 0 .. MaxAlready
  BY DEF Threads
<1>6. QED
  BY <1>2, <1>3, <1>4, <1>5

(* The first state has the types.                                          *)
LEMMA TypeInit == Init => TypeInv
<1> SUFFICES ASSUME Init PROVE TypeInv OBVIOUS
<1> USE Records, ZhtlcAssumption
<1>1. \A t \in Tasks : task[t] = Free \/ \E c \in Coins : task[t] = Sent(c)
  BY DEF Init
<1>2. task \in [Tasks -> Threads]
  BY <1>1 DEF Init
<1>3. TasksTyped
  BY <1>1, <1>2 DEF Init, TasksTyped, At, Coin
<1>4. CoinsTyped /\ ViewTyped
  BY DEF Init, CoinsTyped, ViewTyped
<1>5. QED
  BY <1>3, <1>4 DEF TypeInv

(* A step keeps the threads and their tasks typed.                         *)
LEMMA TasksStep == TypeInv /\ [Next]_vars => TasksTyped'
<1> SUFFICES ASSUME TypeInv, [Next]_vars PROVE TasksTyped' OBVIOUS
<1> USE Records, ZhtlcAssumption
<1>1. ASSUME NEW t \in Tasks, InitAnswered(t) PROVE TasksTyped'
  <2>1. At(t, "sent") /\ Coin(t) \in Coins
    BY <1>1 DEF InitAnswered, TypeInv, TasksTyped, At, Coin
  <2>2. UNCHANGED <<enabled, active, status, announced, rows, rpc, overtaken, hidden, lost>>
    BY <1>1 DEF InitAnswered, viewVars
  <2>3. \/ /\ daemon[Coin(t)] = "off" /\ Goto(t, "poll") /\ UNCHANGED trouble
           /\ job' = [job EXCEPT ![t] = "runs"] /\ daemon' = [daemon EXCEPT ![Coin(t)] = "works"]
        \/ Goto(t, "already") /\ Trouble(Coin(t)) /\ UNCHANGED <<job, daemon>>
        \/ Goto(t, "failed") /\ Trouble(Coin(t)) /\ UNCHANGED <<job, daemon>>
    BY <1>1 DEF InitAnswered, daemonVars
  <2>4. CASE Goto(t, "poll") /\ UNCHANGED trouble /\ job' = [job EXCEPT ![t] = "runs"]
    BY <2>1, <2>2, <2>4 DEF Goto, At, Coin, TypeInv, TasksTyped, Threads, Pcs
  <2>5. ASSUME NEW pc \in {"already", "failed"}, Goto(t, pc), Trouble(Coin(t)), UNCHANGED <<job, daemon>>
        PROVE  TasksTyped'
    BY <2>1, <2>2, <2>5 DEF Goto, Trouble, At, Coin, TypeInv, TasksTyped, Threads, Pcs
  <2>6. QED
    BY <2>3, <2>4, <2>5
<1>2. ASSUME NEW t \in Tasks, InitLost(t) PROVE TasksTyped'
  BY <1>2 DEF InitLost, TypeInv, At, Coin, Goto, Mark, Save, Trouble, Announce, daemonVars, viewVars, historyVars, TasksTyped, CoinsTyped, Threads, Pcs
<1>3. ASSUME NEW t \in Tasks, AlreadyActivated(t) PROVE TasksTyped'
  BY <1>3 DEF AlreadyActivated, TypeInv, At, Coin, Goto, Mark, Save, Trouble, Announce, daemonVars, viewVars, historyVars, TasksTyped, CoinsTyped, Threads, Pcs
<1>4. ASSUME NEW t \in Tasks, Store(t) PROVE TasksTyped'
  BY <1>4 DEF Store, TypeInv, At, Coin, Goto, Mark, Save, Trouble, Announce, daemonVars, viewVars, historyVars, TasksTyped, CoinsTyped, Threads, Pcs
<1>5. ASSUME NEW t \in Tasks, TimedOut(t) PROVE TasksTyped'
  BY <1>5 DEF TimedOut, TypeInv, At, Coin, Goto, Mark, Save, Trouble, Announce, daemonVars, viewVars, historyVars, TasksTyped, CoinsTyped, Threads, Pcs
<1>6. ASSUME NEW t \in Tasks, PollOk(t) PROVE TasksTyped'
  BY <1>6 DEF PollOk, TypeInv, At, Coin, Goto, Mark, Save, Trouble, Announce, daemonVars, viewVars, historyVars, TasksTyped, CoinsTyped, Threads, Pcs
<1>7. ASSUME NEW t \in Tasks, PollError(t) PROVE TasksTyped'
  BY <1>7 DEF PollError, TypeInv, At, Coin, Goto, Mark, Save, Trouble, Announce, daemonVars, viewVars, historyVars, TasksTyped, CoinsTyped, Threads, Pcs
<1>8. ASSUME NEW t \in Tasks, PollAlready(t) PROVE TasksTyped'
  BY <1>8 DEF PollAlready, TypeInv, At, Coin, Goto, Mark, Save, Trouble, Announce, daemonVars, viewVars, historyVars, TasksTyped, CoinsTyped, Threads, Pcs
<1>9. ASSUME NEW t \in Tasks, PollLost(t) PROVE TasksTyped'
  BY <1>9 DEF PollLost, TypeInv, At, Coin, Goto, Mark, Save, Trouble, Announce, daemonVars, viewVars, historyVars, TasksTyped, CoinsTyped, Threads, Pcs
<1>10. ASSUME NEW t \in Tasks, Removed(t) PROVE TasksTyped'
  BY <1>10 DEF Removed, TypeInv, At, Coin, Goto, Mark, Save, Trouble, Announce, daemonVars, viewVars, historyVars, TasksTyped, CoinsTyped, Threads, Pcs
<1>11. ASSUME NEW t \in Tasks, Tail(t) PROVE TasksTyped'
  BY <1>11 DEF Tail, TypeInv, At, Coin, Goto, Mark, Save, Trouble, Announce, daemonVars, viewVars, historyVars, TasksTyped, CoinsTyped, Threads, Pcs
<1>12. ASSUME NEW t \in Tasks, Final(t) PROVE TasksTyped'
  BY <1>12 DEF Final, TypeInv, At, Coin, Goto, Mark, Save, Trouble, Announce, daemonVars, viewVars, historyVars, TasksTyped, CoinsTyped, Threads, Pcs
<1>13. ASSUME NEW t \in Tasks, DaemonEnds(t) PROVE TasksTyped'
  BY <1>13 DEF DaemonEnds, TypeInv, At, Coin, Goto, Mark, Save, Trouble, Announce, daemonVars, viewVars, historyVars, TasksTyped, CoinsTyped, Threads, Pcs
<1>14. ASSUME NEW t \in Tasks, NEW event \in {"activating", "scanning"}, PollProgress(t, event) PROVE TasksTyped'
  <2> DEFINE new == [task[t] EXCEPT !.pc = "sleep", !.last = event]
  <2>1. task' = [task EXCEPT ![t] = new] /\ UNCHANGED job /\ At(t, "poll")
    BY <1>14 DEF PollProgress, daemonVars
  <2>2. task[t] \in Threads
    BY DEF TypeInv, TasksTyped
  <2>3. new \in Threads /\ new.pc = "sleep" /\ new.coin = task[t].coin /\ new.tries = task[t].tries
    BY <2>2 DEF Threads, Pcs
  <2>4. QED
    BY <2>1, <2>3 DEF TypeInv, TasksTyped, At, Coin
<1>15. ASSUME NEW t \in Tasks, NEW c \in Coins, Enable(t, c) PROVE TasksTyped'
  BY <1>15 DEF Enable, TypeInv, At, Coin, Goto, Mark, Save, Trouble, Announce, daemonVars, viewVars, historyVars, TasksTyped, CoinsTyped, Threads, Pcs
<1>16. ASSUME NEW c \in Coins, Disable(c) PROVE TasksTyped'
  BY <1>16 DEF Disable, TypeInv, At, Coin, Goto, Mark, Save, Trouble, Announce, daemonVars, viewVars, historyVars, TasksTyped, CoinsTyped, Threads, Pcs
<1>17. CASE DisableEnd
  BY <1>17 DEF DisableEnd, TypeInv, At, Coin, Goto, Mark, Save, Trouble, Announce, daemonVars, viewVars, historyVars, TasksTyped, CoinsTyped, Threads, Pcs
<1>18. CASE SaveEnabled
  BY <1>18 DEF SaveEnabled, TypeInv, At, Coin, Goto, Mark, Save, Trouble, Announce, daemonVars, viewVars, historyVars, TasksTyped, CoinsTyped, Threads, Pcs
<1>19. CASE InsertRows
  BY <1>19 DEF InsertRows, TypeInv, At, Coin, Goto, Mark, Save, Trouble, Announce, daemonVars, viewVars, historyVars, TasksTyped, CoinsTyped, Threads, Pcs
<1>20. CASE UNCHANGED vars
  BY <1>20 DEF vars, TypeInv, At, Coin, Goto, Mark, Save, Trouble, Announce, daemonVars, viewVars, historyVars, TasksTyped, CoinsTyped, Threads, Pcs
<1>21. QED
  BY <1>1, <1>2, <1>3, <1>4, <1>5, <1>6, <1>7, <1>8, <1>9, <1>10, <1>11, <1>12, <1>13, <1>14, <1>15, <1>16, <1>17, <1>18, <1>19, <1>20 DEF Next, ThreadStep, MainStep

(* A step keeps the registry typed.                                        *)
LEMMA CoinsStep == TypeInv /\ [Next]_vars => CoinsTyped'
<1> SUFFICES ASSUME TypeInv, [Next]_vars PROVE CoinsTyped' OBVIOUS
<1> USE Records, ZhtlcAssumption
<1>1. ASSUME NEW t \in Tasks, InitAnswered(t) PROVE CoinsTyped'
  BY <1>1 DEF InitAnswered, TypeInv, At, Coin, Goto, Mark, Save, Trouble, Announce, daemonVars, viewVars, historyVars, TasksTyped, CoinsTyped, ViewTyped
<1>2. ASSUME NEW t \in Tasks, InitLost(t) PROVE CoinsTyped'
  BY <1>2 DEF InitLost, TypeInv, At, Coin, Goto, Mark, Save, Trouble, Announce, daemonVars, viewVars, historyVars, TasksTyped, CoinsTyped, ViewTyped
<1>3. ASSUME NEW t \in Tasks, AlreadyActivated(t) PROVE CoinsTyped'
  BY <1>3 DEF AlreadyActivated, TypeInv, At, Coin, Goto, Mark, Save, Trouble, Announce, daemonVars, viewVars, historyVars, TasksTyped, CoinsTyped, ViewTyped
<1>4. ASSUME NEW t \in Tasks, Store(t) PROVE CoinsTyped'
  BY <1>4 DEF Store, TypeInv, At, Coin, Goto, Mark, Save, Trouble, Announce, daemonVars, viewVars, historyVars, TasksTyped, CoinsTyped, ViewTyped
<1>5. ASSUME NEW t \in Tasks, TimedOut(t) PROVE CoinsTyped'
  BY <1>5 DEF TimedOut, TypeInv, At, Coin, Goto, Mark, Save, Trouble, Announce, daemonVars, viewVars, historyVars, TasksTyped, CoinsTyped, ViewTyped
<1>6. ASSUME NEW t \in Tasks, PollOk(t) PROVE CoinsTyped'
  BY <1>6 DEF PollOk, TypeInv, At, Coin, Goto, Mark, Save, Trouble, Announce, daemonVars, viewVars, historyVars, TasksTyped, CoinsTyped, ViewTyped
<1>7. ASSUME NEW t \in Tasks, PollError(t) PROVE CoinsTyped'
  BY <1>7 DEF PollError, TypeInv, At, Coin, Goto, Mark, Save, Trouble, Announce, daemonVars, viewVars, historyVars, TasksTyped, CoinsTyped, ViewTyped
<1>8. ASSUME NEW t \in Tasks, PollAlready(t) PROVE CoinsTyped'
  BY <1>8 DEF PollAlready, TypeInv, At, Coin, Goto, Mark, Save, Trouble, Announce, daemonVars, viewVars, historyVars, TasksTyped, CoinsTyped, ViewTyped
<1>9. ASSUME NEW t \in Tasks, PollLost(t) PROVE CoinsTyped'
  BY <1>9 DEF PollLost, TypeInv, At, Coin, Goto, Mark, Save, Trouble, Announce, daemonVars, viewVars, historyVars, TasksTyped, CoinsTyped, ViewTyped
<1>10. ASSUME NEW t \in Tasks, Removed(t) PROVE CoinsTyped'
  BY <1>10 DEF Removed, TypeInv, At, Coin, Goto, Mark, Save, Trouble, Announce, daemonVars, viewVars, historyVars, TasksTyped, CoinsTyped, ViewTyped
<1>11. ASSUME NEW t \in Tasks, Tail(t) PROVE CoinsTyped'
  BY <1>11 DEF Tail, TypeInv, At, Coin, Goto, Mark, Save, Trouble, Announce, daemonVars, viewVars, historyVars, TasksTyped, CoinsTyped, ViewTyped
<1>12. ASSUME NEW t \in Tasks, Final(t) PROVE CoinsTyped'
  BY <1>12 DEF Final, TypeInv, At, Coin, Goto, Mark, Save, Trouble, Announce, daemonVars, viewVars, historyVars, TasksTyped, CoinsTyped, ViewTyped
<1>13. ASSUME NEW t \in Tasks, DaemonEnds(t) PROVE CoinsTyped'
  BY <1>13 DEF DaemonEnds, TypeInv, At, Coin, Goto, Mark, Save, Trouble, Announce, daemonVars, viewVars, historyVars, TasksTyped, CoinsTyped, ViewTyped
<1>14. ASSUME NEW t \in Tasks, NEW event \in {"activating", "scanning"}, PollProgress(t, event) PROVE CoinsTyped'
  <2>1. Coin(t) \in Coins
    BY <1>14 DEF PollProgress, TypeInv, TasksTyped, At, Coin
  <2>2. enabled' = enabled \/ Mark(Coin(t))
    BY <1>14 DEF PollProgress
  <2>3. enabled' \in [Coins -> BOOLEAN]
    BY <2>1, <2>2 DEF Mark, TypeInv, CoinsTyped
  <2>4. QED
    BY <1>14, <2>3 DEF PollProgress, daemonVars, TypeInv, CoinsTyped
<1>15. ASSUME NEW t \in Tasks, NEW c \in Coins, Enable(t, c) PROVE CoinsTyped'
  BY <1>15 DEF Enable, TypeInv, At, Coin, Goto, Mark, Save, Trouble, Announce, daemonVars, viewVars, historyVars, TasksTyped, CoinsTyped, ViewTyped
<1>16. ASSUME NEW c \in Coins, Disable(c) PROVE CoinsTyped'
  BY <1>16 DEF Disable, TypeInv, At, Coin, Goto, Mark, Save, Trouble, Announce, daemonVars, viewVars, historyVars, TasksTyped, CoinsTyped, ViewTyped
<1>17. CASE DisableEnd
  <2>1. rpc \in Coins
    BY <1>17 DEF DisableEnd, TypeInv, ViewTyped
  <2>2. \/ UNCHANGED <<daemon, enabled>>
        \/ /\ daemon' = [daemon EXCEPT ![rpc] = "off"]
           /\ enabled' = [enabled EXCEPT ![rpc] = FALSE]
    BY <1>17 DEF DisableEnd, DaemonDisables
  <2>3. enabled' \in [Coins -> BOOLEAN] /\ daemon' \in [Coins -> {"off", "works", "ready"}]
    BY <2>1, <2>2 DEF TypeInv, CoinsTyped
  <2>4. QED
    BY <1>17, <2>3 DEF DisableEnd, Save, TypeInv, CoinsTyped
<1>18. CASE SaveEnabled
  BY <1>18 DEF SaveEnabled, TypeInv, At, Coin, Goto, Mark, Save, Trouble, Announce, daemonVars, viewVars, historyVars, TasksTyped, CoinsTyped, ViewTyped
<1>19. CASE InsertRows
  BY <1>19 DEF InsertRows, TypeInv, At, Coin, Goto, Mark, Save, Trouble, Announce, daemonVars, viewVars, historyVars, TasksTyped, CoinsTyped, ViewTyped
<1>20. CASE UNCHANGED vars
  BY <1>20 DEF vars, TypeInv, At, Coin, Goto, Mark, Save, Trouble, Announce, daemonVars, viewVars, historyVars, TasksTyped, CoinsTyped, ViewTyped
<1>21. QED
  BY <1>1, <1>2, <1>3, <1>4, <1>5, <1>6, <1>7, <1>8, <1>9, <1>10, <1>11, <1>12, <1>13, <1>14, <1>15, <1>16, <1>17, <1>18, <1>19, <1>20 DEF Next, ThreadStep, MainStep

(* A step keeps what the main thread holds typed.                          *)
LEMMA ViewStep == TypeInv /\ [Next]_vars => ViewTyped'
<1> SUFFICES ASSUME TypeInv, [Next]_vars PROVE ViewTyped' OBVIOUS
<1> USE Records, ZhtlcAssumption
<1>1. ASSUME NEW t \in Tasks, InitAnswered(t) PROVE ViewTyped'
  BY <1>1 DEF InitAnswered, TypeInv, At, Coin, Goto, Mark, Save, Trouble, Announce, daemonVars, viewVars, historyVars, TasksTyped, CoinsTyped, ViewTyped
<1>2. ASSUME NEW t \in Tasks, InitLost(t) PROVE ViewTyped'
  BY <1>2 DEF InitLost, TypeInv, At, Coin, Goto, Mark, Save, Trouble, Announce, daemonVars, viewVars, historyVars, TasksTyped, CoinsTyped, ViewTyped
<1>3. ASSUME NEW t \in Tasks, AlreadyActivated(t) PROVE ViewTyped'
  BY <1>3 DEF AlreadyActivated, TypeInv, At, Coin, Goto, Mark, Save, Trouble, Announce, daemonVars, viewVars, historyVars, TasksTyped, CoinsTyped, ViewTyped
<1>4. ASSUME NEW t \in Tasks, Store(t) PROVE ViewTyped'
  BY <1>4 DEF Store, TypeInv, At, Coin, Goto, Mark, Save, Trouble, Announce, daemonVars, viewVars, historyVars, TasksTyped, CoinsTyped, ViewTyped
<1>5. ASSUME NEW t \in Tasks, TimedOut(t) PROVE ViewTyped'
  BY <1>5 DEF TimedOut, TypeInv, At, Coin, Goto, Mark, Save, Trouble, Announce, daemonVars, viewVars, historyVars, TasksTyped, CoinsTyped, ViewTyped
<1>6. ASSUME NEW t \in Tasks, PollOk(t) PROVE ViewTyped'
  BY <1>6 DEF PollOk, TypeInv, At, Coin, Goto, Mark, Save, Trouble, Announce, daemonVars, viewVars, historyVars, TasksTyped, CoinsTyped, ViewTyped
<1>7. ASSUME NEW t \in Tasks, PollError(t) PROVE ViewTyped'
  BY <1>7 DEF PollError, TypeInv, At, Coin, Goto, Mark, Save, Trouble, Announce, daemonVars, viewVars, historyVars, TasksTyped, CoinsTyped, ViewTyped
<1>8. ASSUME NEW t \in Tasks, PollAlready(t) PROVE ViewTyped'
  BY <1>8 DEF PollAlready, TypeInv, At, Coin, Goto, Mark, Save, Trouble, Announce, daemonVars, viewVars, historyVars, TasksTyped, CoinsTyped, ViewTyped
<1>9. ASSUME NEW t \in Tasks, PollLost(t) PROVE ViewTyped'
  BY <1>9 DEF PollLost, TypeInv, At, Coin, Goto, Mark, Save, Trouble, Announce, daemonVars, viewVars, historyVars, TasksTyped, CoinsTyped, ViewTyped
<1>10. ASSUME NEW t \in Tasks, Removed(t) PROVE ViewTyped'
  BY <1>10 DEF Removed, TypeInv, At, Coin, Goto, Mark, Save, Trouble, Announce, daemonVars, viewVars, historyVars, TasksTyped, CoinsTyped, ViewTyped
<1>11. ASSUME NEW t \in Tasks, Tail(t) PROVE ViewTyped'
  BY <1>11 DEF Tail, TypeInv, At, Coin, Goto, Mark, Save, Trouble, Announce, daemonVars, viewVars, historyVars, TasksTyped, CoinsTyped, ViewTyped
<1>12. ASSUME NEW t \in Tasks, Final(t) PROVE ViewTyped'
  BY <1>12 DEF Final, TypeInv, At, Coin, Goto, Mark, Save, Trouble, Announce, daemonVars, viewVars, historyVars, TasksTyped, CoinsTyped, ViewTyped
<1>13. ASSUME NEW t \in Tasks, DaemonEnds(t) PROVE ViewTyped'
  BY <1>13 DEF DaemonEnds, TypeInv, At, Coin, Goto, Mark, Save, Trouble, Announce, daemonVars, viewVars, historyVars, TasksTyped, CoinsTyped, ViewTyped
<1>14. ASSUME NEW t \in Tasks, NEW event \in {"activating", "scanning"}, PollProgress(t, event) PROVE ViewTyped'
  BY <1>14 DEF PollProgress, TypeInv, At, Coin, Goto, Mark, Save, Trouble, Announce, daemonVars, viewVars, historyVars, TasksTyped, CoinsTyped, ViewTyped
<1>15. ASSUME NEW t \in Tasks, NEW c \in Coins, Enable(t, c) PROVE ViewTyped'
  BY <1>15 DEF Enable, TypeInv, At, Coin, Goto, Mark, Save, Trouble, Announce, daemonVars, viewVars, historyVars, TasksTyped, CoinsTyped, ViewTyped
<1>16. ASSUME NEW c \in Coins, Disable(c) PROVE ViewTyped'
  BY <1>16 DEF Disable, TypeInv, At, Coin, Goto, Mark, Save, Trouble, Announce, daemonVars, viewVars, historyVars, TasksTyped, CoinsTyped, ViewTyped
<1>17. CASE DisableEnd
  BY <1>17 DEF DisableEnd, DaemonDisables, TypeInv, At, Coin, Goto, Mark, Save, Trouble, Announce, daemonVars, viewVars, historyVars, TasksTyped, CoinsTyped, ViewTyped
<1>18. CASE SaveEnabled
  BY <1>18 DEF SaveEnabled, TypeInv, At, Coin, Goto, Mark, Save, Trouble, Announce, daemonVars, viewVars, historyVars, TasksTyped, CoinsTyped, ViewTyped
<1>19. CASE InsertRows
  BY <1>19 DEF InsertRows, TypeInv, At, Coin, Goto, Mark, Save, Trouble, Announce, daemonVars, viewVars, historyVars, TasksTyped, CoinsTyped, ViewTyped
<1>20. CASE UNCHANGED vars
  BY <1>20 DEF vars, TypeInv, At, Coin, Goto, Mark, Save, Trouble, Announce, daemonVars, viewVars, historyVars, TasksTyped, CoinsTyped, ViewTyped
<1>21. QED
  BY <1>1, <1>2, <1>3, <1>4, <1>5, <1>6, <1>7, <1>8, <1>9, <1>10, <1>11, <1>12, <1>13, <1>14, <1>15, <1>16, <1>17, <1>18, <1>19, <1>20 DEF Next, ThreadStep, MainStep

(* A thread stops polling with a ready coin or with trouble.               *)
LEMMA StuckStep == TypeInv /\ StuckInv /\ [Next]_vars => StuckInv'
<1> SUFFICES ASSUME TypeInv /\ StuckInv, [Next]_vars PROVE StuckInv' OBVIOUS
<1> USE Records
<1>1. ASSUME NEW t \in Tasks, InitAnswered(t) PROVE StuckInv'
  <2>1. At(t, "sent") /\ Coin(t) \in Coins
    BY <1>1 DEF InitAnswered, TypeInv, TasksTyped, At, Coin
  <2>2. UNCHANGED <<enabled, active, status, announced, rows, rpc, overtaken, hidden, lost>>
    BY <1>1 DEF InitAnswered, viewVars
  <2>3. \/ /\ daemon[Coin(t)] = "off" /\ Goto(t, "poll") /\ UNCHANGED trouble
           /\ job' = [job EXCEPT ![t] = "runs"] /\ daemon' = [daemon EXCEPT ![Coin(t)] = "works"]
        \/ Goto(t, "already") /\ Trouble(Coin(t)) /\ UNCHANGED <<job, daemon>>
        \/ Goto(t, "failed") /\ Trouble(Coin(t)) /\ UNCHANGED <<job, daemon>>
    BY <1>1 DEF InitAnswered, daemonVars
  <2>4. CASE Goto(t, "poll") /\ UNCHANGED trouble /\ job' = [job EXCEPT ![t] = "runs"]
    BY <2>1, <2>2, <2>4 DEF Goto, At, Coin, TypeInv, TasksTyped, Threads, Pcs, StuckInv, Polled, Ready
  <2>5. ASSUME NEW pc \in {"already", "failed"}, Goto(t, pc), Trouble(Coin(t)), UNCHANGED <<job, daemon>>
        PROVE  StuckInv'
    BY <2>1, <2>2, <2>5 DEF Goto, Trouble, At, Coin, TypeInv, TasksTyped, Threads, Pcs, StuckInv, Polled, Ready
  <2>6. QED
    BY <2>3, <2>4, <2>5
<1>2. ASSUME NEW t \in Tasks, InitLost(t) PROVE StuckInv'
  BY <1>2 DEF InitLost, TypeInv, At, Coin, Goto, Mark, Save, Trouble, Announce, daemonVars, viewVars, historyVars, TasksTyped, CoinsTyped, ViewTyped, StuckInv, Polled, Ready
<1>3. ASSUME NEW t \in Tasks, AlreadyActivated(t) PROVE StuckInv'
  BY <1>3 DEF AlreadyActivated, TypeInv, At, Coin, Goto, Mark, Save, Trouble, Announce, daemonVars, viewVars, historyVars, TasksTyped, CoinsTyped, ViewTyped, StuckInv, Polled, Ready
<1>4. ASSUME NEW t \in Tasks, Store(t) PROVE StuckInv'
  BY <1>4 DEF Store, TypeInv, At, Coin, Goto, Mark, Save, Trouble, Announce, daemonVars, viewVars, historyVars, TasksTyped, CoinsTyped, ViewTyped, StuckInv, Polled, Ready
<1>5. ASSUME NEW t \in Tasks, TimedOut(t) PROVE StuckInv'
  BY <1>5 DEF TimedOut, TypeInv, At, Coin, Goto, Mark, Save, Trouble, Announce, daemonVars, viewVars, historyVars, TasksTyped, CoinsTyped, ViewTyped, StuckInv, Polled, Ready
<1>6. ASSUME NEW t \in Tasks, PollOk(t) PROVE StuckInv'
  BY <1>6 DEF PollOk, TypeInv, At, Coin, Goto, Mark, Save, Trouble, Announce, daemonVars, viewVars, historyVars, TasksTyped, CoinsTyped, ViewTyped, StuckInv, Polled, Ready
<1>7. ASSUME NEW t \in Tasks, PollError(t) PROVE StuckInv'
  BY <1>7 DEF PollError, TypeInv, At, Coin, Goto, Mark, Save, Trouble, Announce, daemonVars, viewVars, historyVars, TasksTyped, CoinsTyped, ViewTyped, StuckInv, Polled, Ready
<1>8. ASSUME NEW t \in Tasks, PollAlready(t) PROVE StuckInv'
  BY <1>8 DEF PollAlready, TypeInv, At, Coin, Goto, Mark, Save, Trouble, Announce, daemonVars, viewVars, historyVars, TasksTyped, CoinsTyped, ViewTyped, StuckInv, Polled, Ready
<1>9. ASSUME NEW t \in Tasks, PollLost(t) PROVE StuckInv'
  BY <1>9 DEF PollLost, TypeInv, At, Coin, Goto, Mark, Save, Trouble, Announce, daemonVars, viewVars, historyVars, TasksTyped, CoinsTyped, ViewTyped, StuckInv, Polled, Ready
<1>10. ASSUME NEW t \in Tasks, Removed(t) PROVE StuckInv'
  BY <1>10 DEF Removed, TypeInv, At, Coin, Goto, Mark, Save, Trouble, Announce, daemonVars, viewVars, historyVars, TasksTyped, CoinsTyped, ViewTyped, StuckInv, Polled, Ready
<1>11. ASSUME NEW t \in Tasks, Tail(t) PROVE StuckInv'
  BY <1>11 DEF Tail, TypeInv, At, Coin, Goto, Mark, Save, Trouble, Announce, daemonVars, viewVars, historyVars, TasksTyped, CoinsTyped, ViewTyped, StuckInv, Polled, Ready
<1>12. ASSUME NEW t \in Tasks, Final(t) PROVE StuckInv'
  BY <1>12 DEF Final, TypeInv, At, Coin, Goto, Mark, Save, Trouble, Announce, daemonVars, viewVars, historyVars, TasksTyped, CoinsTyped, ViewTyped, StuckInv, Polled, Ready
<1>13. ASSUME NEW t \in Tasks, DaemonEnds(t) PROVE StuckInv'
  BY <1>13 DEF DaemonEnds, TypeInv, At, Coin, Goto, Mark, Save, Trouble, Announce, daemonVars, viewVars, historyVars, TasksTyped, CoinsTyped, ViewTyped, StuckInv, Polled, Ready
<1>14. ASSUME NEW t \in Tasks, NEW event \in {"activating", "scanning"}, PollProgress(t, event) PROVE StuckInv'
  BY <1>14 DEF PollProgress, TypeInv, At, Coin, Goto, Mark, Save, Trouble, Announce, daemonVars, viewVars, historyVars, TasksTyped, CoinsTyped, ViewTyped, StuckInv, Polled, Ready
<1>15. ASSUME NEW t \in Tasks, NEW c \in Coins, Enable(t, c) PROVE StuckInv'
  BY <1>15 DEF Enable, TypeInv, At, Coin, Goto, Mark, Save, Trouble, Announce, daemonVars, viewVars, historyVars, TasksTyped, CoinsTyped, ViewTyped, StuckInv, Polled, Ready
<1>16. ASSUME NEW c \in Coins, Disable(c) PROVE StuckInv'
  BY <1>16 DEF Disable, TypeInv, At, Coin, Goto, Mark, Save, Trouble, Announce, daemonVars, viewVars, historyVars, TasksTyped, CoinsTyped, ViewTyped, StuckInv, Polled, Ready
<1>17. CASE DisableEnd
  BY <1>17 DEF DisableEnd, DaemonDisables, TypeInv, At, Coin, Goto, Mark, Save, Trouble, Announce, daemonVars, viewVars, historyVars, TasksTyped, CoinsTyped, ViewTyped, StuckInv, Polled, Ready
<1>18. CASE SaveEnabled
  BY <1>18 DEF SaveEnabled, TypeInv, At, Coin, Goto, Mark, Save, Trouble, Announce, daemonVars, viewVars, historyVars, TasksTyped, CoinsTyped, ViewTyped, StuckInv, Polled, Ready
<1>19. CASE InsertRows
  BY <1>19 DEF InsertRows, TypeInv, At, Coin, Goto, Mark, Save, Trouble, Announce, daemonVars, viewVars, historyVars, TasksTyped, CoinsTyped, ViewTyped, StuckInv, Polled, Ready
<1>20. CASE UNCHANGED vars
  BY <1>20 DEF vars, TypeInv, At, Coin, Goto, Mark, Save, Trouble, Announce, daemonVars, viewVars, historyVars, TasksTyped, CoinsTyped, ViewTyped, StuckInv, Polled, Ready
<1>21. QED
  BY <1>1, <1>2, <1>3, <1>4, <1>5, <1>6, <1>7, <1>8, <1>9, <1>10, <1>11, <1>12, <1>13, <1>14, <1>15, <1>16, <1>17, <1>18, <1>19, <1>20 DEF Next, ThreadStep, MainStep

(* Only a thread that was at work brings a disabled coin back.             *)
LEMMA OffStep == TypeInv /\ OffInv /\ [Next]_vars => OffInv'
<1> SUFFICES ASSUME TypeInv /\ OffInv, [Next]_vars PROVE OffInv' OBVIOUS
<1> USE Records
<1>1. ASSUME NEW t \in Tasks, InitAnswered(t) PROVE OffInv'
  <2>1. At(t, "sent") /\ Coin(t) \in Coins
    BY <1>1 DEF InitAnswered, TypeInv, TasksTyped, At, Coin
  <2>2. UNCHANGED <<enabled, active, status, announced, rows, rpc, overtaken, hidden, lost>>
    BY <1>1 DEF InitAnswered, viewVars
  <2>3. \/ /\ daemon[Coin(t)] = "off" /\ Goto(t, "poll") /\ UNCHANGED trouble
           /\ job' = [job EXCEPT ![t] = "runs"] /\ daemon' = [daemon EXCEPT ![Coin(t)] = "works"]
        \/ Goto(t, "already") /\ Trouble(Coin(t)) /\ UNCHANGED <<job, daemon>>
        \/ Goto(t, "failed") /\ Trouble(Coin(t)) /\ UNCHANGED <<job, daemon>>
    BY <1>1 DEF InitAnswered, daemonVars
  <2>4. CASE Goto(t, "poll") /\ UNCHANGED trouble /\ job' = [job EXCEPT ![t] = "runs"]
    BY <2>1, <2>2, <2>4 DEF Goto, At, Coin, TypeInv, TasksTyped, Threads, Pcs, OffInv
  <2>5. ASSUME NEW pc \in {"already", "failed"}, Goto(t, pc), Trouble(Coin(t)), UNCHANGED <<job, daemon>>
        PROVE  OffInv'
    BY <2>1, <2>2, <2>5 DEF Goto, Trouble, At, Coin, TypeInv, TasksTyped, Threads, Pcs, OffInv
  <2>6. QED
    BY <2>3, <2>4, <2>5
<1>2. ASSUME NEW t \in Tasks, InitLost(t) PROVE OffInv'
  BY <1>2 DEF InitLost, TypeInv, At, Coin, Goto, Mark, Save, Trouble, Announce, daemonVars, viewVars, historyVars, TasksTyped, CoinsTyped, ViewTyped, OffInv, Working, Live
<1>3. ASSUME NEW t \in Tasks, AlreadyActivated(t) PROVE OffInv'
  BY <1>3 DEF AlreadyActivated, TypeInv, At, Coin, Goto, Mark, Save, Trouble, Announce, daemonVars, viewVars, historyVars, TasksTyped, CoinsTyped, ViewTyped, OffInv, Working, Live
<1>4. ASSUME NEW t \in Tasks, Store(t) PROVE OffInv'
  BY <1>4 DEF Store, TypeInv, At, Coin, Goto, Mark, Save, Trouble, Announce, daemonVars, viewVars, historyVars, TasksTyped, CoinsTyped, ViewTyped, OffInv, Working, Live
<1>5. ASSUME NEW t \in Tasks, TimedOut(t) PROVE OffInv'
  BY <1>5 DEF TimedOut, TypeInv, At, Coin, Goto, Mark, Save, Trouble, Announce, daemonVars, viewVars, historyVars, TasksTyped, CoinsTyped, ViewTyped, OffInv, Working, Live
<1>6. ASSUME NEW t \in Tasks, PollOk(t) PROVE OffInv'
  BY <1>6 DEF PollOk, TypeInv, At, Coin, Goto, Mark, Save, Trouble, Announce, daemonVars, viewVars, historyVars, TasksTyped, CoinsTyped, ViewTyped, OffInv, Working, Live
<1>7. ASSUME NEW t \in Tasks, PollError(t) PROVE OffInv'
  BY <1>7 DEF PollError, TypeInv, At, Coin, Goto, Mark, Save, Trouble, Announce, daemonVars, viewVars, historyVars, TasksTyped, CoinsTyped, ViewTyped, OffInv, Working, Live
<1>8. ASSUME NEW t \in Tasks, PollAlready(t) PROVE OffInv'
  BY <1>8 DEF PollAlready, TypeInv, At, Coin, Goto, Mark, Save, Trouble, Announce, daemonVars, viewVars, historyVars, TasksTyped, CoinsTyped, ViewTyped, OffInv, Working, Live
<1>9. ASSUME NEW t \in Tasks, PollLost(t) PROVE OffInv'
  BY <1>9 DEF PollLost, TypeInv, At, Coin, Goto, Mark, Save, Trouble, Announce, daemonVars, viewVars, historyVars, TasksTyped, CoinsTyped, ViewTyped, OffInv, Working, Live
<1>10. ASSUME NEW t \in Tasks, Removed(t) PROVE OffInv'
  BY <1>10 DEF Removed, TypeInv, At, Coin, Goto, Mark, Save, Trouble, Announce, daemonVars, viewVars, historyVars, TasksTyped, CoinsTyped, ViewTyped, OffInv, Working, Live
<1>11. ASSUME NEW t \in Tasks, Tail(t) PROVE OffInv'
  BY <1>11 DEF Tail, TypeInv, At, Coin, Goto, Mark, Save, Trouble, Announce, daemonVars, viewVars, historyVars, TasksTyped, CoinsTyped, ViewTyped, OffInv, Working, Live
<1>12. ASSUME NEW t \in Tasks, Final(t) PROVE OffInv'
  BY <1>12 DEF Final, TypeInv, At, Coin, Goto, Mark, Save, Trouble, Announce, daemonVars, viewVars, historyVars, TasksTyped, CoinsTyped, ViewTyped, OffInv, Working, Live
<1>13. ASSUME NEW t \in Tasks, DaemonEnds(t) PROVE OffInv'
  BY <1>13 DEF DaemonEnds, TypeInv, At, Coin, Goto, Mark, Save, Trouble, Announce, daemonVars, viewVars, historyVars, TasksTyped, CoinsTyped, ViewTyped, OffInv, Working, Live
<1>14. ASSUME NEW t \in Tasks, NEW event \in {"activating", "scanning"}, PollProgress(t, event) PROVE OffInv'
  BY <1>14 DEF PollProgress, TypeInv, At, Coin, Goto, Mark, Save, Trouble, Announce, daemonVars, viewVars, historyVars, TasksTyped, CoinsTyped, ViewTyped, OffInv, Working, Live
<1>15. ASSUME NEW t \in Tasks, NEW c \in Coins, Enable(t, c) PROVE OffInv'
  BY <1>15 DEF Enable, TypeInv, At, Coin, Goto, Mark, Save, Trouble, Announce, daemonVars, viewVars, historyVars, TasksTyped, CoinsTyped, ViewTyped, OffInv, Working, Live
<1>16. ASSUME NEW c \in Coins, Disable(c) PROVE OffInv'
  BY <1>16 DEF Disable, TypeInv, At, Coin, Goto, Mark, Save, Trouble, Announce, daemonVars, viewVars, historyVars, TasksTyped, CoinsTyped, ViewTyped, OffInv, Working, Live
<1>17. CASE DisableEnd
  BY <1>17 DEF DisableEnd, DaemonDisables, TypeInv, At, Coin, Goto, Mark, Save, Trouble, Announce, daemonVars, viewVars, historyVars, TasksTyped, CoinsTyped, ViewTyped, OffInv, Working, Live
<1>18. CASE SaveEnabled
  BY <1>18 DEF SaveEnabled, TypeInv, At, Coin, Goto, Mark, Save, Trouble, Announce, daemonVars, viewVars, historyVars, TasksTyped, CoinsTyped, ViewTyped, OffInv, Working, Live
<1>19. CASE InsertRows
  BY <1>19 DEF InsertRows, TypeInv, At, Coin, Goto, Mark, Save, Trouble, Announce, daemonVars, viewVars, historyVars, TasksTyped, CoinsTyped, ViewTyped, OffInv, Working, Live
<1>20. CASE UNCHANGED vars
  BY <1>20 DEF vars, TypeInv, At, Coin, Goto, Mark, Save, Trouble, Announce, daemonVars, viewVars, historyVars, TasksTyped, CoinsTyped, ViewTyped, OffInv, Working, Live
<1>21. QED
  BY <1>1, <1>2, <1>3, <1>4, <1>5, <1>6, <1>7, <1>8, <1>9, <1>10, <1>11, <1>12, <1>13, <1>14, <1>15, <1>16, <1>17, <1>18, <1>19, <1>20 DEF Next, ThreadStep, MainStep

-----------------------------------------------------------------------------
(* The invariants hold in every reachable state.                           *)
LEMMA TypeInvCorrect == Spec => []TypeInv
<1>1. TypeInv /\ [Next]_vars => TypeInv'
  BY TasksStep, CoinsStep, ViewStep DEF TypeInv
<1>2. QED
  BY <1>1, TypeInit, PTL DEF Spec

(* Types hold for any number of coins, activations and tries; a thread     *)
(* that polls has a task.                                                  *)
THEOREM TypeCorrect == Spec => []TypeOK
<1>1. TypeInv => TypeOK
  BY DEF TypeInv, TasksTyped, CoinsTyped, ViewTyped, TypeOK
<1>2. QED
  BY <1>1, TypeInvCorrect, PTL

(* An enabled coin nobody works on is ready, or one of its activations had *)
(* trouble.                                                                *)
THEOREM StuckHasCauseCorrect == Spec => []StuckHasCause
<1>1. Init => StuckInv
  <2> SUFFICES ASSUME Init PROVE StuckInv OBVIOUS
  <2>1. \A t \in Tasks : task[t].pc \in {"free", "sent"}
    BY Records DEF Init
  <2>2. QED
    BY <2>1 DEF Init, StuckInv, At
<1>2. StuckInv => StuckHasCause
  BY DEF StuckInv, StuckHasCause, Polled, Working, Live
<1>3. QED
  BY <1>1, <1>2, StuckStep, TypeInvCorrect, PTL DEF Spec

(* A disabled coin stays out of the portfolio, unless one of its threads   *)
(* was at work when it was disabled.                                       *)
THEOREM DisabledStaysOffCorrect == Spec => []DisabledStaysOff
<1>1. Init => OffInv
  <2> SUFFICES ASSUME Init PROVE OffInv OBVIOUS
  <2>1. \A t \in Tasks : task[t].pc \in {"free", "sent"}
    BY Records DEF Init
  <2>2. QED
    BY <2>1 DEF Init, OffInv, At
<1>2. OffInv => DisabledStaysOff
  BY DEF OffInv, DisabledStaysOff
<1>3. QED
  BY <1>1, <1>2, OffStep, TypeInvCorrect, PTL DEF Spec

-----------------------------------------------------------------------------
(* A coin that was activated once: its status is Ok only once its thread   *)
(* is through with polling and the daemon has the coin, so a disable finds *)
(* it ready, and is refused for a swap or not at all.                      *)
Alone(c) == \A t, u \in Tasks : Coin(t) = c /\ Coin(u) = c => t = u
Ended(t) == job[t] = "ok" /\ task[t].pc \in {"tail", "final", "done"}
SeenOnce(c) ==
  /\ enabled[c] => c \in rows \cup announced \cup hidden \cup {rpc}
  /\ rpc = c => Ready(c)
  /\ Ready(c) => \E t \in Tasks : Coin(t) = c /\ Ended(t)
  /\ Ready(c) /\ enabled[c] => daemon[c] = "ready"
  /\ \A t \in Tasks : Coin(t) = c /\ task[t].pc \in {"poll", "sleep"} /\ job[t] = "ok" => daemon[c] = "ready"
RowInv == \A c \in Coins : Alone(c) => SeenOnce(c)

(* The coins of the threads stay, but for that of a fresh one.             *)
LEMMA StillAlone ==
  ASSUME NEW c \in Coins, Alone(c)',
         \A t \in Tasks : task[t].coin = c => task'[t].coin = c
  PROVE  Alone(c)
  BY DEF Alone, Coin

LEMMA RowStep == TypeInv /\ RowInv /\ [Next]_vars => RowInv'
<1> SUFFICES ASSUME TypeInv, RowInv, [Next]_vars, NEW c \in Coins, Alone(c)'
             PROVE  SeenOnce(c)'
  BY DEF RowInv
<1> USE Records
<1>1. ASSUME NEW t \in Tasks, InitAnswered(t) PROVE SeenOnce(c)'
  <2>1. Alone(c)
    BY <1>1, StillAlone DEF InitAnswered, TypeInv, At, Coin, Goto, TasksTyped, Threads, daemonVars, viewVars, historyVars
  <2>2. SeenOnce(c)
    BY <2>1 DEF RowInv
  <2>3. QED
    BY <1>1, <2>1, <2>2 DEF Alone, InitAnswered, TypeInv, At, Coin, Goto, Mark, Save, Trouble, Announce, daemonVars, viewVars, historyVars, TasksTyped, CoinsTyped, ViewTyped, Threads, Pcs, SeenOnce, Ended, Ready
<1>2. ASSUME NEW t \in Tasks, InitLost(t) PROVE SeenOnce(c)'
  <2>1. Alone(c)
    BY <1>2, StillAlone DEF InitLost, TypeInv, At, Coin, Goto, TasksTyped, Threads, daemonVars, viewVars, historyVars
  <2>2. SeenOnce(c)
    BY <2>1 DEF RowInv
  <2>3. QED
    BY <1>2, <2>1, <2>2 DEF Alone, InitLost, TypeInv, At, Coin, Goto, Mark, Save, Trouble, Announce, daemonVars, viewVars, historyVars, TasksTyped, CoinsTyped, ViewTyped, Threads, Pcs, SeenOnce, Ended, Ready
<1>3. ASSUME NEW t \in Tasks, AlreadyActivated(t) PROVE SeenOnce(c)'
  <2>1. Alone(c)
    BY <1>3, StillAlone DEF AlreadyActivated, TypeInv, At, Coin, Goto, TasksTyped, Threads, daemonVars, viewVars, historyVars
  <2>2. SeenOnce(c)
    BY <2>1 DEF RowInv
  <2>3. QED
    BY <1>3, <2>1, <2>2 DEF Alone, AlreadyActivated, TypeInv, At, Coin, Goto, Mark, Save, Trouble, Announce, daemonVars, viewVars, historyVars, TasksTyped, CoinsTyped, ViewTyped, Threads, Pcs, SeenOnce, Ended, Ready
<1>4. ASSUME NEW t \in Tasks, Store(t) PROVE SeenOnce(c)'
  <2>1. Alone(c)
    BY <1>4, StillAlone DEF Store, TypeInv, At, Coin, Goto, TasksTyped, Threads, daemonVars, viewVars, historyVars
  <2>2. SeenOnce(c)
    BY <2>1 DEF RowInv
  <2>3. QED
    BY <1>4, <2>1, <2>2 DEF Alone, Store, TypeInv, At, Coin, Goto, Mark, Save, Trouble, Announce, daemonVars, viewVars, historyVars, TasksTyped, CoinsTyped, ViewTyped, Threads, Pcs, SeenOnce, Ended, Ready
<1>5. ASSUME NEW t \in Tasks, TimedOut(t) PROVE SeenOnce(c)'
  <2>1. Alone(c)
    BY <1>5, StillAlone DEF TimedOut, TypeInv, At, Coin, Goto, TasksTyped, Threads, daemonVars, viewVars, historyVars
  <2>2. SeenOnce(c)
    BY <2>1 DEF RowInv
  <2>3. QED
    BY <1>5, <2>1, <2>2 DEF Alone, TimedOut, TypeInv, At, Coin, Goto, Mark, Save, Trouble, Announce, daemonVars, viewVars, historyVars, TasksTyped, CoinsTyped, ViewTyped, Threads, Pcs, SeenOnce, Ended, Ready
<1>6. ASSUME NEW t \in Tasks, PollOk(t) PROVE SeenOnce(c)'
  <2>1. Alone(c)
    BY <1>6, StillAlone DEF PollOk, TypeInv, At, Coin, Goto, TasksTyped, Threads, daemonVars, viewVars, historyVars
  <2>2. SeenOnce(c)
    BY <2>1 DEF RowInv
  <2>3. QED
    BY <1>6, <2>1, <2>2 DEF Alone, PollOk, TypeInv, At, Coin, Goto, Mark, Save, Trouble, Announce, daemonVars, viewVars, historyVars, TasksTyped, CoinsTyped, ViewTyped, Threads, Pcs, SeenOnce, Ended, Ready
<1>7. ASSUME NEW t \in Tasks, PollError(t) PROVE SeenOnce(c)'
  <2>1. Alone(c)
    BY <1>7, StillAlone DEF PollError, TypeInv, At, Coin, Goto, TasksTyped, Threads, daemonVars, viewVars, historyVars
  <2>2. SeenOnce(c)
    BY <2>1 DEF RowInv
  <2>3. QED
    BY <1>7, <2>1, <2>2 DEF Alone, PollError, TypeInv, At, Coin, Goto, Mark, Save, Trouble, Announce, daemonVars, viewVars, historyVars, TasksTyped, CoinsTyped, ViewTyped, Threads, Pcs, SeenOnce, Ended, Ready
<1>8. ASSUME NEW t \in Tasks, PollAlready(t) PROVE SeenOnce(c)'
  <2>1. Alone(c)
    BY <1>8, StillAlone DEF PollAlready, TypeInv, At, Coin, Goto, TasksTyped, Threads, daemonVars, viewVars, historyVars
  <2>2. SeenOnce(c)
    BY <2>1 DEF RowInv
  <2>3. QED
    BY <1>8, <2>1, <2>2 DEF Alone, PollAlready, TypeInv, At, Coin, Goto, Mark, Save, Trouble, Announce, daemonVars, viewVars, historyVars, TasksTyped, CoinsTyped, ViewTyped, Threads, Pcs, SeenOnce, Ended, Ready
<1>9. ASSUME NEW t \in Tasks, PollLost(t) PROVE SeenOnce(c)'
  <2>1. Alone(c)
    BY <1>9, StillAlone DEF PollLost, TypeInv, At, Coin, Goto, TasksTyped, Threads, daemonVars, viewVars, historyVars
  <2>2. SeenOnce(c)
    BY <2>1 DEF RowInv
  <2>3. QED
    BY <1>9, <2>1, <2>2 DEF Alone, PollLost, TypeInv, At, Coin, Goto, Mark, Save, Trouble, Announce, daemonVars, viewVars, historyVars, TasksTyped, CoinsTyped, ViewTyped, Threads, Pcs, SeenOnce, Ended, Ready
<1>10. ASSUME NEW t \in Tasks, Removed(t) PROVE SeenOnce(c)'
  <2>1. Alone(c)
    BY <1>10, StillAlone DEF Removed, TypeInv, At, Coin, Goto, TasksTyped, Threads, daemonVars, viewVars, historyVars
  <2>2. SeenOnce(c)
    BY <2>1 DEF RowInv
  <2>3. QED
    BY <1>10, <2>1, <2>2 DEF Alone, Removed, TypeInv, At, Coin, Goto, Mark, Save, Trouble, Announce, daemonVars, viewVars, historyVars, TasksTyped, CoinsTyped, ViewTyped, Threads, Pcs, SeenOnce, Ended, Ready
<1>11. ASSUME NEW t \in Tasks, Tail(t) PROVE SeenOnce(c)'
  <2>1. Alone(c)
    BY <1>11, StillAlone DEF Tail, TypeInv, At, Coin, Goto, TasksTyped, Threads, daemonVars, viewVars, historyVars
  <2>2. SeenOnce(c)
    BY <2>1 DEF RowInv
  <2>3. QED
    BY <1>11, <2>1, <2>2 DEF Alone, Tail, TypeInv, At, Coin, Goto, Mark, Save, Trouble, Announce, daemonVars, viewVars, historyVars, TasksTyped, CoinsTyped, ViewTyped, Threads, Pcs, SeenOnce, Ended, Ready
<1>12. ASSUME NEW t \in Tasks, Final(t) PROVE SeenOnce(c)'
  <2>1. Alone(c)
    BY <1>12, StillAlone DEF Final, TypeInv, At, Coin, Goto, TasksTyped, Threads, daemonVars, viewVars, historyVars
  <2>2. SeenOnce(c)
    BY <2>1 DEF RowInv
  <2>3. QED
    BY <1>12, <2>1, <2>2 DEF Alone, Final, TypeInv, At, Coin, Goto, Mark, Save, Trouble, Announce, daemonVars, viewVars, historyVars, TasksTyped, CoinsTyped, ViewTyped, Threads, Pcs, SeenOnce, Ended, Ready
<1>13. ASSUME NEW t \in Tasks, DaemonEnds(t) PROVE SeenOnce(c)'
  <2>1. Alone(c)
    BY <1>13, StillAlone DEF DaemonEnds, TypeInv, At, Coin, Goto, TasksTyped, Threads, daemonVars, viewVars, historyVars
  <2>2. SeenOnce(c)
    BY <2>1 DEF RowInv
  <2>3. QED
    BY <1>13, <2>1, <2>2 DEF Alone, DaemonEnds, TypeInv, At, Coin, Goto, Mark, Save, Trouble, Announce, daemonVars, viewVars, historyVars, TasksTyped, CoinsTyped, ViewTyped, Threads, Pcs, SeenOnce, Ended, Ready
<1>14. ASSUME NEW t \in Tasks, NEW event \in {"activating", "scanning"}, PollProgress(t, event) PROVE SeenOnce(c)'
  <2>1. Alone(c)
    BY <1>14, StillAlone DEF PollProgress, TypeInv, At, Coin, Goto, TasksTyped, Threads, daemonVars, viewVars, historyVars
  <2>2. SeenOnce(c)
    BY <2>1 DEF RowInv
  <2> DEFINE new == [task[t] EXCEPT !.pc = "sleep", !.last = event]
  <2>3. /\ task' = [task EXCEPT ![t] = new] /\ At(t, "poll") /\ job[t] = "runs" /\ Coin(t) \in Coins
        /\ UNCHANGED <<status, job, daemon, rows, rpc, hidden>>
    BY <1>14 DEF PollProgress, daemonVars, historyVars, At, Coin, TypeInv, TasksTyped
  <2>4. task[t] \in Threads
    BY DEF TypeInv, TasksTyped
  <2>5. new \in Threads /\ new.pc = "sleep" /\ new.coin = task[t].coin
    BY <2>4 DEF Threads, Pcs
  <2>6. \/ enabled' = [enabled EXCEPT ![Coin(t)] = TRUE] /\ announced' = announced \cup {Coin(t)}
        \/ UNCHANGED <<enabled, announced>>
    BY <1>14 DEF PollProgress, Mark, Announce
  <2> HIDE DEF new
  <2>7. QED
    BY <2>1, <2>2, <2>3, <2>5, <2>6 DEF Alone, SeenOnce, Ended, Ready, At, Coin, TypeInv, TasksTyped, CoinsTyped
<1>15. ASSUME NEW t \in Tasks, NEW d \in Coins, Enable(t, d) PROVE SeenOnce(c)'
  <2>1. Alone(c)
    BY <1>15, StillAlone DEF Enable, TypeInv, At, Coin, Goto, TasksTyped, Threads, daemonVars, viewVars, historyVars
  <2>2. SeenOnce(c)
    BY <2>1 DEF RowInv
  <2>3. QED
    BY <1>15, <2>1, <2>2 DEF Alone, Enable, TypeInv, At, Coin, Goto, Mark, Save, Trouble, Announce, daemonVars, viewVars, historyVars, TasksTyped, CoinsTyped, ViewTyped, Threads, Pcs, SeenOnce, Ended, Ready
<1>16. ASSUME NEW d \in Coins, Disable(d) PROVE SeenOnce(c)'
  <2>1. Alone(c)
    BY <1>16, StillAlone DEF Disable, TypeInv, At, Coin, Goto, TasksTyped, Threads, daemonVars, viewVars, historyVars
  <2>2. SeenOnce(c)
    BY <2>1 DEF RowInv
  <2>3. QED
    BY <1>16, <2>1, <2>2 DEF Alone, Disable, TypeInv, At, Coin, Goto, Mark, Save, Trouble, Announce, daemonVars, viewVars, historyVars, TasksTyped, CoinsTyped, ViewTyped, Threads, Pcs, SeenOnce, Ended, Ready
<1>17. CASE DisableEnd
  <2>1. Alone(c)
    BY <1>17, StillAlone DEF DisableEnd, DaemonDisables, TypeInv, At, Coin, Goto, TasksTyped, Threads, daemonVars, viewVars, historyVars
  <2>2. SeenOnce(c)
    BY <2>1 DEF RowInv
  <2>3. QED
    BY <1>17, <2>1, <2>2 DEF Alone, DisableEnd, DaemonDisables, TypeInv, At, Coin, Goto, Mark, Save, Trouble, Announce, daemonVars, viewVars, historyVars, TasksTyped, CoinsTyped, ViewTyped, Threads, Pcs, SeenOnce, Ended, Ready
<1>18. CASE SaveEnabled
  <2>1. Alone(c)
    BY <1>18, StillAlone DEF SaveEnabled, TypeInv, At, Coin, Goto, TasksTyped, Threads, daemonVars, viewVars, historyVars
  <2>2. SeenOnce(c)
    BY <2>1 DEF RowInv
  <2>3. QED
    BY <1>18, <2>1, <2>2 DEF Alone, SaveEnabled, TypeInv, At, Coin, Goto, Mark, Save, Trouble, Announce, daemonVars, viewVars, historyVars, TasksTyped, CoinsTyped, ViewTyped, Threads, Pcs, SeenOnce, Ended, Ready
<1>19. CASE InsertRows
  <2>1. Alone(c)
    BY <1>19, StillAlone DEF InsertRows, TypeInv, At, Coin, Goto, TasksTyped, Threads, daemonVars, viewVars, historyVars
  <2>2. SeenOnce(c)
    BY <2>1 DEF RowInv
  <2>3. QED
    BY <1>19, <2>1, <2>2 DEF Alone, InsertRows, TypeInv, At, Coin, Goto, Mark, Save, Trouble, Announce, daemonVars, viewVars, historyVars, TasksTyped, CoinsTyped, ViewTyped, Threads, Pcs, SeenOnce, Ended, Ready
<1>20. CASE UNCHANGED vars
  <2>1. Alone(c)
    BY <1>20, StillAlone DEF vars, TypeInv, At, Coin, Goto, TasksTyped, Threads, daemonVars, viewVars, historyVars
  <2>2. SeenOnce(c)
    BY <2>1 DEF RowInv
  <2>3. QED
    BY <1>20, <2>1, <2>2 DEF Alone, vars, TypeInv, At, Coin, Goto, Mark, Save, Trouble, Announce, daemonVars, viewVars, historyVars, TasksTyped, CoinsTyped, ViewTyped, Threads, Pcs, SeenOnce, Ended, Ready
<1>21. QED
  BY <1>1, <1>2, <1>3, <1>4, <1>5, <1>6, <1>7, <1>8, <1>9, <1>10, <1>11, <1>12, <1>13, <1>14, <1>15, <1>16, <1>17, <1>18, <1>19, <1>20 DEF Next, ThreadStep, MainStep

(* A row of an enabled coin is missing only when the daemon refused to     *)
(* disable the coin, or it was activated more than once.                   *)
THEOREM RowMissingHasCauseCorrect == Spec => []RowMissingHasCause
<1>1. Init => RowInv
  <2> SUFFICES ASSUME Init, NEW c \in Coins PROVE SeenOnce(c)
    BY DEF RowInv
  <2>1. rpc # c /\ ~enabled[c] /\ ~Ready(c) /\ \A t \in Tasks : job[t] = "none"
    BY Records DEF Init, Ready
  <2>2. QED
    BY <2>1 DEF SeenOnce
<1>2. RowInv => RowMissingHasCause
  BY DEF RowInv, Alone, SeenOnce, RowMissingHasCause
<1>3. QED
  BY <1>1, <1>2, RowStep, TypeInvCorrect, PTL DEF Spec
=============================================================================
