-------------------------- MODULE BestOrdersProofs --------------------------
(***************************************************************************)
(* Proofs about BestOrders for every set of coins, any number of threads   *)
(* and every bound: the types, and that the busy indicator always has a    *)
(* cause although threads set and clear it without a lock.                 *)
(***************************************************************************)
EXTENDS BestOrders, TLAPS

(* A thread sent on to a further step stays a thread.                      *)
LEMMA GoType ==
  ASSUME TypeOK, NEW i \in Slots, NEW reset \in BOOLEAN,
         NEW stage \in {"free", "sent", "store", "release", "push", "flag", "cap", "scan"},
         Go(i, stage, reset)
  PROVE  threads' \in [Slots -> Threads]
BY DEF Go, TypeOK, Threads

(* The idle thread and the idle scan are values of their types.            *)
LEMMA FreeTypes == Free \in Threads /\ Idle \in Scans
BY DEF Free, Threads, Idle, Scans

(* Entering process_best_orders leaves every scan within its type.         *)
LEMMA EnterType ==
  ASSUME TypeOK, NEW t \in Callers, Enter(t)
  PROVE  scan' \in [Callers -> Scans]
BY DEF Enter, TypeOK, Scans

(* The main thread and the pool slots are the callers.                     *)
LEMMA CallersFacts == Main \in Callers /\ Slots \subseteq Callers
BY DEF Callers

(* What the steps outside process_best_orders do to it: a thread enters or *)
(* not.                                                                    *)
LEMMA MainSteps ==
  ASSUME TypeOK,
         Scan \/ Timeout \/ SetVolume \/ SelectLeft \/ OpenOrClose \/ ProcessAction \/ Expire
  PROVE  TypeOK'
<1> USE CallersFacts
<1>1. scan' \in [Callers -> Scans]
  BY EnterType DEF Scan, Timeout, SetVolume, SelectLeft, OpenOrClose, ProcessAction, Expire, TypeOK
<1>2. UNCHANGED <<threads, data, lost>>
  BY DEF Scan, Timeout, SetVolume, SelectLeft, OpenOrClose, ProcessAction, Expire
<1>3. actions' \in 0 .. MaxActions
  BY BoundsAssumption
  DEF Scan, Timeout, SetVolume, SelectLeft, OpenOrClose, ProcessAction, Expire, TypeOK, pageVars
<1>4. left' \in Coins /\ rows' \in Coins \cup {NoCoin}
  BY DEF Scan, Timeout, SetVolume, SelectLeft, OpenOrClose, ProcessAction, Expire, TypeOK, pageVars
<1>5. /\ busy' \in BOOLEAN /\ timedOut' \in BOOLEAN /\ expired' \in BOOLEAN
      /\ gaveUp' \in BOOLEAN /\ active' \in BOOLEAN /\ needReset' \in BOOLEAN
  BY DEF Scan, Timeout, SetVolume, SelectLeft, OpenOrClose, ProcessAction, Expire, TypeOK,
    pageVars, flagVars
<1> QED
  BY <1>1, <1>2, <1>3, <1>4, <1>5 DEF TypeOK

(* The claim of the scanner and the sending of its request keep the types. *)
LEMMA CallerSteps ==
  ASSUME TypeOK, NEW t \in Callers, Claim(t) \/ Issue(t)
  PROVE  TypeOK'
<1>1. scan[t].coin \in Coins \cup {NoCoin}
  BY DEF TypeOK, Scans
<1>2. CASE Claim(t)
  <2>1. scan' \in [Callers -> Scans]
    BY <1>1, <1>2 DEF Claim, TypeOK, Scans
  <2> QED
    BY <1>2, <2>1 DEF Claim, TypeOK, pageVars
<1>3. CASE Issue(t)
  <2>1. scan' \in [Callers -> Scans]
    BY <1>3, FreeTypes DEF Issue, TypeOK
  <2>2. threads' \in [Slots -> Threads]
    BY <1>1, <1>3 DEF Issue, TypeOK, Threads
  <2> QED
    BY <1>3, <2>1, <2>2 DEF Issue, TypeOK, pageVars
<1> QED
  BY <1>2, <1>3

(* The answers and the callbacks on the pool threads keep the types.       *)
LEMMA ThreadSteps ==
  ASSUME TypeOK, NEW i \in Slots,
         AnswerOk(i) \/ AnswerError(i) \/ AnswerLost(i) \/ OrderbookFinished(i) \/ Step(i)
  PROVE  TypeOK'
<1> USE CallersFacts
<1>0. threads[i] \in Threads
  BY DEF TypeOK
<1>a. threads[i].coin \in Coins \cup {NoCoin} /\ threads[i].reset \in BOOLEAN
  BY <1>0 DEF Threads
<1>1. CASE AnswerOk(i) \/ AnswerError(i) \/ OrderbookFinished(i)
  <2>1. threads' \in [Slots -> Threads]
    BY <1>1, GoType DEF AnswerOk, AnswerError, OrderbookFinished
  <2> QED
    BY <1>1, <2>1 DEF AnswerOk, AnswerError, OrderbookFinished, TypeOK, flagVars, pageVars
<1>2. CASE AnswerLost(i)
  <2>1. threads' \in [Slots -> Threads] /\ lost' \in 0 .. MaxLost
    BY <1>2, FreeTypes, BoundsAssumption DEF AnswerLost, TypeOK
  <2> QED
    BY <1>2, <2>1 DEF AnswerLost, TypeOK, pageVars
<1>3. CASE Store(i)
  <2>1. threads' \in [Slots -> Threads] /\ data' \in Coins \cup {NoCoin}
    BY <1>3, <1>a, GoType DEF Store
  <2> QED
    BY <1>3, <2>1 DEF Store, TypeOK, flagVars, pageVars
<1>4. CASE Release(i)
  <2>1. threads' \in [Slots -> Threads]
    BY <1>4, <1>a, GoType DEF Release
  <2> QED
    BY <1>4, <2>1 DEF Release, TypeOK, pageVars
<1>5. CASE PushAction(i)
  <2>1. threads' \in [Slots -> Threads] /\ actions' \in 0 .. MaxActions
    BY <1>5, <1>a, GoType, BoundsAssumption DEF PushAction, TypeOK
  <2> QED
    BY <1>5, <2>1 DEF PushAction, TypeOK, flagVars
<1>6. CASE SetFlag(i)
  <2>1. threads' \in [Slots -> Threads]
    BY <1>6, GoType DEF SetFlag
  <2> QED
    BY <1>6, <1>a, <2>1 DEF SetFlag, TypeOK, flagVars
<1>7. CASE CapVolume(i)
  <2>1. threads' \in [Slots -> Threads]
    BY <1>7, GoType, FreeTypes DEF CapVolume, TypeOK
  <2>2. scan' \in [Callers -> Scans]
    BY <1>7, EnterType DEF CapVolume, TypeOK
  <2> QED
    BY <1>7, <2>1, <2>2 DEF CapVolume, TypeOK, flagVars, pageVars
<1> QED
  BY <1>1, <1>2, <1>3, <1>4, <1>5, <1>6, <1>7 DEF Step

(* The initial states have their types.                                    *)
LEMMA TypeInit == Init => TypeOK
<1> SUFFICES ASSUME Init PROVE TypeOK
  OBVIOUS
<1>1. threads \in [Slots -> Threads] /\ scan \in [Callers -> Scans]
  BY FreeTypes DEF Init
<1>2. 0 \in 0 .. MaxActions /\ 0 \in 0 .. MaxLost
  BY BoundsAssumption
<1> QED
  BY <1>1, <1>2 DEF Init, TypeOK

(* Every step keeps the types.                                             *)
LEMMA TypeStep ==
  ASSUME TypeOK, [Next]_vars
  PROVE  TypeOK'
<1>1. CASE UNCHANGED vars
  BY <1>1 DEF vars, TypeOK
<1> QED
  BY <1>1, MainSteps, CallerSteps, ThreadSteps DEF Next

(* Every variable keeps its type, the queue within its bound.              *)
THEOREM TypeCorrect == Spec => []TypeOK
BY TypeInit, TypeStep, PTL DEF Spec

-----------------------------------------------------------------------------
(* The cause of busy.  A thread that claims the scanner is a cause itself; *)
(* its cause moves from the claim to the request, to its answer, and ends  *)
(* in the step that clears busy, or in gaveUp.  A callback that enters     *)
(* process_best_orders must not stand in it already.                       *)
ScanningThreads ==
  \A i \in Slots : threads[i].stage # "scan" => scan[i].pc = "idle"

CauseInv == TypeOK /\ BusyHasCause /\ ScanningThreads

(* No pool thread stands in process_best_orders before its last stage.     *)
LEMMA ScanningStep ==
  ASSUME TypeOK, ScanningThreads, [Next]_vars
  PROVE  ScanningThreads'
<1> USE CallersFacts
<1>m. \A i \in Slots : i # Main
  BY DEF Slots, Main
<1>a. ASSUME UNCHANGED threads, \A i \in Slots : scan'[i] = scan[i]
      PROVE  ScanningThreads'
  BY <1>a DEF ScanningThreads
<1>1. CASE Scan \/ Timeout \/ SetVolume \/ SelectLeft \/ OpenOrClose \/ ProcessAction \/ Expire
  <2>1. UNCHANGED scan \/ Enter(Main)
    BY <1>1 DEF Scan, Timeout, SetVolume, SelectLeft, OpenOrClose, ProcessAction, Expire
  <2>2. \A i \in Slots : scan'[i] = scan[i]
    BY <1>m, <2>1 DEF Enter, TypeOK
  <2> QED
    BY <1>1, <1>a, <2>2
    DEF Scan, Timeout, SetVolume, SelectLeft, OpenOrClose, ProcessAction, Expire
<1>2. ASSUME NEW t \in Callers, Claim(t) PROVE ScanningThreads'
  <2>1. \A u \in Callers : scan'[u].pc = "idle" <=> scan[u].pc = "idle"
    BY <1>2 DEF Claim, TypeOK
  <2> QED
    BY <1>2, <2>1 DEF Claim, ScanningThreads
<1>3. ASSUME NEW t \in Callers, Issue(t) PROVE ScanningThreads'
  <2>1. scan'[t].pc = "idle" /\ \A u \in Callers \ {t} : scan'[u] = scan[u]
    BY <1>3 DEF Issue, TypeOK, Idle
  <2>2. PICK i \in Slots : /\ IF t = Main THEN threads[i] = Free ELSE i = t
                           /\ \A j \in Slots \ {i} : threads'[j] = threads[j]
    BY <1>3 DEF Issue, TypeOK
  <2>3. CASE t = Main
    <3>1. threads[i].stage # "scan"
      BY <2>2, <2>3 DEF Free
    <3> QED
      BY <1>m, <2>1, <2>2, <2>3, <3>1 DEF ScanningThreads
  <2>4. CASE t # Main
    BY <2>1, <2>2, <2>4 DEF ScanningThreads
  <2> QED
    BY <2>3, <2>4
<1>4. ASSUME NEW i \in Slots,
             AnswerOk(i) \/ AnswerError(i) \/ AnswerLost(i) \/ OrderbookFinished(i) \/ Step(i)
      PROVE  ScanningThreads'
  <2>1. PICK r : threads' = [threads EXCEPT ![i] = r]
    BY <1>4 DEF AnswerOk, AnswerError, AnswerLost, OrderbookFinished, Step, Store, Release,
      PushAction, SetFlag, CapVolume, Go
  <2>a. OrderbookFinished(i) => threads[i].stage = "free"
    BY DEF OrderbookFinished, Free
  <2>2. threads[i].stage # "scan"
    BY <1>4, <2>a DEF AnswerOk, AnswerError, AnswerLost, Step, Store, Release, PushAction,
      SetFlag, CapVolume
  <2>3. CASE UNCHANGED scan
    BY <2>1, <2>2, <2>3 DEF ScanningThreads, TypeOK
  <2>4. CASE CapVolume(i) /\ Enter(i) /\ Go(i, "scan", FALSE)
    <3>1. threads'[i].stage = "scan"
      BY <2>4 DEF Go, TypeOK
    <3>2. \A u \in Callers \ {i} : scan'[u] = scan[u]
      BY <2>4 DEF Enter, TypeOK
    <3> QED
      BY <2>1, <3>1, <3>2 DEF ScanningThreads, TypeOK
  <2> QED
    BY <1>4, <2>3, <2>4 DEF AnswerOk, AnswerError, AnswerLost, OrderbookFinished, Step, Store,
      Release, PushAction, SetFlag, CapVolume
<1>5. CASE UNCHANGED vars
  BY <1>5, <1>a DEF vars
<1> QED
  BY <1>1, <1>2, <1>3, <1>4, <1>5 DEF Next

(* Every step keeps the strengthened invariant of the busy flag.           *)
LEMMA CauseStep ==
  ASSUME CauseInv, [Next]_vars
  PROVE  CauseInv'
<1> USE CallersFacts
<1>0. TypeOK /\ BusyHasCause /\ ScanningThreads
  BY DEF CauseInv
<1> SUFFICES BusyHasCause'
  BY <1>0, TypeStep, ScanningStep DEF CauseInv
<1>a. ASSUME \A t \in Callers : scan[t].pc = "claimed" => scan'[t].pc = "claimed",
             UNCHANGED <<busy, threads, gaveUp>>
      PROVE  BusyHasCause'
  BY <1>0, <1>a DEF BusyHasCause
<1>b. ASSUME NEW t \in Callers, Enter(t), scan[t].pc # "claimed"
      PROVE  \A u \in Callers : scan[u].pc = "claimed" => scan'[u].pc = "claimed"
  BY <1>0, <1>b DEF Enter, TypeOK
<1>1. CASE Scan \/ SetVolume \/ SelectLeft \/ OpenOrClose \/ ProcessAction \/ Expire
  <2>1. UNCHANGED scan \/ (MainFree /\ Enter(Main))
    BY <1>1 DEF Scan, SetVolume, SelectLeft, OpenOrClose, ProcessAction, Expire
  <2>2. \A t \in Callers : scan[t].pc = "claimed" => scan'[t].pc = "claimed"
    BY <2>1, <1>b DEF MainFree
  <2> QED
    BY <1>1, <1>a, <2>2
    DEF Scan, SetVolume, SelectLeft, OpenOrClose, ProcessAction, Expire, flagVars
<1>2. CASE Timeout
  BY <1>2 DEF Timeout, BusyHasCause
<1>3. ASSUME NEW t \in Callers, Claim(t) PROVE BusyHasCause'
  <2>1. scan'[t].pc = "claimed"
    BY <1>0, <1>3 DEF Claim, TypeOK
  <2> QED
    BY <2>1 DEF BusyHasCause
<1>4. ASSUME NEW t \in Callers, Issue(t) PROVE BusyHasCause'
  <2>1. PICK i \in Slots : threads'[i].stage = "sent"
    BY <1>0, <1>4 DEF Issue, TypeOK
  <2> QED
    BY <2>1 DEF BusyHasCause
<1>5. ASSUME NEW i \in Slots,
             AnswerOk(i) \/ AnswerError(i) \/ AnswerLost(i) \/ OrderbookFinished(i) \/ Step(i)
      PROVE  BusyHasCause'
  <2>1. CASE AnswerOk(i) \/ AnswerError(i) \/ Store(i)
    <3>1. threads'[i].stage \in {"store", "release"}
      BY <1>0, <2>1 DEF AnswerOk, AnswerError, Store, Go, TypeOK
    <3> QED
      BY <3>1 DEF BusyHasCause
  <2>2. CASE AnswerLost(i)
    BY <2>2 DEF AnswerLost, BusyHasCause
  <2>3. CASE Release(i)
    BY <2>3 DEF Release, BusyHasCause
  <2>4. CASE OrderbookFinished(i) \/ PushAction(i) \/ SetFlag(i) \/ CapVolume(i)
    <3>a. OrderbookFinished(i) => threads[i].stage = "free"
      BY DEF OrderbookFinished, Free
    <3>1. threads[i].stage \in {"free", "push", "flag", "cap"}
      BY <2>4, <3>a DEF PushAction, SetFlag, CapVolume
    <3>2. PICK r : threads' = [threads EXCEPT ![i] = r]
      BY <2>4 DEF OrderbookFinished, PushAction, SetFlag, CapVolume, Go
    <3>3. \A t \in Callers : scan[t].pc = "claimed" => scan'[t].pc = "claimed"
      <4>1. CASE UNCHANGED scan
        BY <4>1
      <4>2. CASE CapVolume(i) /\ Enter(i)
        BY <1>0, <1>b, <4>2 DEF CapVolume, ScanningThreads
      <4> QED
        BY <2>4, <4>1, <4>2 DEF OrderbookFinished, PushAction, SetFlag, CapVolume
    <3>4. UNCHANGED <<busy, gaveUp>>
      BY <2>4 DEF OrderbookFinished, PushAction, SetFlag, CapVolume, flagVars
    <3> QED
      BY <1>0, <3>1, <3>2, <3>3, <3>4 DEF BusyHasCause, TypeOK
  <2> QED
    BY <1>5, <2>1, <2>2, <2>3, <2>4 DEF Step
<1>6. CASE UNCHANGED vars
  BY <1>6, <1>a DEF vars
<1> QED
  BY <1>1, <1>2, <1>3, <1>4, <1>5, <1>6 DEF Next

(* Nothing is busy initially, so the strengthened invariant holds.         *)
LEMMA CauseInit == Init => CauseInv
BY TypeInit DEF Init, CauseInv, BusyHasCause, ScanningThreads, Callers, Idle

(* The busy indicator never stands for nothing, whatever the interleaving  *)
(* of main and pool threads in process_best_orders and its callbacks.      *)
THEOREM BusyHasCauseCorrect == Spec => []BusyHasCause
<1>1. CauseInv => BusyHasCause
  BY DEF CauseInv
<1> QED
  BY <1>1, CauseInit, CauseStep, PTL DEF Spec
=============================================================================
