--------------------------- MODULE CoinsFileProofs ---------------------------
(***************************************************************************)
(* Proofs about CoinsFile, for every set of coins, every list of versions  *)
(* and every set of pool threads.                                          *)
(***************************************************************************)
EXTENDS CoinsFile, TLAPS

(* Who may be where: saves need a session, and two of them, or one during  *)
(* a reset, are an overlap; a file that is open for writing is empty.      *)
LoadedRuns == loaded => phase \in {"run"} \cup Resetting
LoneSave ==
  \/ "overlap" \in mishaps
  \/ /\ \A t, u \in Threads : Saving(t) /\ Saving(u) => t = u
     /\ \A t \in Threads : Saving(t) => phase = "run"
OpenIsEmpty ==
  \/ "overlap" \in mishaps
  \/ \A t \in Threads : save[t].pc = "open" => files[version].st = "torn"
RestoreReads ==
  phase = "restore" => mishaps \cap {"crash", "overlap"} # {} \/ files[version].st = "valid"
NoLaterFile == \A v \in Versions : v > version => files[v] = Absent
Alone == LoadedRuns /\ LoneSave /\ OpenIsEmpty /\ RestoreReads /\ NoLaterFile

(* The registry, the file and the copy of the one thread that saves.       *)
KeptIsActive == loaded /\ ~Changing => kept = active
FileKept == File = Valid(File.on) /\ kept = File.on \cup (Protected \cap kept)
CopyAgrees ==
  loaded /\ phase = "run" /\ "overlap" \notin mishaps =>
    /\ ~Opened => FileKept
    /\ \A t \in Threads :
         /\ save[t].pc = "read" => save[t].copy = File.on
         /\ save[t].pc \in {"set", "open"} => active = save[t].copy \cup (Protected \cap active)
Agreement == KeptIsActive /\ CopyAgrees

(* Without a mishap at most one older file exists, and the coins that were *)
(* active are in the file the next login takes them from.                  *)
OneOlder == \A v, w \in Older : v = w
OlderThere ==
  /\ phase \in {"flush", "remove"} => Older # {}
  /\ phase \in {"finish", "retrieve", "run"} \cup Resetting => Older = {}
FileThere == phase \in {"migrate", "retrieve"} => File.st = "valid"
SessionLoaded == phase \in {"run"} \cup Resetting => loaded
Recorded == IF Older # {} THEN files[Precedent].on \cup Protected ELSE File.on \cup Protected
NothingLost ==
  /\ phase \in {"closed", "copy", "migrate", "retrieve"} => kept \subseteq Recorded
  /\ phase = "copy" /\ Older = {} => kept \subseteq Protected
  /\ phase \in {"flush", "remove", "finish"} =>
       kept \cap Known[version] \subseteq pending \cup Protected
  /\ phase \in Resetting => kept \subseteq pending \cup Protected
Clean ==
  mishaps = {} => OneOlder /\ OlderThere /\ FileThere /\ SessionLoaded /\ NothingLost

FilesTyped ==
  /\ files \in [Versions -> Files]
  /\ \A v \in Versions : files[v].on \subseteq (IF files[v].st = "valid" THEN Known[v] ELSE {})
SavesTyped ==
  /\ save \in [Threads -> Saves]
  /\ \A t \in Threads : save[t].copy \subseteq Known[version] /\ save[t].coins \subseteq Known[version]
  /\ phase \in {"closed"} \cup Login => \A t \in Threads : save[t] = NoSave
MainTyped ==
  /\ version \in Versions
  /\ phase \in Phases /\ pending \subseteq Known[version]
  /\ phase \in {"closed", "copy", "migrate"} => pending = {}
  /\ loaded \in BOOLEAN /\ active \subseteq Coins /\ kept \subseteq Coins
  /\ mishaps \subseteq Mishaps
  /\ used \in [saves : Nat, crashes : Nat]
TypeInv == FilesTyped /\ SavesTyped /\ MainTyped
AloneInv == TypeInv /\ TornHasCause /\ Alone
AgreeInv == AloneInv /\ Agreement
FileInv == AgreeInv /\ Clean

-----------------------------------------------------------------------------
(* The records files and saves are made of.                                *)
LEMMA Values ==
  /\ NoSave \in Saves /\ NoSave.pc = "idle" /\ NoSave.copy = {} /\ NoSave.coins = {}
  /\ Absent \in Files /\ Absent.st = "absent" /\ Absent.on = {}
  /\ Torn \in Files /\ Torn.st = "torn" /\ Torn.on = {}
  /\ \A S \in SUBSET Coins :
       Valid(S) \in Files /\ Valid(S).st = "valid" /\ Valid(S).on = S
  /\ \A s \in Saves : s.pc \in {"idle", "read", "set", "open"} /\ s.copy \subseteq Coins
                      /\ s.coins \subseteq Coins
  /\ \A f \in Files : f.on \subseteq Coins
BY DEF NoSave, Saves, Absent, Torn, Valid, Files

(* Each version lists coins.                                               *)
LEMMA Listed == \A v \in Versions : Known[v] \subseteq Coins
BY FileAssumption DEF Versions

(* The first state has the types.                                          *)
LEMMA TypeInit == Init => TypeInv
<1> SUFFICES ASSUME Init PROVE TypeInv OBVIOUS
<1>1. version \in Versions BY FileAssumption DEF Init, Versions
<1> USE Values
<1>2. FilesTyped BY DEF Init, FilesTyped
<1>3. SavesTyped BY DEF Init, SavesTyped
<1>4. MainTyped BY <1>1, FileAssumption DEF Init, MainTyped, Phases
<1>5. QED BY <1>2, <1>3, <1>4 DEF TypeInv

(* Writing the coins file with coins of the version keeps the files' type. *)
LEMMA PutTyped ==
  ASSUME FilesTyped, version \in Versions, UNCHANGED version,
         NEW f \in Files, f.on \subseteq (IF f.st = "valid" THEN Known[version] ELSE {}), Put(f)
  PROVE  FilesTyped'
<1>1. files' \in [Versions -> Files] BY DEF FilesTyped, Put
<1>2. \A v \in Versions : files'[v] = IF v = version THEN f ELSE files[v]
  BY DEF FilesTyped, Put
<1>3. QED BY <1>1, <1>2 DEF FilesTyped

(* A step writes a file with coins its version lists.                      *)
LEMMA FilesStep == TypeInv /\ [Next]_vars => FilesTyped'
<1> SUFFICES ASSUME TypeInv, [Next]_vars PROVE FilesTyped' OBVIOUS
<1> USE Values
<1>a. FilesTyped /\ version \in Versions BY DEF TypeInv, MainTyped
<1>b. ASSUME UNCHANGED <<version, files>> PROVE FilesTyped'
  BY <1>a, <1>b DEF FilesTyped
<1>c. ASSUME UNCHANGED version, Put(Torn) \/ Put(Absent) PROVE FilesTyped'
  BY <1>a, <1>c, PutTyped
<1>d. ASSUME UNCHANGED version, NEW S \in SUBSET Known[version], Put(Valid(S)) PROVE FilesTyped'
  <2>1. S \in SUBSET Coins BY <1>a, Listed
  <2>2. QED BY <1>a, <1>d, <2>1, PutTyped
<1>e. pending \subseteq Known[version] BY DEF TypeInv, MainTyped
<1>1. CASE LoginCheck
  BY <1>1, <1>b, <1>c DEF LoginCheck
<1>2. CASE CopyBundled
  BY <1>2, <1>d DEF CopyBundled
<1>3. CASE WrongPassword
  BY <1>3, <1>b DEF WrongPassword, fileVars
<1>4. CASE MigrateOpen
  BY <1>4, <1>b, <1>c DEF MigrateOpen, fileVars
<1>5. CASE MigrateWrite
  BY <1>5, <1>b, <1>d, <1>e DEF MigrateWrite
<1>6. CASE MigrateRemove
  <2>1. (files' = files \/ files' = [files EXCEPT ![Precedent] = Absent]) /\ UNCHANGED version
    BY <1>6 DEF MigrateRemove
  <2>2. \A v \in Versions : files'[v] = files[v] \/ files'[v] = Absent
    BY <2>1 DEF TypeInv, FilesTyped
  <2>3. files' \in [Versions -> Files]
    BY <2>1, <2>2 DEF TypeInv, FilesTyped
  <2>4. QED
    BY <2>1, <2>2, <2>3 DEF TypeInv, FilesTyped
<1>7. CASE MigrateClose
  BY <1>7, <1>d, <1>e DEF MigrateClose
<1>8. CASE Retrieve
  BY <1>8, <1>b DEF Retrieve, fileVars
<1>9. CASE ResetRead
  BY <1>9, <1>b, <1>c DEF ResetRead
<1>10. CASE ResetEnsure
  BY <1>10, <1>c DEF ResetEnsure
<1>11. CASE ResetCopy
  BY <1>11, <1>d DEF ResetCopy
<1>12. CASE ResetOpen
  BY <1>12, <1>b, <1>c DEF ResetOpen
<1>13. CASE ResetClose
  BY <1>13, <1>d, <1>e DEF ResetClose
<1>14. CASE Quit
  BY <1>14, <1>b DEF Quit
<1>15. CASE Upgrade
  BY <1>15 DEF Upgrade, fileVars, TypeInv, FilesTyped
<1>16. CASE Crash
  BY <1>16, <1>b DEF Crash
<1>17. ASSUME NEW t \in Threads, NEW S \in SUBSET Known[version], NEW status \in BOOLEAN, SaveRead(t, S, status)
      PROVE  FilesTyped'
  BY <1>17, <1>b DEF SaveRead
<1>18a. ASSUME NEW t \in Threads, SaveSet(t) PROVE FilesTyped'
  BY <1>18a, <1>b DEF SaveSet, fileVars
<1>18. ASSUME NEW t \in Threads, SaveOpen(t) PROVE FilesTyped'
  BY <1>18, <1>c DEF SaveOpen
<1>19. ASSUME NEW t \in Threads, SaveClose(t) PROVE FilesTyped'
  <2>1. save[t].copy \in SUBSET Known[version] BY DEF TypeInv, SavesTyped
  <2>2. UNCHANGED version /\ (Put(Torn) \/ Put(Valid(save[t].copy)))
    BY <1>19 DEF SaveClose
  <2>3. QED BY <2>1, <2>2, <1>c, <1>d
<1>20. CASE UNCHANGED vars
  BY <1>20, <1>b DEF vars
<1>21. QED
  BY <1>1, <1>2, <1>3, <1>4, <1>5, <1>6, <1>7, <1>8, <1>9, <1>10, <1>11, <1>12, <1>13, <1>14, <1>15, <1>16, <1>17, <1>18a, <1>18, <1>19, <1>20 DEF Next

(* A step keeps the copies within the coins of the version.                *)
LEMMA SavesStep == TypeInv /\ [Next]_vars => SavesTyped'
<1> SUFFICES ASSUME TypeInv, [Next]_vars PROVE SavesTyped' OBVIOUS
<1> USE FileAssumption, Values
<1>1. CASE LoginCheck
  BY <1>1 DEF LoginCheck, File, Put, Stopped, FilesTyped, SavesTyped, MainTyped, TypeInv, fileVars, registryVars, historyVars, Saving, Login, Saves
<1>2. CASE CopyBundled
  BY <1>2 DEF CopyBundled, File, Put, Stopped, FilesTyped, SavesTyped, MainTyped, TypeInv, fileVars, registryVars, historyVars, Saving, Login, Saves
<1>3. CASE WrongPassword
  BY <1>3 DEF WrongPassword, File, Put, Stopped, FilesTyped, SavesTyped, MainTyped, TypeInv, fileVars, registryVars, historyVars, Saving, Login, Saves
<1>4. CASE MigrateOpen
  BY <1>4 DEF MigrateOpen, File, Put, Stopped, FilesTyped, SavesTyped, MainTyped, TypeInv, fileVars, registryVars, historyVars, Saving, Login, Saves
<1>5. CASE MigrateWrite
  BY <1>5 DEF MigrateWrite, File, Put, Stopped, FilesTyped, SavesTyped, MainTyped, TypeInv, fileVars, registryVars, historyVars, Saving, Login, Saves
<1>6. CASE MigrateRemove
  BY <1>6 DEF MigrateRemove, File, Put, Stopped, FilesTyped, SavesTyped, MainTyped, TypeInv, fileVars, registryVars, historyVars, Saving, Login, Saves
<1>7. CASE MigrateClose
  BY <1>7 DEF MigrateClose, File, Put, Stopped, FilesTyped, SavesTyped, MainTyped, TypeInv, fileVars, registryVars, historyVars, Saving, Login, Saves
<1>8. CASE Retrieve
  BY <1>8 DEF Retrieve, File, Put, Stopped, FilesTyped, SavesTyped, MainTyped, TypeInv, fileVars, registryVars, historyVars, Saving, Login, Saves
<1>9. CASE ResetRead
  BY <1>9 DEF ResetRead, File, Put, Stopped, FilesTyped, SavesTyped, MainTyped, TypeInv, fileVars, registryVars, historyVars, Saving, Login, Saves
<1>10. CASE ResetEnsure
  BY <1>10 DEF ResetEnsure, File, Put, Stopped, FilesTyped, SavesTyped, MainTyped, TypeInv, fileVars, registryVars, historyVars, Saving, Login, Saves
<1>11. CASE ResetCopy
  BY <1>11 DEF ResetCopy, File, Put, Stopped, FilesTyped, SavesTyped, MainTyped, TypeInv, fileVars, registryVars, historyVars, Saving, Login, Saves
<1>12. CASE ResetOpen
  BY <1>12 DEF ResetOpen, File, Put, Stopped, FilesTyped, SavesTyped, MainTyped, TypeInv, fileVars, registryVars, historyVars, Saving, Login, Saves
<1>13. CASE ResetClose
  BY <1>13 DEF ResetClose, File, Put, Stopped, FilesTyped, SavesTyped, MainTyped, TypeInv, fileVars, registryVars, historyVars, Saving, Login, Saves
<1>14. CASE Quit
  BY <1>14 DEF Quit, File, Put, Stopped, FilesTyped, SavesTyped, MainTyped, TypeInv, fileVars, registryVars, historyVars, Saving, Login, Saves
<1>15. CASE Upgrade
  BY <1>15 DEF Upgrade, File, Put, Stopped, FilesTyped, SavesTyped, MainTyped, TypeInv, fileVars, registryVars, historyVars, Saving, Login, Saves
<1>16. CASE Crash
  BY <1>16 DEF Crash, File, Put, Stopped, FilesTyped, SavesTyped, MainTyped, TypeInv, fileVars, registryVars, historyVars, Saving, Login, Saves
<1>17. ASSUME NEW t \in Threads, NEW S \in SUBSET Known[version], NEW status \in BOOLEAN, SaveRead(t, S, status)
      PROVE  SavesTyped'
  <2>1. CASE File.st = "valid"
    <3> DEFINE new == [pc |-> "read", copy |-> File.on, coins |-> S, status |-> status]
    <3>1. save' = [save EXCEPT ![t] = new] /\ UNCHANGED <<version, phase>>
      BY <1>17, <2>1 DEF SaveRead
    <3>2. new \in Saves /\ new.copy \subseteq Known[version] /\ new.coins \subseteq Known[version]
      BY <2>1, Listed DEF TypeInv, FilesTyped, MainTyped, File, Saves
    <3>3. phase \notin {"closed"} \cup Login
      BY <1>17 DEF SaveRead, Login, Resetting
    <3>4. QED
      BY <3>1, <3>2, <3>3 DEF TypeInv, SavesTyped
  <2>2. CASE File.st # "valid"
    <3>1. UNCHANGED version
      BY <1>17 DEF SaveRead
    <3>2. CASE Stopped
      BY <3>1, <3>2 DEF Stopped, SavesTyped
    <3>3. CASE UNCHANGED <<save, phase>>
      BY <3>1, <3>3 DEF TypeInv, SavesTyped
    <3>4. QED
      BY <1>17, <2>2, <3>2, <3>3 DEF SaveRead
  <2>3. QED
    BY <2>1, <2>2
<1>18. ASSUME NEW t \in Threads, SaveSet(t) \/ SaveOpen(t) PROVE SavesTyped'
  <2> DEFINE copy == IF SaveSet(t) THEN Switch(save[t].copy, t) ELSE save[t].copy
             new == [save[t] EXCEPT !.pc = IF SaveSet(t) THEN "set" ELSE "open", !.copy = copy]
  <2>1. save[t] \in Saves BY DEF TypeInv, SavesTyped
  <2>2. save' = [save EXCEPT ![t] = new] /\ UNCHANGED <<version, phase>>
    <3>1. CASE SaveSet(t)
      BY <3>1 DEF SaveSet
    <3>2. CASE ~SaveSet(t)
      <4>1. new = [save[t] EXCEPT !.pc = "open"]
        BY <2>1, <3>2 DEF Saves
      <4>2. QED
        BY <1>18, <3>2, <4>1 DEF SaveOpen
    <3>3. QED
      BY <3>1, <3>2
  <2>3. Switch(save[t].copy, t) \subseteq Known[version]
    BY DEF Switch, TypeInv, SavesTyped
  <2>4. new \in Saves /\ new.copy \subseteq Known[version] /\ new.coins \subseteq Known[version]
    BY <2>1, <2>3, Listed DEF Saves, TypeInv, SavesTyped, MainTyped
  <2>5. phase \notin {"closed"} \cup Login
    BY <1>18 DEF SaveSet, SaveOpen, TypeInv, SavesTyped
  <2>6. QED
    BY <2>2, <2>4, <2>5 DEF TypeInv, SavesTyped
<1>19. ASSUME NEW t \in Threads, SaveClose(t) PROVE SavesTyped'
  BY <1>19 DEF SaveClose, File, Put, Stopped, FilesTyped, SavesTyped, MainTyped, TypeInv, fileVars, registryVars, historyVars, Saving, Login, Saves
<1>20. CASE UNCHANGED vars
  BY <1>20 DEF vars, File, Put, Stopped, FilesTyped, SavesTyped, MainTyped, TypeInv, fileVars, registryVars, historyVars, Saving, Login, Saves
<1>21. QED
  BY <1>1, <1>2, <1>3, <1>4, <1>5, <1>6, <1>7, <1>8, <1>9, <1>10, <1>11, <1>12, <1>13, <1>14, <1>15, <1>16, <1>17, <1>18, <1>19, <1>20 DEF Next

(* A step keeps the other variables within their types.                    *)
LEMMA MainStep == TypeInv /\ [Next]_vars => MainTyped'
<1> SUFFICES ASSUME TypeInv, [Next]_vars PROVE MainTyped' OBVIOUS
<1> USE FileAssumption, Values
<1>1. CASE LoginCheck
  BY <1>1 DEF LoginCheck, File, Put, Stopped, FilesTyped, SavesTyped, MainTyped, TypeInv, fileVars, registryVars, historyVars, Also, Mishaps, Phases, Login, Resetting, Versions
<1>2. CASE CopyBundled
  BY <1>2 DEF CopyBundled, File, Put, Stopped, FilesTyped, SavesTyped, MainTyped, TypeInv, fileVars, registryVars, historyVars, Also, Mishaps, Phases, Login, Resetting, Versions
<1>3. CASE WrongPassword
  BY <1>3 DEF WrongPassword, File, Put, Stopped, FilesTyped, SavesTyped, MainTyped, TypeInv, fileVars, registryVars, historyVars, Also, Mishaps, Phases, Login, Resetting, Versions
<1>4. CASE MigrateOpen
  BY <1>4 DEF MigrateOpen, Migrated, File, Put, Stopped, FilesTyped, SavesTyped, MainTyped, TypeInv, fileVars, registryVars, historyVars, Also, Mishaps, Phases, Login, Resetting, Versions
<1>5. CASE MigrateWrite
  BY <1>5 DEF MigrateWrite, File, Put, Stopped, FilesTyped, SavesTyped, MainTyped, TypeInv, fileVars, registryVars, historyVars, Also, Mishaps, Phases, Login, Resetting, Versions
<1>6. CASE MigrateRemove
  BY <1>6 DEF MigrateRemove, File, Put, Stopped, FilesTyped, SavesTyped, MainTyped, TypeInv, fileVars, registryVars, historyVars, Also, Mishaps, Phases, Login, Resetting, Versions
<1>7. CASE MigrateClose
  BY <1>7 DEF MigrateClose, File, Put, Stopped, FilesTyped, SavesTyped, MainTyped, TypeInv, fileVars, registryVars, historyVars, Also, Mishaps, Phases, Login, Resetting, Versions
<1>8. CASE Retrieve
  BY <1>8 DEF Retrieve, File, Put, Stopped, FilesTyped, SavesTyped, MainTyped, TypeInv, fileVars, registryVars, historyVars, Also, Mishaps, Phases, Login, Resetting, Versions
<1>9. CASE ResetRead
  <2>1. mishaps' \subseteq Mishaps
    BY <1>9 DEF ResetRead, Also, Mishaps, TypeInv, MainTyped
  <2>2. UNCHANGED <<version, kept, used>> /\ phase' \in {"closed", "ensure"} /\ pending' \subseteq Known[version]
          /\ (phase' = "closed" => pending' = {})
    BY <1>9, Listed DEF ResetRead, Stopped, File, TypeInv, MainTyped, FilesTyped
  <2>3. loaded' \in BOOLEAN /\ active' \subseteq Coins
    BY <1>9 DEF ResetRead, Stopped, TypeInv, MainTyped
  <2>4. QED
    BY <2>1, <2>2, <2>3 DEF TypeInv, MainTyped, Phases, Resetting
<1>10. CASE ResetEnsure
  BY <1>10 DEF ResetEnsure, File, Put, Stopped, FilesTyped, SavesTyped, MainTyped, TypeInv, fileVars, registryVars, historyVars, Also, Mishaps, Phases, Login, Resetting, Versions
<1>11. CASE ResetCopy
  BY <1>11 DEF ResetCopy, File, Put, Stopped, FilesTyped, SavesTyped, MainTyped, TypeInv, fileVars, registryVars, historyVars, Also, Mishaps, Phases, Login, Resetting, Versions
<1>12. CASE ResetOpen
  <2>1. mishaps' \subseteq Mishaps
    BY <1>12 DEF ResetOpen, historyVars, Mishaps, TypeInv, MainTyped
  <2>2. UNCHANGED <<version, kept, used>> /\ phase' \in {"closed", "rewrite"} /\ pending' \subseteq Known[version]
          /\ (phase' = "closed" => pending' = {})
    BY <1>12, Listed DEF ResetOpen, Stopped, File, historyVars, TypeInv, MainTyped, FilesTyped
  <2>3. loaded' \in BOOLEAN /\ active' \subseteq Coins
    BY <1>12 DEF ResetOpen, Stopped, TypeInv, MainTyped
  <2>4. QED
    BY <2>1, <2>2, <2>3 DEF TypeInv, MainTyped, Phases, Resetting
<1>13. CASE ResetClose
  BY <1>13 DEF ResetClose, File, Put, Stopped, FilesTyped, SavesTyped, MainTyped, TypeInv, fileVars, registryVars, historyVars, Also, Mishaps, Phases, Login, Resetting, Versions
<1>14. CASE Quit
  BY <1>14 DEF Quit, File, Put, Stopped, FilesTyped, SavesTyped, MainTyped, TypeInv, fileVars, registryVars, historyVars, Also, Mishaps, Phases, Login, Resetting, Versions
<1>15. CASE Upgrade
  BY <1>15 DEF Upgrade, File, Put, Stopped, FilesTyped, SavesTyped, MainTyped, TypeInv, fileVars, registryVars, historyVars, Also, Mishaps, Phases, Login, Resetting, Versions
<1>16. CASE Crash
  <2>1. mishaps' \subseteq Mishaps
    BY <1>16 DEF Crash, Also, Mishaps, TypeInv, MainTyped
  <2>2. used' \in [saves : Nat, crashes : Nat]
    BY <1>16 DEF Crash, TypeInv, MainTyped
  <2>3. QED
    BY <1>16, <2>1, <2>2 DEF Crash, Stopped, TypeInv, MainTyped, Phases
<1>17. ASSUME NEW t \in Threads, NEW S \in SUBSET Known[version], NEW status \in BOOLEAN, SaveRead(t, S, status)
      PROVE  MainTyped'
  <2>1. mishaps' \subseteq Mishaps
    BY <1>17 DEF SaveRead, Also, Mishaps, TypeInv, MainTyped
  <2>2. used' \in [saves : Nat, crashes : Nat]
    BY <1>17 DEF SaveRead, TypeInv, MainTyped
  <2>3. Stopped \/ UNCHANGED <<phase, pending, loaded, active>>
    BY <1>17 DEF SaveRead
  <2>4. UNCHANGED <<version, kept>>
    BY <1>17 DEF SaveRead
  <2>5. QED
    BY <2>1, <2>2, <2>3, <2>4 DEF Stopped, TypeInv, MainTyped, Phases
<1>18a. ASSUME NEW t \in Threads, SaveSet(t) PROVE MainTyped'
  BY <1>18a DEF SaveSet, Switch, Switch, File, Put, Stopped, FilesTyped, SavesTyped, MainTyped, TypeInv, fileVars, registryVars, historyVars, Also, Mishaps, Phases, Login, Resetting, Versions
<1>18. ASSUME NEW t \in Threads, SaveOpen(t) PROVE MainTyped'
  BY <1>18 DEF SaveOpen, Switch, File, Put, Stopped, FilesTyped, SavesTyped, MainTyped, TypeInv, fileVars, registryVars, historyVars, Also, Mishaps, Phases, Login, Resetting, Versions
<1>19. ASSUME NEW t \in Threads, SaveClose(t) PROVE MainTyped'
  BY <1>19 DEF SaveClose, File, Put, Stopped, FilesTyped, SavesTyped, MainTyped, TypeInv, fileVars, registryVars, historyVars, Also, Mishaps, Phases, Login, Resetting, Versions
<1>20. CASE UNCHANGED vars
  BY <1>20 DEF vars, File, Put, Stopped, FilesTyped, SavesTyped, MainTyped, TypeInv, fileVars, registryVars, historyVars, Also, Mishaps, Phases, Login, Resetting, Versions
<1>21. QED
  BY <1>1, <1>2, <1>3, <1>4, <1>5, <1>6, <1>7, <1>8, <1>9, <1>10, <1>11, <1>12, <1>13, <1>14, <1>15, <1>16, <1>17, <1>18a, <1>18, <1>19, <1>20 DEF Next

(* Every step keeps the types and the coins of each version apart.         *)
LEMMA TypeStep == TypeInv /\ [Next]_vars => TypeInv'
BY FilesStep, SavesStep, MainStep DEF TypeInv

(* The parts give the type invariant of the specification.                 *)
LEMMA TypeParts == TypeInv => TypeOK
BY Listed DEF TypeInv, TypeOK, FilesTyped, SavesTyped, MainTyped

-----------------------------------------------------------------------------
(* The registry is filled in a session only.                               *)
LEMMA LoadedStep == AloneInv /\ [Next]_vars => LoadedRuns'
<1> SUFFICES ASSUME AloneInv, [Next]_vars PROVE LoadedRuns' OBVIOUS
<1>1. CASE LoginCheck
  BY <1>1 DEF LoginCheck, Stopped, Also, TypeInv, AloneInv, Alone, fileVars, registryVars, historyVars, LoadedRuns, Resetting
<1>2. CASE CopyBundled
  BY <1>2 DEF CopyBundled, Stopped, Also, TypeInv, AloneInv, Alone, fileVars, registryVars, historyVars, LoadedRuns, Resetting
<1>3. CASE WrongPassword
  BY <1>3 DEF WrongPassword, Stopped, Also, TypeInv, AloneInv, Alone, fileVars, registryVars, historyVars, LoadedRuns, Resetting
<1>4. CASE MigrateOpen
  BY <1>4 DEF MigrateOpen, Stopped, Also, TypeInv, AloneInv, Alone, fileVars, registryVars, historyVars, LoadedRuns, Resetting
<1>5. CASE MigrateWrite
  BY <1>5 DEF MigrateWrite, Stopped, Also, TypeInv, AloneInv, Alone, fileVars, registryVars, historyVars, LoadedRuns, Resetting
<1>6. CASE MigrateRemove
  BY <1>6 DEF MigrateRemove, Stopped, Also, TypeInv, AloneInv, Alone, fileVars, registryVars, historyVars, LoadedRuns, Resetting
<1>7. CASE MigrateClose
  BY <1>7 DEF MigrateClose, Stopped, Also, TypeInv, AloneInv, Alone, fileVars, registryVars, historyVars, LoadedRuns, Resetting
<1>8. CASE Retrieve
  BY <1>8 DEF Retrieve, Stopped, Also, TypeInv, AloneInv, Alone, fileVars, registryVars, historyVars, LoadedRuns, Resetting
<1>9. CASE ResetRead
  BY <1>9 DEF ResetRead, Stopped, Also, TypeInv, AloneInv, Alone, fileVars, registryVars, historyVars, LoadedRuns, Resetting
<1>10. CASE ResetEnsure
  BY <1>10 DEF ResetEnsure, Stopped, Also, TypeInv, AloneInv, Alone, fileVars, registryVars, historyVars, LoadedRuns, Resetting
<1>11. CASE ResetCopy
  BY <1>11 DEF ResetCopy, Stopped, Also, TypeInv, AloneInv, Alone, fileVars, registryVars, historyVars, LoadedRuns, Resetting
<1>12. CASE ResetOpen
  BY <1>12 DEF ResetOpen, Stopped, Also, TypeInv, AloneInv, Alone, fileVars, registryVars, historyVars, LoadedRuns, Resetting
<1>13. CASE ResetClose
  BY <1>13 DEF ResetClose, Stopped, Also, TypeInv, AloneInv, Alone, fileVars, registryVars, historyVars, LoadedRuns, Resetting
<1>14. CASE Quit
  BY <1>14 DEF Quit, Stopped, Also, TypeInv, AloneInv, Alone, fileVars, registryVars, historyVars, LoadedRuns, Resetting
<1>15. CASE Upgrade
  BY <1>15 DEF Upgrade, Stopped, Also, TypeInv, AloneInv, Alone, fileVars, registryVars, historyVars, LoadedRuns, Resetting
<1>16. CASE Crash
  BY <1>16 DEF Crash, Stopped, Also, TypeInv, AloneInv, Alone, fileVars, registryVars, historyVars, LoadedRuns, Resetting
<1>17. ASSUME NEW t \in Threads, NEW S \in SUBSET Known[version], NEW status \in BOOLEAN, SaveRead(t, S, status)
      PROVE  LoadedRuns'
  BY <1>17 DEF SaveRead, Stopped, Also, TypeInv, AloneInv, Alone, fileVars, registryVars, historyVars, LoadedRuns, Resetting
<1>18a. ASSUME NEW t \in Threads, SaveSet(t) PROVE LoadedRuns'
  BY <1>18a DEF SaveSet, Switch, Stopped, Also, TypeInv, AloneInv, Alone, fileVars, registryVars, historyVars, LoadedRuns, Resetting
<1>18. ASSUME NEW t \in Threads, SaveOpen(t) PROVE LoadedRuns'
  BY <1>18 DEF SaveOpen, Stopped, Also, TypeInv, AloneInv, Alone, fileVars, registryVars, historyVars, LoadedRuns, Resetting
<1>19. ASSUME NEW t \in Threads, SaveClose(t) PROVE LoadedRuns'
  BY <1>19 DEF SaveClose, Stopped, Also, TypeInv, AloneInv, Alone, fileVars, registryVars, historyVars, LoadedRuns, Resetting
<1>20. CASE UNCHANGED vars
  BY <1>20 DEF vars, Stopped, Also, TypeInv, AloneInv, Alone, fileVars, registryVars, historyVars, LoadedRuns, Resetting
<1>21. QED
  BY <1>1, <1>2, <1>3, <1>4, <1>5, <1>6, <1>7, <1>8, <1>9, <1>10, <1>11, <1>12, <1>13, <1>14, <1>15, <1>16, <1>17, <1>18a, <1>18, <1>19, <1>20 DEF Next

(* A second save at once is an overlap.                                    *)
LEMMA LoneStep == AloneInv /\ [Next]_vars => LoneSave'
<1> SUFFICES ASSUME AloneInv, [Next]_vars PROVE LoneSave' OBVIOUS
<1> USE Values
<1>1. CASE LoginCheck
  BY <1>1 DEF LoginCheck, Stopped, Also, TypeInv, AloneInv, Alone, fileVars, registryVars, historyVars, LoneSave, Saving, SavesTyped, Resetting, Login
<1>2. CASE CopyBundled
  BY <1>2 DEF CopyBundled, Stopped, Also, TypeInv, AloneInv, Alone, fileVars, registryVars, historyVars, LoneSave, Saving, SavesTyped, Resetting, Login
<1>3. CASE WrongPassword
  BY <1>3 DEF WrongPassword, Stopped, Also, TypeInv, AloneInv, Alone, fileVars, registryVars, historyVars, LoneSave, Saving, SavesTyped, Resetting, Login
<1>4. CASE MigrateOpen
  BY <1>4 DEF MigrateOpen, Stopped, Also, TypeInv, AloneInv, Alone, fileVars, registryVars, historyVars, LoneSave, Saving, SavesTyped, Resetting, Login
<1>5. CASE MigrateWrite
  BY <1>5 DEF MigrateWrite, Stopped, Also, TypeInv, AloneInv, Alone, fileVars, registryVars, historyVars, LoneSave, Saving, SavesTyped, Resetting, Login
<1>6. CASE MigrateRemove
  BY <1>6 DEF MigrateRemove, Stopped, Also, TypeInv, AloneInv, Alone, fileVars, registryVars, historyVars, LoneSave, Saving, SavesTyped, Resetting, Login
<1>7. CASE MigrateClose
  BY <1>7 DEF MigrateClose, Stopped, Also, TypeInv, AloneInv, Alone, fileVars, registryVars, historyVars, LoneSave, Saving, SavesTyped, Resetting, Login
<1>8. CASE Retrieve
  BY <1>8 DEF Retrieve, Stopped, Also, TypeInv, AloneInv, Alone, fileVars, registryVars, historyVars, LoneSave, Saving, SavesTyped, Resetting, Login
<1>9. CASE ResetRead
  BY <1>9 DEF ResetRead, Stopped, Also, TypeInv, AloneInv, Alone, fileVars, registryVars, historyVars, LoneSave, Saving, SavesTyped, Resetting, Login
<1>10. CASE ResetEnsure
  BY <1>10 DEF ResetEnsure, Stopped, Also, TypeInv, AloneInv, Alone, fileVars, registryVars, historyVars, LoneSave, Saving, SavesTyped, Resetting, Login
<1>11. CASE ResetCopy
  BY <1>11 DEF ResetCopy, Stopped, Also, TypeInv, AloneInv, Alone, fileVars, registryVars, historyVars, LoneSave, Saving, SavesTyped, Resetting, Login
<1>12. CASE ResetOpen
  BY <1>12 DEF ResetOpen, Stopped, Also, TypeInv, AloneInv, Alone, fileVars, registryVars, historyVars, LoneSave, Saving, SavesTyped, Resetting, Login
<1>13. CASE ResetClose
  BY <1>13 DEF ResetClose, Stopped, Also, TypeInv, AloneInv, Alone, fileVars, registryVars, historyVars, LoneSave, Saving, SavesTyped, Resetting, Login
<1>14. CASE Quit
  BY <1>14 DEF Quit, Stopped, Also, TypeInv, AloneInv, Alone, fileVars, registryVars, historyVars, LoneSave, Saving, SavesTyped, Resetting, Login
<1>15. CASE Upgrade
  BY <1>15 DEF Upgrade, Stopped, Also, TypeInv, AloneInv, Alone, fileVars, registryVars, historyVars, LoneSave, Saving, SavesTyped, Resetting, Login
<1>16. CASE Crash
  BY <1>16 DEF Crash, Stopped, Also, TypeInv, AloneInv, Alone, fileVars, registryVars, historyVars, LoneSave, Saving, SavesTyped, Resetting, Login
<1>17. ASSUME NEW t \in Threads, NEW S \in SUBSET Known[version], NEW status \in BOOLEAN, SaveRead(t, S, status)
      PROVE  LoneSave'
  <2>1. CASE phase # "run" \/ \E u \in Threads : Saving(u)
    <3>1. "overlap" \in mishaps'
      BY <1>17, <2>1 DEF SaveRead, Also
    <3>2. QED
      BY <3>1 DEF LoneSave
  <2>2. CASE phase = "run" /\ \A u \in Threads : ~Saving(u)
    <3>1. CASE File.st = "valid"
      <4>1. phase' = "run" /\ \A u \in Threads : u # t => save'[u] = save[u]
        BY <1>17, <2>2, <3>1 DEF SaveRead, TypeInv, AloneInv, SavesTyped
      <4>2. \A u \in Threads : Saving(u)' => u = t
        BY <2>2, <4>1 DEF Saving
      <4>3. QED
        BY <4>1, <4>2 DEF LoneSave
    <3>2. CASE File.st # "valid"
      <4>1. \A u \in Threads : ~Saving(u)'
        <5>1. Stopped \/ UNCHANGED save
          BY <1>17, <3>2 DEF SaveRead
        <5>2. CASE Stopped
          BY <5>2 DEF Stopped, Saving
        <5>3. QED
          BY <2>2, <5>1, <5>2 DEF Saving
      <4>2. QED
        BY <4>1 DEF LoneSave
    <3>3. QED
      BY <3>1, <3>2
  <2>3. QED
    BY <2>1, <2>2
<1>18a. ASSUME NEW t \in Threads, SaveSet(t) PROVE LoneSave'
  BY <1>18a DEF SaveSet, Switch, Stopped, Also, TypeInv, AloneInv, Alone, fileVars, registryVars, historyVars, LoneSave, Saving, SavesTyped, Resetting, Login
<1>18. ASSUME NEW t \in Threads, SaveOpen(t) PROVE LoneSave'
  BY <1>18 DEF SaveOpen, Stopped, Also, TypeInv, AloneInv, Alone, fileVars, registryVars, historyVars, LoneSave, Saving, SavesTyped, Resetting, Login
<1>19. ASSUME NEW t \in Threads, SaveClose(t) PROVE LoneSave'
  BY <1>19 DEF SaveClose, Stopped, Also, TypeInv, AloneInv, Alone, fileVars, registryVars, historyVars, LoneSave, Saving, SavesTyped, Resetting, Login
<1>20. CASE UNCHANGED vars
  BY <1>20 DEF vars, Stopped, Also, TypeInv, AloneInv, Alone, fileVars, registryVars, historyVars, LoneSave, Saving, SavesTyped, Resetting, Login
<1>21. QED
  BY <1>1, <1>2, <1>3, <1>4, <1>5, <1>6, <1>7, <1>8, <1>9, <1>10, <1>11, <1>12, <1>13, <1>14, <1>15, <1>16, <1>17, <1>18a, <1>18, <1>19, <1>20 DEF Next

(* No file is newer than the program.                                      *)
LEMMA LaterStep == AloneInv /\ [Next]_vars => NoLaterFile'
<1> SUFFICES ASSUME AloneInv, [Next]_vars PROVE NoLaterFile' OBVIOUS
<1> USE Values
<1>1. CASE LoginCheck
  <2>1. version' = version /\ (files' = files \/ \E f : files' = [files EXCEPT ![version] = f])
    BY <1>1 DEF LoginCheck, Put, historyVars
  <2>2. \A v \in Versions : v # version => files'[v] = files[v]
    BY <2>1 DEF AloneInv, TypeInv, FilesTyped
  <2>3. QED
    BY <2>1, <2>2 DEF AloneInv, Alone, TypeInv, MainTyped, NoLaterFile, Versions
<1>2. CASE CopyBundled
  BY <1>2 DEF CopyBundled, Stopped, Also, TypeInv, AloneInv, Alone, fileVars, registryVars, historyVars, NoLaterFile, Put, FilesTyped, MainTyped, Versions
<1>3. CASE WrongPassword
  BY <1>3 DEF WrongPassword, Stopped, Also, TypeInv, AloneInv, Alone, fileVars, registryVars, historyVars, NoLaterFile, Put, FilesTyped, MainTyped, Versions
<1>4. CASE MigrateOpen
  <2>1. version' = version /\ (files' = files \/ \E f : files' = [files EXCEPT ![version] = f])
    BY <1>4 DEF MigrateOpen, Put, fileVars, registryVars, historyVars
  <2>2. \A v \in Versions : v # version => files'[v] = files[v]
    BY <2>1 DEF AloneInv, TypeInv, FilesTyped
  <2>3. QED
    BY <2>1, <2>2 DEF AloneInv, Alone, TypeInv, MainTyped, NoLaterFile, Versions
<1>5. CASE MigrateWrite
  <2>1. version' = version /\ (files' = files \/ \E f : files' = [files EXCEPT ![version] = f])
    BY <1>5 DEF MigrateWrite, Put, historyVars
  <2>2. \A v \in Versions : v # version => files'[v] = files[v]
    BY <2>1 DEF AloneInv, TypeInv, FilesTyped
  <2>3. QED
    BY <2>1, <2>2 DEF AloneInv, Alone, TypeInv, MainTyped, NoLaterFile, Versions
<1>6. CASE MigrateRemove
  BY <1>6 DEF MigrateRemove, Stopped, Also, TypeInv, AloneInv, Alone, fileVars, registryVars, historyVars, NoLaterFile, Put, FilesTyped, MainTyped, Versions
<1>7. CASE MigrateClose
  BY <1>7 DEF MigrateClose, Stopped, Also, TypeInv, AloneInv, Alone, fileVars, registryVars, historyVars, NoLaterFile, Put, FilesTyped, MainTyped, Versions
<1>8. CASE Retrieve
  BY <1>8 DEF Retrieve, Stopped, Also, TypeInv, AloneInv, Alone, fileVars, registryVars, historyVars, NoLaterFile, Put, FilesTyped, MainTyped, Versions
<1>9. CASE ResetRead
  <2>1. version' = version /\ (files' = files \/ \E f : files' = [files EXCEPT ![version] = f])
    BY <1>9 DEF ResetRead, Put, historyVars
  <2>2. \A v \in Versions : v # version => files'[v] = files[v]
    BY <2>1 DEF AloneInv, TypeInv, FilesTyped
  <2>3. QED
    BY <2>1, <2>2 DEF AloneInv, Alone, TypeInv, MainTyped, NoLaterFile, Versions
<1>10. CASE ResetEnsure
  BY <1>10 DEF ResetEnsure, Stopped, Also, TypeInv, AloneInv, Alone, fileVars, registryVars, historyVars, NoLaterFile, Put, FilesTyped, MainTyped, Versions
<1>11. CASE ResetCopy
  BY <1>11 DEF ResetCopy, Stopped, Also, TypeInv, AloneInv, Alone, fileVars, registryVars, historyVars, NoLaterFile, Put, FilesTyped, MainTyped, Versions
<1>12. CASE ResetOpen
  <2>1. version' = version /\ (files' = files \/ \E f : files' = [files EXCEPT ![version] = f])
    BY <1>12 DEF ResetOpen, Put, historyVars
  <2>2. \A v \in Versions : v # version => files'[v] = files[v]
    BY <2>1 DEF AloneInv, TypeInv, FilesTyped
  <2>3. QED
    BY <2>1, <2>2 DEF AloneInv, Alone, TypeInv, MainTyped, NoLaterFile, Versions
<1>13. CASE ResetClose
  BY <1>13 DEF ResetClose, Stopped, Also, TypeInv, AloneInv, Alone, fileVars, registryVars, historyVars, NoLaterFile, Put, FilesTyped, MainTyped, Versions
<1>14. CASE Quit
  BY <1>14 DEF Quit, Stopped, Also, TypeInv, AloneInv, Alone, fileVars, registryVars, historyVars, NoLaterFile, Put, FilesTyped, MainTyped, Versions
<1>15. CASE Upgrade
  BY <1>15 DEF Upgrade, Stopped, Also, TypeInv, AloneInv, Alone, fileVars, registryVars, historyVars, NoLaterFile, Put, FilesTyped, MainTyped, Versions
<1>16. CASE Crash
  BY <1>16 DEF Crash, Stopped, Also, TypeInv, AloneInv, Alone, fileVars, registryVars, historyVars, NoLaterFile, Put, FilesTyped, MainTyped, Versions
<1>17. ASSUME NEW t \in Threads, NEW S \in SUBSET Known[version], NEW status \in BOOLEAN, SaveRead(t, S, status)
      PROVE  NoLaterFile'
  BY <1>17 DEF SaveRead, Stopped, Also, TypeInv, AloneInv, Alone, fileVars, registryVars, historyVars, NoLaterFile, Put, FilesTyped, MainTyped, Versions
<1>18a. ASSUME NEW t \in Threads, SaveSet(t) PROVE NoLaterFile'
  BY <1>18a DEF SaveSet, Switch, Stopped, Also, TypeInv, AloneInv, Alone, fileVars, registryVars, historyVars, NoLaterFile, Put, FilesTyped, MainTyped, Versions
<1>18. ASSUME NEW t \in Threads, SaveOpen(t) PROVE NoLaterFile'
  BY <1>18 DEF SaveOpen, Stopped, Also, TypeInv, AloneInv, Alone, fileVars, registryVars, historyVars, NoLaterFile, Put, FilesTyped, MainTyped, Versions
<1>19. ASSUME NEW t \in Threads, SaveClose(t) PROVE NoLaterFile'
  BY <1>19 DEF SaveClose, Stopped, Also, TypeInv, AloneInv, Alone, fileVars, registryVars, historyVars, NoLaterFile, Put, FilesTyped, MainTyped, Versions
<1>20. CASE UNCHANGED vars
  BY <1>20 DEF vars, Stopped, Also, TypeInv, AloneInv, Alone, fileVars, registryVars, historyVars, NoLaterFile, Put, FilesTyped, MainTyped, Versions
<1>21. QED
  BY <1>1, <1>2, <1>3, <1>4, <1>5, <1>6, <1>7, <1>8, <1>9, <1>10, <1>11, <1>12, <1>13, <1>14, <1>15, <1>16, <1>17, <1>18a, <1>18, <1>19, <1>20 DEF Next

(* A file that is open is empty until another thread writes it.            *)
LEMMA OpenStep == AloneInv /\ [Next]_vars => OpenIsEmpty'
<1> SUFFICES ASSUME AloneInv, [Next]_vars PROVE OpenIsEmpty' OBVIOUS
<1> USE Values
<1>1. CASE LoginCheck
  BY <1>1 DEF LoginCheck, Stopped, Also, TypeInv, AloneInv, Alone, fileVars, registryVars, historyVars, OpenIsEmpty, LoneSave, Put, File, SavesTyped, FilesTyped, MainTyped, Resetting, Login, Saving
<1>2. CASE CopyBundled
  BY <1>2 DEF CopyBundled, Stopped, Also, TypeInv, AloneInv, Alone, fileVars, registryVars, historyVars, OpenIsEmpty, LoneSave, Put, File, SavesTyped, FilesTyped, MainTyped, Resetting, Login, Saving
<1>3. CASE WrongPassword
  BY <1>3 DEF WrongPassword, Stopped, Also, TypeInv, AloneInv, Alone, fileVars, registryVars, historyVars, OpenIsEmpty, LoneSave, Put, File, SavesTyped, FilesTyped, MainTyped, Resetting, Login, Saving
<1>4. CASE MigrateOpen
  BY <1>4 DEF MigrateOpen, Stopped, Also, TypeInv, AloneInv, Alone, fileVars, registryVars, historyVars, OpenIsEmpty, LoneSave, Put, File, SavesTyped, FilesTyped, MainTyped, Resetting, Login, Saving
<1>5. CASE MigrateWrite
  BY <1>5 DEF MigrateWrite, Stopped, Also, TypeInv, AloneInv, Alone, fileVars, registryVars, historyVars, OpenIsEmpty, LoneSave, Put, File, SavesTyped, FilesTyped, MainTyped, Resetting, Login, Saving
<1>6. CASE MigrateRemove
  BY <1>6 DEF MigrateRemove, Stopped, Also, TypeInv, AloneInv, Alone, fileVars, registryVars, historyVars, OpenIsEmpty, LoneSave, Put, File, SavesTyped, FilesTyped, MainTyped, Resetting, Login, Saving
<1>7. CASE MigrateClose
  BY <1>7 DEF MigrateClose, Stopped, Also, TypeInv, AloneInv, Alone, fileVars, registryVars, historyVars, OpenIsEmpty, LoneSave, Put, File, SavesTyped, FilesTyped, MainTyped, Resetting, Login, Saving
<1>8. CASE Retrieve
  BY <1>8 DEF Retrieve, Stopped, Also, TypeInv, AloneInv, Alone, fileVars, registryVars, historyVars, OpenIsEmpty, LoneSave, Put, File, SavesTyped, FilesTyped, MainTyped, Resetting, Login, Saving
<1>9. CASE ResetRead
  BY <1>9 DEF ResetRead, Stopped, Also, TypeInv, AloneInv, Alone, fileVars, registryVars, historyVars, OpenIsEmpty, LoneSave, Put, File, SavesTyped, FilesTyped, MainTyped, Resetting, Login, Saving
<1>10. CASE ResetEnsure
  BY <1>10 DEF ResetEnsure, Stopped, Also, TypeInv, AloneInv, Alone, fileVars, registryVars, historyVars, OpenIsEmpty, LoneSave, Put, File, SavesTyped, FilesTyped, MainTyped, Resetting, Login, Saving
<1>11. CASE ResetCopy
  BY <1>11 DEF ResetCopy, Stopped, Also, TypeInv, AloneInv, Alone, fileVars, registryVars, historyVars, OpenIsEmpty, LoneSave, Put, File, SavesTyped, FilesTyped, MainTyped, Resetting, Login, Saving
<1>12. CASE ResetOpen
  BY <1>12 DEF ResetOpen, Stopped, Also, TypeInv, AloneInv, Alone, fileVars, registryVars, historyVars, OpenIsEmpty, LoneSave, Put, File, SavesTyped, FilesTyped, MainTyped, Resetting, Login, Saving
<1>13. CASE ResetClose
  BY <1>13 DEF ResetClose, Stopped, Also, TypeInv, AloneInv, Alone, fileVars, registryVars, historyVars, OpenIsEmpty, LoneSave, Put, File, SavesTyped, FilesTyped, MainTyped, Resetting, Login, Saving
<1>14. CASE Quit
  BY <1>14 DEF Quit, Stopped, Also, TypeInv, AloneInv, Alone, fileVars, registryVars, historyVars, OpenIsEmpty, LoneSave, Put, File, SavesTyped, FilesTyped, MainTyped, Resetting, Login, Saving
<1>15. CASE Upgrade
  BY <1>15 DEF Upgrade, Stopped, Also, TypeInv, AloneInv, Alone, fileVars, registryVars, historyVars, OpenIsEmpty, LoneSave, Put, File, SavesTyped, FilesTyped, MainTyped, Resetting, Login, Saving
<1>16. CASE Crash
  BY <1>16 DEF Crash, Stopped, Also, TypeInv, AloneInv, Alone, fileVars, registryVars, historyVars, OpenIsEmpty, LoneSave, Put, File, SavesTyped, FilesTyped, MainTyped, Resetting, Login, Saving
<1>17. ASSUME NEW t \in Threads, NEW S \in SUBSET Known[version], NEW status \in BOOLEAN, SaveRead(t, S, status)
      PROVE  OpenIsEmpty'
  <2>1. UNCHANGED <<version, files>> /\ ("overlap" \in mishaps => "overlap" \in mishaps')
    BY <1>17 DEF SaveRead, Also
  <2>2. \A u \in Threads : save'[u].pc = "open" => save[u].pc = "open"
    <3>1. CASE File.st = "valid"
      BY <1>17, <3>1 DEF SaveRead, TypeInv, AloneInv, SavesTyped
    <3>2. CASE Stopped
      BY <3>2 DEF Stopped
    <3>3. QED
      BY <1>17, <3>1, <3>2 DEF SaveRead
  <2>3. QED
    BY <2>1, <2>2 DEF AloneInv, Alone, OpenIsEmpty
<1>18a. ASSUME NEW t \in Threads, SaveSet(t) PROVE OpenIsEmpty'
  BY <1>18a DEF SaveSet, Switch, Stopped, Also, TypeInv, AloneInv, Alone, fileVars, registryVars, historyVars, OpenIsEmpty, LoneSave, Put, File, SavesTyped, FilesTyped, MainTyped, Resetting, Login, Saving
<1>18. ASSUME NEW t \in Threads, SaveOpen(t) PROVE OpenIsEmpty'
  BY <1>18 DEF SaveOpen, Stopped, Also, TypeInv, AloneInv, Alone, fileVars, registryVars, historyVars, OpenIsEmpty, LoneSave, Put, File, SavesTyped, FilesTyped, MainTyped, Resetting, Login, Saving
<1>19. ASSUME NEW t \in Threads, SaveClose(t) PROVE OpenIsEmpty'
  BY <1>19 DEF SaveClose, Stopped, Also, TypeInv, AloneInv, Alone, fileVars, registryVars, historyVars, OpenIsEmpty, LoneSave, Put, File, SavesTyped, FilesTyped, MainTyped, Resetting, Login, Saving
<1>20. CASE UNCHANGED vars
  BY <1>20 DEF vars, Stopped, Also, TypeInv, AloneInv, Alone, fileVars, registryVars, historyVars, OpenIsEmpty, LoneSave, Put, File, SavesTyped, FilesTyped, MainTyped, Resetting, Login, Saving
<1>21. QED
  BY <1>1, <1>2, <1>3, <1>4, <1>5, <1>6, <1>7, <1>8, <1>9, <1>10, <1>11, <1>12, <1>13, <1>14, <1>15, <1>16, <1>17, <1>18a, <1>18, <1>19, <1>20 DEF Next

(* The list a reset copied is there when it is read back.                  *)
LEMMA RestoreStep == AloneInv /\ [Next]_vars => RestoreReads'
<1> SUFFICES ASSUME AloneInv, [Next]_vars PROVE RestoreReads' OBVIOUS
<1> USE Values, Listed
<1>1. CASE LoginCheck
  BY <1>1 DEF LoginCheck, Stopped, Also, TypeInv, AloneInv, Alone, fileVars, registryVars, historyVars, RestoreReads, LoneSave, Put, File, SavesTyped, FilesTyped, MainTyped, Resetting, Login, Saving
<1>2. CASE CopyBundled
  BY <1>2 DEF CopyBundled, Stopped, Also, TypeInv, AloneInv, Alone, fileVars, registryVars, historyVars, RestoreReads, LoneSave, Put, File, SavesTyped, FilesTyped, MainTyped, Resetting, Login, Saving
<1>3. CASE WrongPassword
  BY <1>3 DEF WrongPassword, Stopped, Also, TypeInv, AloneInv, Alone, fileVars, registryVars, historyVars, RestoreReads, LoneSave, Put, File, SavesTyped, FilesTyped, MainTyped, Resetting, Login, Saving
<1>4. CASE MigrateOpen
  BY <1>4 DEF MigrateOpen, Stopped, Also, TypeInv, AloneInv, Alone, fileVars, registryVars, historyVars, RestoreReads, LoneSave, Put, File, SavesTyped, FilesTyped, MainTyped, Resetting, Login, Saving
<1>5. CASE MigrateWrite
  BY <1>5 DEF MigrateWrite, Stopped, Also, TypeInv, AloneInv, Alone, fileVars, registryVars, historyVars, RestoreReads, LoneSave, Put, File, SavesTyped, FilesTyped, MainTyped, Resetting, Login, Saving
<1>6. CASE MigrateRemove
  BY <1>6 DEF MigrateRemove, Stopped, Also, TypeInv, AloneInv, Alone, fileVars, registryVars, historyVars, RestoreReads, LoneSave, Put, File, SavesTyped, FilesTyped, MainTyped, Resetting, Login, Saving
<1>7. CASE MigrateClose
  BY <1>7 DEF MigrateClose, Stopped, Also, TypeInv, AloneInv, Alone, fileVars, registryVars, historyVars, RestoreReads, LoneSave, Put, File, SavesTyped, FilesTyped, MainTyped, Resetting, Login, Saving
<1>8. CASE Retrieve
  BY <1>8 DEF Retrieve, Stopped, Also, TypeInv, AloneInv, Alone, fileVars, registryVars, historyVars, RestoreReads, LoneSave, Put, File, SavesTyped, FilesTyped, MainTyped, Resetting, Login, Saving
<1>9. CASE ResetRead
  BY <1>9 DEF ResetRead, Stopped, Also, TypeInv, AloneInv, Alone, fileVars, registryVars, historyVars, RestoreReads, LoneSave, Put, File, SavesTyped, FilesTyped, MainTyped, Resetting, Login, Saving
<1>10. CASE ResetEnsure
  BY <1>10 DEF ResetEnsure, Stopped, Also, TypeInv, AloneInv, Alone, fileVars, registryVars, historyVars, RestoreReads, LoneSave, Put, File, SavesTyped, FilesTyped, MainTyped, Resetting, Login, Saving
<1>11. CASE ResetCopy
  BY <1>11 DEF ResetCopy, Stopped, Also, TypeInv, AloneInv, Alone, fileVars, registryVars, historyVars, RestoreReads, LoneSave, Put, File, SavesTyped, FilesTyped, MainTyped, Resetting, Login, Saving
<1>12. CASE ResetOpen
  BY <1>12 DEF ResetOpen, Stopped, Also, TypeInv, AloneInv, Alone, fileVars, registryVars, historyVars, RestoreReads, LoneSave, Put, File, SavesTyped, FilesTyped, MainTyped, Resetting, Login, Saving
<1>13. CASE ResetClose
  BY <1>13 DEF ResetClose, Stopped, Also, TypeInv, AloneInv, Alone, fileVars, registryVars, historyVars, RestoreReads, LoneSave, Put, File, SavesTyped, FilesTyped, MainTyped, Resetting, Login, Saving
<1>14. CASE Quit
  BY <1>14 DEF Quit, Stopped, Also, TypeInv, AloneInv, Alone, fileVars, registryVars, historyVars, RestoreReads, LoneSave, Put, File, SavesTyped, FilesTyped, MainTyped, Resetting, Login, Saving
<1>15. CASE Upgrade
  BY <1>15 DEF Upgrade, Stopped, Also, TypeInv, AloneInv, Alone, fileVars, registryVars, historyVars, RestoreReads, LoneSave, Put, File, SavesTyped, FilesTyped, MainTyped, Resetting, Login, Saving
<1>16. CASE Crash
  BY <1>16 DEF Crash, Stopped, Also, TypeInv, AloneInv, Alone, fileVars, registryVars, historyVars, RestoreReads, LoneSave, Put, File, SavesTyped, FilesTyped, MainTyped, Resetting, Login, Saving
<1>17. ASSUME NEW t \in Threads, NEW S \in SUBSET Known[version], NEW status \in BOOLEAN, SaveRead(t, S, status)
      PROVE  RestoreReads'
  BY <1>17 DEF SaveRead, Stopped, Also, TypeInv, AloneInv, Alone, fileVars, registryVars, historyVars, RestoreReads, LoneSave, Put, File, SavesTyped, FilesTyped, MainTyped, Resetting, Login, Saving
<1>18a. ASSUME NEW t \in Threads, SaveSet(t) PROVE RestoreReads'
  BY <1>18a DEF SaveSet, Switch, Stopped, Also, TypeInv, AloneInv, Alone, fileVars, registryVars, historyVars, RestoreReads, LoneSave, Put, File, SavesTyped, FilesTyped, MainTyped, Resetting, Login, Saving
<1>18. ASSUME NEW t \in Threads, SaveOpen(t) PROVE RestoreReads'
  BY <1>18 DEF SaveOpen, Stopped, Also, TypeInv, AloneInv, Alone, fileVars, registryVars, historyVars, RestoreReads, LoneSave, Put, File, SavesTyped, FilesTyped, MainTyped, Resetting, Login, Saving
<1>19. ASSUME NEW t \in Threads, SaveClose(t) PROVE RestoreReads'
  BY <1>19 DEF SaveClose, Stopped, Also, TypeInv, AloneInv, Alone, fileVars, registryVars, historyVars, RestoreReads, LoneSave, Put, File, SavesTyped, FilesTyped, MainTyped, Resetting, Login, Saving
<1>20. CASE UNCHANGED vars
  BY <1>20 DEF vars, Stopped, Also, TypeInv, AloneInv, Alone, fileVars, registryVars, historyVars, RestoreReads, LoneSave, Put, File, SavesTyped, FilesTyped, MainTyped, Resetting, Login, Saving
<1>21. QED
  BY <1>1, <1>2, <1>3, <1>4, <1>5, <1>6, <1>7, <1>8, <1>9, <1>10, <1>11, <1>12, <1>13, <1>14, <1>15, <1>16, <1>17, <1>18a, <1>18, <1>19, <1>20 DEF Next

(* A step tears a file only where TornHasCause lets it.                    *)
LEMMA TornStep == AloneInv /\ [Next]_vars => TornHasCause'
<1> SUFFICES ASSUME AloneInv, [Next]_vars PROVE TornHasCause' OBVIOUS
<1> USE Values, Listed
<1>1. CASE LoginCheck
  BY <1>1 DEF LoginCheck, Stopped, Also, TypeInv, AloneInv, Alone, fileVars, registryVars, historyVars, TornHasCause, Rewriting, Opened, OpenIsEmpty, LoneSave, Put, File, SavesTyped, FilesTyped, MainTyped, Login, Resetting, Saving
<1>2. CASE CopyBundled
  BY <1>2 DEF CopyBundled, Stopped, Also, TypeInv, AloneInv, Alone, fileVars, registryVars, historyVars, TornHasCause, Rewriting, Opened, OpenIsEmpty, LoneSave, Put, File, SavesTyped, FilesTyped, MainTyped, Login, Resetting, Saving
<1>3. CASE WrongPassword
  BY <1>3 DEF WrongPassword, Stopped, Also, TypeInv, AloneInv, Alone, fileVars, registryVars, historyVars, TornHasCause, Rewriting, Opened, OpenIsEmpty, LoneSave, Put, File, SavesTyped, FilesTyped, MainTyped, Login, Resetting, Saving
<1>4. CASE MigrateOpen
  BY <1>4 DEF MigrateOpen, Stopped, Also, TypeInv, AloneInv, Alone, fileVars, registryVars, historyVars, TornHasCause, Rewriting, Opened, OpenIsEmpty, LoneSave, Put, File, SavesTyped, FilesTyped, MainTyped, Login, Resetting, Saving
<1>5. CASE MigrateWrite
  BY <1>5 DEF MigrateWrite, Stopped, Also, TypeInv, AloneInv, Alone, fileVars, registryVars, historyVars, TornHasCause, Rewriting, Opened, OpenIsEmpty, LoneSave, Put, File, SavesTyped, FilesTyped, MainTyped, Login, Resetting, Saving
<1>6. CASE MigrateRemove
  BY <1>6 DEF MigrateRemove, Stopped, Also, TypeInv, AloneInv, Alone, fileVars, registryVars, historyVars, TornHasCause, Rewriting, Opened, OpenIsEmpty, LoneSave, Put, File, SavesTyped, FilesTyped, MainTyped, Login, Resetting, Saving
<1>7. CASE MigrateClose
  BY <1>7 DEF MigrateClose, Stopped, Also, TypeInv, AloneInv, Alone, fileVars, registryVars, historyVars, TornHasCause, Rewriting, Opened, OpenIsEmpty, LoneSave, Put, File, SavesTyped, FilesTyped, MainTyped, Login, Resetting, Saving
<1>8. CASE Retrieve
  BY <1>8 DEF Retrieve, Stopped, Also, TypeInv, AloneInv, Alone, fileVars, registryVars, historyVars, TornHasCause, Rewriting, Opened, OpenIsEmpty, LoneSave, Put, File, SavesTyped, FilesTyped, MainTyped, Login, Resetting, Saving
<1>9. CASE ResetRead
  <2>1. CASE files' = files
    <3>1. UNCHANGED version /\ mishaps \subseteq mishaps' /\ phase = "run"
            /\ (Opened => "overlap" \in mishaps')
      BY <1>9 DEF ResetRead, Also, Opened, Saving
    <3>2. Rewriting => Opened
      BY <3>1 DEF Rewriting, Resetting
    <3>3. QED
      BY <2>1, <3>1, <3>2 DEF AloneInv, TornHasCause
  <2>2. CASE Put(Absent) /\ phase' = "ensure"
    <3>1. UNCHANGED version /\ mishaps \subseteq mishaps' /\ Rewriting'
      BY <1>9, <2>2 DEF ResetRead, Also, Rewriting, Resetting
    <3>2. \A v \in Versions : v # version => files'[v] = files[v]
      BY <2>2 DEF Put, AloneInv, TypeInv, FilesTyped
    <3>3. QED
      BY <3>1, <3>2 DEF AloneInv, TornHasCause
  <2>3. QED
    BY <1>9, <2>1, <2>2 DEF ResetRead
<1>10. CASE ResetEnsure
  BY <1>10 DEF ResetEnsure, Stopped, Also, TypeInv, AloneInv, Alone, fileVars, registryVars, historyVars, TornHasCause, Rewriting, Opened, OpenIsEmpty, LoneSave, Put, File, SavesTyped, FilesTyped, MainTyped, Login, Resetting, Saving
<1>11. CASE ResetCopy
  BY <1>11 DEF ResetCopy, Stopped, Also, TypeInv, AloneInv, Alone, fileVars, registryVars, historyVars, TornHasCause, Rewriting, Opened, OpenIsEmpty, LoneSave, Put, File, SavesTyped, FilesTyped, MainTyped, Login, Resetting, Saving
<1>12. CASE ResetOpen
  <2>1. CASE File.st = "torn"
    <3>1. UNCHANGED <<version, files, mishaps>> /\ phase = "restore"
      BY <1>12, <2>1 DEF ResetOpen, historyVars
    <3>2. mishaps \cap {"crash", "overlap"} # {}
      BY <2>1, <3>1 DEF AloneInv, Alone, RestoreReads, File
    <3>3. QED
      BY <3>1, <3>2 DEF TornHasCause
  <2>2. CASE File.st # "torn"
    <3>1. Put(Torn) /\ phase' = "rewrite" /\ UNCHANGED <<version, mishaps>>
      BY <1>12, <2>2 DEF ResetOpen, historyVars
    <3>2. Rewriting'
      BY <3>1 DEF Rewriting, Resetting
    <3>3. \A v \in Versions : v # version => files'[v] = files[v]
      BY <3>1 DEF Put, AloneInv, TypeInv, FilesTyped
    <3>4. QED
      BY <3>1, <3>2, <3>3 DEF AloneInv, TornHasCause
  <2>3. QED
    BY <2>1, <2>2
<1>13. CASE ResetClose
  BY <1>13 DEF ResetClose, Stopped, Also, TypeInv, AloneInv, Alone, fileVars, registryVars, historyVars, TornHasCause, Rewriting, Opened, OpenIsEmpty, LoneSave, Put, File, SavesTyped, FilesTyped, MainTyped, Login, Resetting, Saving
<1>14. CASE Quit
  BY <1>14 DEF Quit, Stopped, Also, TypeInv, AloneInv, Alone, fileVars, registryVars, historyVars, TornHasCause, Rewriting, Opened, OpenIsEmpty, LoneSave, Put, File, SavesTyped, FilesTyped, MainTyped, Login, Resetting, Saving
<1>15. CASE Upgrade
  BY <1>15 DEF Upgrade, Stopped, Also, TypeInv, AloneInv, Alone, fileVars, registryVars, historyVars, TornHasCause, Rewriting, Opened, OpenIsEmpty, LoneSave, Put, File, SavesTyped, FilesTyped, MainTyped, Login, Resetting, Saving
<1>16. CASE Crash
  <2>1. UNCHANGED <<version, files>> /\ mishaps \subseteq mishaps' /\ (Rewriting => "crash" \in mishaps')
    BY <1>16 DEF Crash, Also
  <2>2. QED
    BY <2>1 DEF AloneInv, TornHasCause
<1>17. ASSUME NEW t \in Threads, NEW S \in SUBSET Known[version], NEW status \in BOOLEAN, SaveRead(t, S, status)
      PROVE  TornHasCause'
  <2>1. UNCHANGED <<version, files>> /\ mishaps \subseteq mishaps'
    BY <1>17 DEF SaveRead, Also
  <2>2. CASE Rewriting
    <3>1. phase # "run" \/ \E u \in Threads : Saving(u)
      BY <2>2 DEF Rewriting, Opened, Saving, Resetting
    <3>2. "overlap" \in mishaps'
      BY <1>17, <3>1 DEF SaveRead, Also
    <3>3. QED
      BY <3>2 DEF TornHasCause
  <2>3. CASE ~Rewriting
    BY <2>1, <2>3 DEF AloneInv, TornHasCause
  <2>4. QED
    BY <2>2, <2>3
<1>18a. ASSUME NEW t \in Threads, SaveSet(t) PROVE TornHasCause'
  BY <1>18a DEF SaveSet, Switch, Stopped, Also, TypeInv, AloneInv, Alone, fileVars, registryVars, historyVars, TornHasCause, Rewriting, Opened, OpenIsEmpty, LoneSave, Put, File, SavesTyped, FilesTyped, MainTyped, Login, Resetting, Saving
<1>18. ASSUME NEW t \in Threads, SaveOpen(t) PROVE TornHasCause'
  BY <1>18 DEF SaveOpen, Stopped, Also, TypeInv, AloneInv, Alone, fileVars, registryVars, historyVars, TornHasCause, Rewriting, Opened, OpenIsEmpty, LoneSave, Put, File, SavesTyped, FilesTyped, MainTyped, Login, Resetting, Saving
<1>19. ASSUME NEW t \in Threads, SaveClose(t) PROVE TornHasCause'
  BY <1>19 DEF SaveClose, Stopped, Also, TypeInv, AloneInv, Alone, fileVars, registryVars, historyVars, TornHasCause, Rewriting, Opened, OpenIsEmpty, LoneSave, Put, File, SavesTyped, FilesTyped, MainTyped, Login, Resetting, Saving
<1>20. CASE UNCHANGED vars
  BY <1>20 DEF vars, Stopped, Also, TypeInv, AloneInv, Alone, fileVars, registryVars, historyVars, TornHasCause, Rewriting, Opened, OpenIsEmpty, LoneSave, Put, File, SavesTyped, FilesTyped, MainTyped, Login, Resetting, Saving
<1>21. QED
  BY <1>1, <1>2, <1>3, <1>4, <1>5, <1>6, <1>7, <1>8, <1>9, <1>10, <1>11, <1>12, <1>13, <1>14, <1>15, <1>16, <1>17, <1>18a, <1>18, <1>19, <1>20 DEF Next

-----------------------------------------------------------------------------
(* A valid file is the one its active coins make.                          *)
LEMMA ValidFile == TypeInv /\ File.st = "valid" => File = Valid(File.on)
<1> SUFFICES ASSUME TypeInv, File.st = "valid" PROVE File = Valid(File.on) OBVIOUS
<1>1. File \in Files BY DEF File, TypeInv, FilesTyped, MainTyped
<1>2. QED BY <1>1 DEF Files, Valid

(* The history follows the registry.                                       *)
LEMMA KeptStep == AgreeInv /\ [Next]_vars => KeptIsActive'
<1> SUFFICES ASSUME AgreeInv, [Next]_vars PROVE KeptIsActive' OBVIOUS
<1>1. CASE LoginCheck
  BY <1>1 DEF LoginCheck, Stopped, Also, AgreeInv, Agreement, AloneInv, Alone, fileVars, registryVars, historyVars, KeptIsActive, Changing, LoadedRuns, Resetting
<1>2. CASE CopyBundled
  BY <1>2 DEF CopyBundled, Stopped, Also, AgreeInv, Agreement, AloneInv, Alone, fileVars, registryVars, historyVars, KeptIsActive, Changing, LoadedRuns, Resetting
<1>3. CASE WrongPassword
  BY <1>3 DEF WrongPassword, Stopped, Also, AgreeInv, Agreement, AloneInv, Alone, fileVars, registryVars, historyVars, KeptIsActive, Changing, LoadedRuns, Resetting
<1>4. CASE MigrateOpen
  BY <1>4 DEF MigrateOpen, Stopped, Also, AgreeInv, Agreement, AloneInv, Alone, fileVars, registryVars, historyVars, KeptIsActive, Changing, LoadedRuns, Resetting
<1>5. CASE MigrateWrite
  BY <1>5 DEF MigrateWrite, Stopped, Also, AgreeInv, Agreement, AloneInv, Alone, fileVars, registryVars, historyVars, KeptIsActive, Changing, LoadedRuns, Resetting
<1>6. CASE MigrateRemove
  BY <1>6 DEF MigrateRemove, Stopped, Also, AgreeInv, Agreement, AloneInv, Alone, fileVars, registryVars, historyVars, KeptIsActive, Changing, LoadedRuns, Resetting
<1>7. CASE MigrateClose
  BY <1>7 DEF MigrateClose, Stopped, Also, AgreeInv, Agreement, AloneInv, Alone, fileVars, registryVars, historyVars, KeptIsActive, Changing, LoadedRuns, Resetting
<1>8. CASE Retrieve
  BY <1>8 DEF Retrieve, Stopped, Also, AgreeInv, Agreement, AloneInv, Alone, fileVars, registryVars, historyVars, KeptIsActive, Changing, LoadedRuns, Resetting
<1>9. CASE ResetRead
  BY <1>9 DEF ResetRead, Stopped, Also, AgreeInv, Agreement, AloneInv, Alone, fileVars, registryVars, historyVars, KeptIsActive, Changing, LoadedRuns, Resetting
<1>10. CASE ResetEnsure
  BY <1>10 DEF ResetEnsure, Stopped, Also, AgreeInv, Agreement, AloneInv, Alone, fileVars, registryVars, historyVars, KeptIsActive, Changing, LoadedRuns, Resetting
<1>11. CASE ResetCopy
  BY <1>11 DEF ResetCopy, Stopped, Also, AgreeInv, Agreement, AloneInv, Alone, fileVars, registryVars, historyVars, KeptIsActive, Changing, LoadedRuns, Resetting
<1>12. CASE ResetOpen
  BY <1>12 DEF ResetOpen, Stopped, Also, AgreeInv, Agreement, AloneInv, Alone, fileVars, registryVars, historyVars, KeptIsActive, Changing, LoadedRuns, Resetting
<1>13. CASE ResetClose
  BY <1>13 DEF ResetClose, Stopped, Also, AgreeInv, Agreement, AloneInv, Alone, fileVars, registryVars, historyVars, KeptIsActive, Changing, LoadedRuns, Resetting
<1>14. CASE Quit
  BY <1>14 DEF Quit, Stopped, Also, AgreeInv, Agreement, AloneInv, Alone, fileVars, registryVars, historyVars, KeptIsActive, Changing, LoadedRuns, Resetting
<1>15. CASE Upgrade
  BY <1>15 DEF Upgrade, Stopped, Also, AgreeInv, Agreement, AloneInv, Alone, fileVars, registryVars, historyVars, KeptIsActive, Changing, LoadedRuns, Resetting
<1>16. CASE Crash
  BY <1>16 DEF Crash, Stopped, Also, AgreeInv, Agreement, AloneInv, Alone, fileVars, registryVars, historyVars, KeptIsActive, Changing, LoadedRuns, Resetting
<1>17. ASSUME NEW t \in Threads, NEW S \in SUBSET Known[version], NEW status \in BOOLEAN, SaveRead(t, S, status)
      PROVE  KeptIsActive'
  <2>1. CASE Stopped
    BY <2>1 DEF Stopped, KeptIsActive
  <2>2. CASE ~Stopped
    <3>1. UNCHANGED <<loaded, active, kept>> /\ ~Saving(t)
      BY <1>17, <2>2 DEF SaveRead
    <3>2. \A u \in Threads : u # t => save'[u] = save[u]
      BY <1>17, <2>2 DEF SaveRead, AgreeInv, AloneInv, TypeInv, SavesTyped
    <3>3. Changing => Changing'
      BY <3>1, <3>2 DEF Changing, Saving
    <3>4. QED
      BY <3>1, <3>3 DEF AgreeInv, Agreement, KeptIsActive
  <2>3. QED
    BY <2>1, <2>2
<1>18a. ASSUME NEW t \in Threads, SaveSet(t) PROVE KeptIsActive'
  <2>1. save'[t].pc = "set"
    BY <1>18a DEF SaveSet, AgreeInv, AloneInv, TypeInv, SavesTyped, Saves
  <2>2. QED
    BY <2>1 DEF Changing, KeptIsActive
<1>18. ASSUME NEW t \in Threads, SaveOpen(t) PROVE KeptIsActive'
  BY <1>18 DEF SaveOpen, Stopped, Also, AgreeInv, Agreement, AloneInv, Alone, fileVars, registryVars, historyVars, KeptIsActive, Changing, LoadedRuns, Resetting
<1>19. ASSUME NEW t \in Threads, SaveClose(t) PROVE KeptIsActive'
  BY <1>19 DEF SaveClose, Stopped, Also, AgreeInv, Agreement, AloneInv, Alone, fileVars, registryVars, historyVars, KeptIsActive, Changing, LoadedRuns, Resetting
<1>20. CASE UNCHANGED vars
  BY <1>20 DEF vars, Stopped, Also, AgreeInv, Agreement, AloneInv, Alone, fileVars, registryVars, historyVars, KeptIsActive, Changing, LoadedRuns, Resetting
<1>21. QED
  BY <1>1, <1>2, <1>3, <1>4, <1>5, <1>6, <1>7, <1>8, <1>9, <1>10, <1>11, <1>12, <1>13, <1>14, <1>15, <1>16, <1>17, <1>18a, <1>18, <1>19, <1>20 DEF Next

(* Without an overlap the file follows the registry.                       *)
LEMMA CopyStep == AgreeInv /\ [Next]_vars => CopyAgrees'
<1> SUFFICES ASSUME AgreeInv, [Next]_vars PROVE CopyAgrees' OBVIOUS
<1> USE Values
<1>1. CASE LoginCheck
  BY <1>1 DEF LoginCheck, Stopped, Also, AgreeInv, Agreement, AloneInv, Alone, fileVars, registryVars, historyVars, CopyAgrees, LoneSave, Opened, FileKept, File, Saving, Resetting, Login
<1>2. CASE CopyBundled
  BY <1>2 DEF CopyBundled, Stopped, Also, AgreeInv, Agreement, AloneInv, Alone, fileVars, registryVars, historyVars, CopyAgrees, LoneSave, Opened, FileKept, File, Saving, Resetting, Login
<1>3. CASE WrongPassword
  BY <1>3 DEF WrongPassword, Stopped, Also, AgreeInv, Agreement, AloneInv, Alone, fileVars, registryVars, historyVars, CopyAgrees, LoneSave, Opened, FileKept, File, Saving, Resetting, Login
<1>4. CASE MigrateOpen
  BY <1>4 DEF MigrateOpen, Stopped, Also, AgreeInv, Agreement, AloneInv, Alone, fileVars, registryVars, historyVars, CopyAgrees, LoneSave, Opened, FileKept, File, Saving, Resetting, Login
<1>5. CASE MigrateWrite
  BY <1>5 DEF MigrateWrite, Stopped, Also, AgreeInv, Agreement, AloneInv, Alone, fileVars, registryVars, historyVars, CopyAgrees, LoneSave, Opened, FileKept, File, Saving, Resetting, Login
<1>6. CASE MigrateRemove
  BY <1>6 DEF MigrateRemove, Stopped, Also, AgreeInv, Agreement, AloneInv, Alone, fileVars, registryVars, historyVars, CopyAgrees, LoneSave, Opened, FileKept, File, Saving, Resetting, Login
<1>7. CASE MigrateClose
  BY <1>7 DEF MigrateClose, Stopped, Also, AgreeInv, Agreement, AloneInv, Alone, fileVars, registryVars, historyVars, CopyAgrees, LoneSave, Opened, FileKept, File, Saving, Resetting, Login
<1>8. CASE Retrieve
  <2>1. UNCHANGED <<version, files, save>> /\ phase = "retrieve" /\ phase' = "run"
    BY <1>8 DEF Retrieve, fileVars
  <2>2. \A t \in Threads : save'[t] = NoSave
    BY <2>1 DEF Login, AgreeInv, AloneInv, TypeInv, SavesTyped
  <2>3. CASE loaded'
    <3>1. File.st = "valid" /\ active' = File.on \cup (Protected \cap Known[version]) /\ kept' = active'
      BY <1>8, <2>3 DEF Retrieve
    <3>2. File' = File /\ File = Valid(File.on)
      BY <2>1, <3>1, ValidFile DEF File, AgreeInv, AloneInv
    <3>3. File' = Valid(File'.on) /\ kept' = File'.on \cup (Protected \cap kept')
      BY <3>1, <3>2
    <3>4. FileKept'
      BY <3>3 DEF FileKept
    <3>5. QED
      BY <2>2, <3>4 DEF CopyAgrees
  <2>4. QED
    BY <2>3 DEF CopyAgrees
<1>9. CASE ResetRead
  BY <1>9 DEF ResetRead, Stopped, Also, AgreeInv, Agreement, AloneInv, Alone, fileVars, registryVars, historyVars, CopyAgrees, LoneSave, Opened, FileKept, File, Saving, Resetting, Login
<1>10. CASE ResetEnsure
  BY <1>10 DEF ResetEnsure, Stopped, Also, AgreeInv, Agreement, AloneInv, Alone, fileVars, registryVars, historyVars, CopyAgrees, LoneSave, Opened, FileKept, File, Saving, Resetting, Login
<1>11. CASE ResetCopy
  BY <1>11 DEF ResetCopy, Stopped, Also, AgreeInv, Agreement, AloneInv, Alone, fileVars, registryVars, historyVars, CopyAgrees, LoneSave, Opened, FileKept, File, Saving, Resetting, Login
<1>12. CASE ResetOpen
  BY <1>12 DEF ResetOpen, Stopped, Also, AgreeInv, Agreement, AloneInv, Alone, fileVars, registryVars, historyVars, CopyAgrees, LoneSave, Opened, FileKept, File, Saving, Resetting, Login
<1>13. CASE ResetClose
  BY <1>13 DEF ResetClose, Stopped, Also, AgreeInv, Agreement, AloneInv, Alone, fileVars, registryVars, historyVars, CopyAgrees, LoneSave, Opened, FileKept, File, Saving, Resetting, Login
<1>14. CASE Quit
  BY <1>14 DEF Quit, Stopped, Also, AgreeInv, Agreement, AloneInv, Alone, fileVars, registryVars, historyVars, CopyAgrees, LoneSave, Opened, FileKept, File, Saving, Resetting, Login
<1>15. CASE Upgrade
  BY <1>15 DEF Upgrade, Stopped, Also, AgreeInv, Agreement, AloneInv, Alone, fileVars, registryVars, historyVars, CopyAgrees, LoneSave, Opened, FileKept, File, Saving, Resetting, Login
<1>16. CASE Crash
  BY <1>16 DEF Crash, Stopped, Also, AgreeInv, Agreement, AloneInv, Alone, fileVars, registryVars, historyVars, CopyAgrees, LoneSave, Opened, FileKept, File, Saving, Resetting, Login
<1>17. ASSUME NEW t \in Threads, NEW S \in SUBSET Known[version], NEW status \in BOOLEAN, SaveRead(t, S, status)
      PROVE  CopyAgrees'
  <2>1. SUFFICES ASSUME loaded', phase' = "run", "overlap" \notin mishaps'
        PROVE  /\ ~Opened' => FileKept'
               /\ \A u \in Threads :
                    /\ save'[u].pc = "read" => save'[u].copy = File'.on
                    /\ save'[u].pc \in {"set", "open"} => active' = save'[u].copy \cup (Protected \cap active')
    BY DEF CopyAgrees
  <2>2. "overlap" \notin mishaps /\ phase = "run" /\ loaded /\ \A u \in Threads : ~Saving(u)
    BY <1>17, <2>1 DEF SaveRead, Also
  <2>3. ~Opened /\ FileKept
    BY <2>2 DEF Opened, Saving, AgreeInv, Agreement, CopyAgrees
  <2>4. UNCHANGED <<version, files, kept>>
    BY <1>17, <2>1 DEF SaveRead, Stopped
  <2>5. File' = File /\ FileKept'
    BY <2>3, <2>4 DEF File, FileKept
  <2>6. File.st = "valid"
    BY <2>3, Listed DEF FileKept, Valid
  <2>7. \A u \in Threads : save'[u].pc \notin {"set", "open"} /\ (save'[u].pc = "read" => save'[u].copy = File.on)
    BY <1>17, <2>2, <2>6 DEF SaveRead, Saving, AgreeInv, AloneInv, TypeInv, SavesTyped
  <2>8. QED
    BY <2>5, <2>7
<1>18a. ASSUME NEW t \in Threads, SaveSet(t) PROVE CopyAgrees'
  <2>1. SUFFICES ASSUME loaded', phase' = "run", "overlap" \notin mishaps'
        PROVE  CopyAgrees'
    BY DEF CopyAgrees
  <2>2. /\ "overlap" \notin mishaps /\ phase = "run" /\ loaded /\ save[t].pc = "read"
        /\ UNCHANGED <<version, files, kept>>
    BY <1>18a, <2>1 DEF SaveSet, historyVars, fileVars
  <2>3. \A u \in Threads : u # t => save[u].pc = "idle" /\ save'[u] = save[u]
    BY <1>18a, <2>2 DEF SaveSet, AgreeInv, AloneInv, Alone, LoneSave, Saving, TypeInv, SavesTyped
  <2>4. save'[t].pc = "set" /\ save'[t].copy = Switch(save[t].copy, t)
    BY <1>18a DEF SaveSet, AgreeInv, AloneInv, TypeInv, SavesTyped, Saves
  <2>5. ~Opened /\ ~Changing
    BY <2>2, <2>3 DEF Opened, Changing
  <2>6. FileKept /\ kept = active /\ save[t].copy = File.on
    BY <2>2, <2>5 DEF AgreeInv, Agreement, CopyAgrees, KeptIsActive
  <2>7. FileKept'
    <3>1. File' = File BY <2>2 DEF File
    <3>2. QED BY <2>2, <2>6, <3>1 DEF FileKept
  <2>8. active' = Switch(save[t].copy, t) \cup (Protected \cap active')
    BY <1>18a, <2>6 DEF SaveSet, Switch, FileKept
  <2>9. QED
    BY <2>3, <2>4, <2>7, <2>8 DEF CopyAgrees
<1>18. ASSUME NEW t \in Threads, SaveOpen(t) PROVE CopyAgrees'
  <2>1. SUFFICES ASSUME loaded', phase' = "run", "overlap" \notin mishaps'
        PROVE  CopyAgrees'
    BY DEF CopyAgrees
  <2>2. "overlap" \notin mishaps /\ phase = "run" /\ loaded /\ save[t].pc = "set" /\ active' = active
    BY <1>18, <2>1 DEF SaveOpen, historyVars, registryVars
  <2>3. \A u \in Threads : u # t => save[u].pc = "idle" /\ save'[u] = save[u]
    BY <1>18, <2>2 DEF SaveOpen, AgreeInv, AloneInv, Alone, LoneSave, Saving, TypeInv, SavesTyped
  <2>4. save'[t].pc = "open" /\ save'[t].copy = save[t].copy
    BY <1>18 DEF SaveOpen, AgreeInv, AloneInv, TypeInv, SavesTyped, Saves
  <2>5. Opened'
    BY <2>4 DEF Opened
  <2>6. active = save[t].copy \cup (Protected \cap active)
    BY <2>2 DEF AgreeInv, Agreement, CopyAgrees
  <2>7. QED
    BY <2>2, <2>3, <2>4, <2>5, <2>6 DEF CopyAgrees
<1>19. ASSUME NEW t \in Threads, SaveClose(t) PROVE CopyAgrees'
  <2>1. SUFFICES ASSUME loaded', phase' = "run", "overlap" \notin mishaps'
        PROVE  CopyAgrees'
    BY DEF CopyAgrees
  <2>2. "overlap" \notin mishaps /\ phase = "run" /\ loaded /\ save[t].pc = "open"
           /\ UNCHANGED <<version, active>> /\ kept' = active
    BY <1>19, <2>1 DEF SaveClose, historyVars
  <2>3. \A u \in Threads : u # t => save[u].pc = "idle" /\ save'[u] = save[u]
    BY <1>19, <2>2 DEF SaveClose, AgreeInv, AloneInv, Alone, LoneSave, Saving, TypeInv, SavesTyped
  <2>4. save'[t] = NoSave
    BY <1>19 DEF SaveClose, AgreeInv, AloneInv, TypeInv, SavesTyped
  <2>5. File.st = "torn"
    BY <2>2 DEF AgreeInv, AloneInv, Alone, OpenIsEmpty, File
  <2>6. File' = Valid(save[t].copy)
    BY <1>19, <2>2, <2>5 DEF SaveClose, Put, File, AgreeInv, AloneInv, TypeInv, FilesTyped, MainTyped
  <2>7. save[t].copy \subseteq Coins
    BY DEF AgreeInv, AloneInv, TypeInv, SavesTyped
  <2>8. active = save[t].copy \cup (Protected \cap active)
    BY <2>2 DEF AgreeInv, Agreement, CopyAgrees
  <2>9. File'.on = save[t].copy
    BY <2>6, <2>7
  <2>10. FileKept'
    BY <2>2, <2>6, <2>8, <2>9 DEF FileKept
  <2>11. QED
    BY <2>3, <2>4, <2>10 DEF CopyAgrees
<1>20. CASE UNCHANGED vars
  BY <1>20 DEF vars, Stopped, Also, AgreeInv, Agreement, AloneInv, Alone, fileVars, registryVars, historyVars, CopyAgrees, LoneSave, Opened, FileKept, File, Saving, Resetting, Login
<1>21. QED
  BY <1>1, <1>2, <1>3, <1>4, <1>5, <1>6, <1>7, <1>8, <1>9, <1>10, <1>11, <1>12, <1>13, <1>14, <1>15, <1>16, <1>17, <1>18a, <1>18, <1>19, <1>20 DEF Next

-----------------------------------------------------------------------------
(* The first state.                                                        *)
LEMMA AgreeInit == Init => AgreeInv
<1> SUFFICES ASSUME Init PROVE AgreeInv OBVIOUS
<1>1. TypeInv BY TypeInit
<1>2. TornHasCause BY Values DEF Init, TornHasCause
<1>3. Alone
  BY Values DEF Init, Alone, LoadedRuns, LoneSave, OpenIsEmpty, RestoreReads, NoLaterFile, Saving
<1>4. Agreement BY DEF Init, Agreement, KeptIsActive, CopyAgrees
<1>5. QED BY <1>1, <1>2, <1>3, <1>4 DEF AgreeInv, AloneInv

(* The steps together.                                                     *)
LEMMA AgreeStep == AgreeInv /\ [Next]_vars => AgreeInv'
BY TypeStep, TornStep, LoadedStep, LoneStep, LaterStep, OpenStep, RestoreStep, KeptStep, CopyStep
   DEF AgreeInv, AloneInv, Alone, Agreement

(* Every reachable state has the inductive invariant.                      *)
LEMMA AgreeCorrect == Spec => []AgreeInv
<1>1. Init => AgreeInv BY AgreeInit
<1>2. AgreeInv /\ [Next]_vars => AgreeInv' BY AgreeStep
<1>3. QED BY <1>1, <1>2, PTL DEF Spec

(* The types of the coins file hold for every set of coins and versions,   *)
(* every number of threads and every bound.                                *)
THEOREM TypeCorrect == Spec => []TypeOK
<1>1. AgreeInv => TypeOK BY TypeParts DEF AgreeInv, AloneInv
<1>2. QED BY <1>1, AgreeCorrect, PTL

(* A file that does not parse is being rewritten, or a crash or two saves  *)
(* at once came before.                                                    *)
THEOREM TornHasCauseCorrect == Spec => []TornHasCause
<1>1. AgreeInv => TornHasCause BY DEF AgreeInv, AloneInv
<1>2. QED BY <1>1, AgreeCorrect, PTL

(* Saves that never overlap keep the registry and the file the same.       *)
THEOREM FileAgreesAloneCorrect == Spec => []FileAgreesAlone
<1>1. ~Changing => ~Opened BY DEF Changing, Opened
<1>2. AgreeInv => FileAgreesAlone
  BY <1>1 DEF AgreeInv, Agreement, CopyAgrees, KeptIsActive, FileKept, FileAgreesAlone, Agree
<1>3. QED BY <1>2, AgreeCorrect, PTL

-----------------------------------------------------------------------------
(* The precedent of one older file is that file.                           *)
LEMMA OnlyOne ==
  ASSUME NEW S, S \subseteq Int, NEW p \in S, \A v, w \in S : v = w
  PROVE  (CHOOSE v \in S : \A w \in S : w <= v) = p
<1>1. \A w \in S : w <= p OBVIOUS
<1>2. QED BY <1>1

LEMMA OlderAreVersions == TypeInv => Older \subseteq Int /\ version \notin Older
BY FileAssumption DEF TypeInv, MainTyped, Older, Versions

(* No step undoes a mishap.                                                *)
LEMMA MishapsStay == [Next]_vars => mishaps \subseteq mishaps'
<1> SUFFICES ASSUME [Next]_vars PROVE mishaps \subseteq mishaps' OBVIOUS
<1>1. CASE LoginCheck
  BY <1>1 DEF LoginCheck, Also, historyVars
<1>2. CASE CopyBundled
  BY <1>2 DEF CopyBundled, Also, historyVars
<1>3. CASE WrongPassword
  BY <1>3 DEF WrongPassword, Also, historyVars
<1>4. CASE MigrateOpen
  BY <1>4 DEF MigrateOpen, Also, historyVars
<1>5. CASE MigrateWrite
  BY <1>5 DEF MigrateWrite, Also, historyVars
<1>6. CASE MigrateRemove
  BY <1>6 DEF MigrateRemove, Also, historyVars
<1>7. CASE MigrateClose
  BY <1>7 DEF MigrateClose, Also, historyVars
<1>8. CASE Retrieve
  BY <1>8 DEF Retrieve, Also, historyVars
<1>9. CASE ResetRead
  BY <1>9 DEF ResetRead, Also, historyVars
<1>10. CASE ResetEnsure
  BY <1>10 DEF ResetEnsure, Also, historyVars
<1>11. CASE ResetCopy
  BY <1>11 DEF ResetCopy, Also, historyVars
<1>12. CASE ResetOpen
  BY <1>12 DEF ResetOpen, Also, historyVars
<1>13. CASE ResetClose
  BY <1>13 DEF ResetClose, Also, historyVars
<1>14. CASE Quit
  BY <1>14 DEF Quit, Also, historyVars
<1>15. CASE Upgrade
  BY <1>15 DEF Upgrade, Also, historyVars
<1>16. CASE Crash
  BY <1>16 DEF Crash, Also, historyVars
<1>17. ASSUME NEW t \in Threads, NEW S \in SUBSET Known[version], NEW status \in BOOLEAN, SaveRead(t, S, status)
      PROVE  mishaps \subseteq mishaps'
  BY <1>17 DEF SaveRead, Also, historyVars
<1>18a. ASSUME NEW t \in Threads, SaveSet(t) PROVE mishaps \subseteq mishaps'
  BY <1>18a DEF SaveSet, Switch, Also, historyVars
<1>18. ASSUME NEW t \in Threads, SaveOpen(t) PROVE mishaps \subseteq mishaps'
  BY <1>18 DEF SaveOpen, Also, historyVars
<1>19. ASSUME NEW t \in Threads, SaveClose(t) PROVE mishaps \subseteq mishaps'
  BY <1>19 DEF SaveClose, Also, historyVars
<1>20. CASE UNCHANGED vars
  BY <1>20 DEF vars, Also, historyVars
<1>21. QED
  BY <1>1, <1>2, <1>3, <1>4, <1>5, <1>6, <1>7, <1>8, <1>9, <1>10, <1>11, <1>12, <1>13, <1>14, <1>15, <1>16, <1>17, <1>18a, <1>18, <1>19, <1>20 DEF Next

(* Only an upgrade and the end of a migration change which files are older. *)
LEMMA OlderKept ==
  TypeInv /\ [Next]_vars /\ ~Upgrade /\ ~MigrateRemove =>
    version' = version /\ Older' = Older /\ \A v \in Older : files'[v] = files[v]
<1> SUFFICES ASSUME TypeInv, [Next]_vars, ~Upgrade, ~MigrateRemove
    PROVE version' = version /\ Older' = Older /\ \A v \in Older : files'[v] = files[v]
  OBVIOUS
<1> DEFINE Same == version' = version /\ \A v \in Versions : v # version => files'[v] = files[v]
<1>1. LoginCheck => Same
  BY DEF LoginCheck, Put, TypeInv, FilesTyped, fileVars, registryVars, historyVars
<1>2. CopyBundled => Same
  BY DEF CopyBundled, Put, TypeInv, FilesTyped, fileVars, registryVars, historyVars
<1>3. WrongPassword => Same
  BY DEF WrongPassword, Put, TypeInv, FilesTyped, fileVars, registryVars, historyVars
<1>4. MigrateOpen => Same
  BY DEF MigrateOpen, Put, TypeInv, FilesTyped, fileVars, registryVars, historyVars
<1>5. MigrateWrite => Same
  BY DEF MigrateWrite, Put, TypeInv, FilesTyped, fileVars, registryVars, historyVars
<1>6. MigrateRemove => Same
  BY DEF MigrateRemove, Put, TypeInv, FilesTyped, fileVars, registryVars, historyVars
<1>7. MigrateClose => Same
  BY DEF MigrateClose, Put, TypeInv, FilesTyped, fileVars, registryVars, historyVars
<1>8. Retrieve => Same
  BY DEF Retrieve, Put, TypeInv, FilesTyped, fileVars, registryVars, historyVars
<1>9. ResetRead => Same
  BY DEF ResetRead, Put, TypeInv, FilesTyped, fileVars, registryVars, historyVars
<1>10. ResetEnsure => Same
  BY DEF ResetEnsure, Put, TypeInv, FilesTyped, fileVars, registryVars, historyVars
<1>11. ResetCopy => Same
  BY DEF ResetCopy, Put, TypeInv, FilesTyped, fileVars, registryVars, historyVars
<1>12. ResetOpen => Same
  BY DEF ResetOpen, Put, TypeInv, FilesTyped, fileVars, registryVars, historyVars
<1>13. ResetClose => Same
  BY DEF ResetClose, Put, TypeInv, FilesTyped, fileVars, registryVars, historyVars
<1>14. Quit => Same
  BY DEF Quit, Put, TypeInv, FilesTyped, fileVars, registryVars, historyVars
<1>15. Upgrade => Same
  BY DEF Upgrade, Put, TypeInv, FilesTyped, fileVars, registryVars, historyVars
<1>16. Crash => Same
  BY DEF Crash, Put, TypeInv, FilesTyped, fileVars, registryVars, historyVars
<1>17. ASSUME NEW t \in Threads, NEW S \in SUBSET Known[version], NEW status \in BOOLEAN, SaveRead(t, S, status)
      PROVE  Same
  BY <1>17 DEF SaveRead, Put, TypeInv, FilesTyped, fileVars, registryVars, historyVars
<1>18a. ASSUME NEW t \in Threads, SaveSet(t) PROVE Same
  BY <1>18a DEF SaveSet, Switch, Put, TypeInv, FilesTyped, fileVars, registryVars, historyVars
<1>18. ASSUME NEW t \in Threads, SaveOpen(t) PROVE Same
  BY <1>18 DEF SaveOpen, Put, TypeInv, FilesTyped, fileVars, registryVars, historyVars
<1>19. ASSUME NEW t \in Threads, SaveClose(t) PROVE Same
  BY <1>19 DEF SaveClose, Put, TypeInv, FilesTyped, fileVars, registryVars, historyVars
<1>20. UNCHANGED vars => Same
  BY DEF vars, Put, TypeInv, FilesTyped, fileVars, registryVars, historyVars
<1>21. Same
  BY <1>1, <1>2, <1>3, <1>4, <1>5, <1>6, <1>7, <1>8, <1>9, <1>10, <1>11, <1>12, <1>13, <1>14, <1>15, <1>16, <1>17, <1>18a, <1>18, <1>19, <1>20 DEF Next
<1>22. version \in Int BY FileAssumption DEF TypeInv, MainTyped, Versions
<1>23. QED
  BY <1>21, <1>22 DEF Older, Versions

(* Without a mishap older files are there and valid.                      *)
LEMMA OlderValid ==
  TypeInv /\ TornHasCause /\ mishaps = {} => \A p \in Older : files[p].st = "valid"
<1> SUFFICES ASSUME TypeInv, TornHasCause, mishaps = {}, NEW p \in Older
    PROVE files[p].st = "valid"
  OBVIOUS
<1>1. p \in Versions /\ p # version /\ files[p] # Absent
  BY OlderAreVersions DEF Older
<1>2. files[p] \in Files /\ (files[p].st # "valid" => files[p].on = {})
  BY <1>1 DEF TypeInv, FilesTyped
<1>3. files[p].st # "torn" BY <1>1 DEF TornHasCause
<1>4. files[p].st # "absent" BY <1>1, <1>2 DEF Files, Absent
<1>5. QED BY <1>2, <1>3, <1>4 DEF Files

(* Which older files there are in each phase.                              *)
LEMMA OlderThereStep == FileInv /\ [Next]_vars /\ mishaps' = {} => OlderThere'
<1> SUFFICES ASSUME FileInv, [Next]_vars, mishaps' = {} PROVE OlderThere' OBVIOUS
<1>a. mishaps = {} /\ OneOlder /\ OlderThere /\ FileThere /\ SessionLoaded /\ NothingLost
  BY MishapsStay DEF FileInv, Clean
<1>b. ~Upgrade /\ ~MigrateRemove =>
        version' = version /\ Older' = Older /\ \A v \in Older : files'[v] = files[v]
  BY OlderKept DEF FileInv, AgreeInv, AloneInv
<1>d. /\ Upgrade => phase = "closed" /\ phase' = "closed"
      /\ MigrateRemove => phase = "remove" /\ phase' = "finish"
  BY DEF Upgrade, MigrateRemove, registryVars
<1>c. \A p \in Older : Precedent = p /\ files[p] # Absent
  BY <1>a, OnlyOne, OlderAreVersions DEF FileInv, AgreeInv, AloneInv, OneOlder, Precedent, Older
<1>1. CASE LoginCheck
  BY <1>1, <1>a, <1>b, <1>c, <1>d DEF LoginCheck, Stopped, Also, fileVars, registryVars, historyVars, OlderThere, Resetting, Login
<1>2. CASE CopyBundled
  BY <1>2, <1>a, <1>b, <1>c, <1>d DEF CopyBundled, Stopped, Also, fileVars, registryVars, historyVars, OlderThere, Resetting, Login
<1>3. CASE WrongPassword
  BY <1>3, <1>a, <1>b, <1>c, <1>d DEF WrongPassword, Stopped, Also, fileVars, registryVars, historyVars, OlderThere, Resetting, Login
<1>4. CASE MigrateOpen
  <2>1. Older # {} => Precedent \in Older /\ files[Precedent].st = "valid"
    BY <1>a, <1>c, OlderValid DEF FileInv, AgreeInv, AloneInv
  <2>2. File.st = "valid" /\ phase = "migrate"
    BY <1>4, <1>a DEF MigrateOpen, FileThere
  <2>3. Older' = Older
    BY <1>b, <1>d, <2>2
  <2>4. IF Older = {} THEN phase' = "retrieve" ELSE phase' = "flush"
    BY <1>4, <2>1, <2>2 DEF MigrateOpen
  <2>5. QED
    BY <2>3, <2>4 DEF OlderThere, Resetting
<1>5. CASE MigrateWrite
  BY <1>5, <1>a, <1>b, <1>c, <1>d DEF MigrateWrite, Stopped, Also, fileVars, registryVars, historyVars, OlderThere, Resetting, Login
<1>6. CASE MigrateRemove
  <2>1. files' = [files EXCEPT ![Precedent] = Absent] /\ version' = version /\ phase' = "finish"
    BY <1>6 DEF MigrateRemove, Also
  <2>2. \A v \in Versions : v # Precedent => files'[v] = files[v]
    BY <2>1 DEF FileInv, AgreeInv, AloneInv, TypeInv, FilesTyped
  <2>3. Precedent \in Older /\ Older \subseteq Versions
    BY <1>6, <1>a, <1>c DEF MigrateRemove, OlderThere, Older
  <2>4. files'[Precedent] = Absent
    BY <2>1, <2>3 DEF FileInv, AgreeInv, AloneInv, TypeInv, FilesTyped
  <2>5. Older' = {}
    BY <2>1, <2>2, <2>4, <1>c DEF Older
  <2>6. QED
    BY <2>1, <2>5 DEF OlderThere
<1>7. CASE MigrateClose
  BY <1>7, <1>a, <1>b, <1>c, <1>d DEF MigrateClose, Stopped, Also, fileVars, registryVars, historyVars, OlderThere, Resetting, Login
<1>8. CASE Retrieve
  BY <1>8, <1>a, <1>b, <1>c, <1>d DEF Retrieve, Stopped, Also, fileVars, registryVars, historyVars, OlderThere, Resetting, Login
<1>9. CASE ResetRead
  BY <1>9, <1>a, <1>b, <1>c, <1>d DEF ResetRead, Stopped, Also, fileVars, registryVars, historyVars, OlderThere, Resetting, Login
<1>10. CASE ResetEnsure
  BY <1>10, <1>a, <1>b, <1>c, <1>d DEF ResetEnsure, Stopped, Also, fileVars, registryVars, historyVars, OlderThere, Resetting, Login
<1>11. CASE ResetCopy
  BY <1>11, <1>a, <1>b, <1>c, <1>d DEF ResetCopy, Stopped, Also, fileVars, registryVars, historyVars, OlderThere, Resetting, Login
<1>12. CASE ResetOpen
  BY <1>12, <1>a, <1>b, <1>c, <1>d DEF ResetOpen, Stopped, Also, fileVars, registryVars, historyVars, OlderThere, Resetting, Login
<1>13. CASE ResetClose
  BY <1>13, <1>a, <1>b, <1>c, <1>d DEF ResetClose, Stopped, Also, fileVars, registryVars, historyVars, OlderThere, Resetting, Login
<1>14. CASE Quit
  BY <1>14, <1>a, <1>b, <1>c, <1>d DEF Quit, Stopped, Also, fileVars, registryVars, historyVars, OlderThere, Resetting, Login
<1>15. CASE Upgrade
  BY <1>15, <1>a, <1>b, <1>c, <1>d DEF Upgrade, Stopped, Also, fileVars, registryVars, historyVars, OlderThere, Resetting, Login
<1>16. CASE Crash
  BY <1>16, <1>a, <1>b, <1>c, <1>d DEF Crash, Stopped, Also, fileVars, registryVars, historyVars, OlderThere, Resetting, Login
<1>17. ASSUME NEW t \in Threads, NEW S \in SUBSET Known[version], NEW status \in BOOLEAN, SaveRead(t, S, status)
      PROVE  OlderThere'
  BY <1>17, <1>a, <1>b, <1>c, <1>d DEF SaveRead, Stopped, Also, fileVars, registryVars, historyVars, OlderThere, Resetting, Login
<1>18a. ASSUME NEW t \in Threads, SaveSet(t) PROVE OlderThere'
  BY <1>18a, <1>a, <1>b, <1>c, <1>d DEF SaveSet, Switch, Stopped, Also, fileVars, registryVars, historyVars, OlderThere, Resetting, Login
<1>18. ASSUME NEW t \in Threads, SaveOpen(t) PROVE OlderThere'
  BY <1>18, <1>a, <1>b, <1>c, <1>d DEF SaveOpen, Stopped, Also, fileVars, registryVars, historyVars, OlderThere, Resetting, Login
<1>19. ASSUME NEW t \in Threads, SaveClose(t) PROVE OlderThere'
  BY <1>19, <1>a, <1>b, <1>c, <1>d DEF SaveClose, Stopped, Also, fileVars, registryVars, historyVars, OlderThere, Resetting, Login
<1>20. CASE UNCHANGED vars
  BY <1>20, <1>a, <1>b, <1>c, <1>d DEF vars, Stopped, Also, fileVars, registryVars, historyVars, OlderThere, Resetting, Login
<1>21. QED
  BY <1>1, <1>2, <1>3, <1>4, <1>5, <1>6, <1>7, <1>8, <1>9, <1>10, <1>11, <1>12, <1>13, <1>14, <1>15, <1>16, <1>17, <1>18a, <1>18, <1>19, <1>20 DEF Next

(* A session without a mishap has a registry.                              *)
LEMMA SessionStep == FileInv /\ [Next]_vars /\ mishaps' = {} => SessionLoaded'
<1> SUFFICES ASSUME FileInv, [Next]_vars, mishaps' = {} PROVE SessionLoaded' OBVIOUS
<1>a. mishaps = {} /\ OneOlder /\ OlderThere /\ FileThere /\ SessionLoaded /\ NothingLost
  BY MishapsStay DEF FileInv, Clean
<1>b. ~Upgrade /\ ~MigrateRemove =>
        version' = version /\ Older' = Older /\ \A v \in Older : files'[v] = files[v]
  BY OlderKept DEF FileInv, AgreeInv, AloneInv
<1>d. /\ Upgrade => phase = "closed" /\ phase' = "closed"
      /\ MigrateRemove => phase = "remove" /\ phase' = "finish"
  BY DEF Upgrade, MigrateRemove, registryVars
<1>c. \A p \in Older : Precedent = p /\ files[p] # Absent
  BY <1>a, OnlyOne, OlderAreVersions DEF FileInv, AgreeInv, AloneInv, OneOlder, Precedent, Older
<1>1. CASE LoginCheck
  BY <1>1, <1>a, <1>b, <1>c, <1>d DEF LoginCheck, Stopped, Also, fileVars, registryVars, historyVars, SessionLoaded, FileThere, Resetting, File
<1>2. CASE CopyBundled
  BY <1>2, <1>a, <1>b, <1>c, <1>d DEF CopyBundled, Stopped, Also, fileVars, registryVars, historyVars, SessionLoaded, FileThere, Resetting, File
<1>3. CASE WrongPassword
  BY <1>3, <1>a, <1>b, <1>c, <1>d DEF WrongPassword, Stopped, Also, fileVars, registryVars, historyVars, SessionLoaded, FileThere, Resetting, File
<1>4. CASE MigrateOpen
  BY <1>4, <1>a, <1>b, <1>c, <1>d DEF MigrateOpen, Stopped, Also, fileVars, registryVars, historyVars, SessionLoaded, FileThere, Resetting, File
<1>5. CASE MigrateWrite
  BY <1>5, <1>a, <1>b, <1>c, <1>d DEF MigrateWrite, Stopped, Also, fileVars, registryVars, historyVars, SessionLoaded, FileThere, Resetting, File
<1>6. CASE MigrateRemove
  BY <1>6, <1>a, <1>b, <1>c, <1>d DEF MigrateRemove, Stopped, Also, fileVars, registryVars, historyVars, SessionLoaded, FileThere, Resetting, File
<1>7. CASE MigrateClose
  BY <1>7, <1>a, <1>b, <1>c, <1>d DEF MigrateClose, Stopped, Also, fileVars, registryVars, historyVars, SessionLoaded, FileThere, Resetting, File
<1>8. CASE Retrieve
  BY <1>8, <1>a, <1>b, <1>c, <1>d DEF Retrieve, Stopped, Also, fileVars, registryVars, historyVars, SessionLoaded, FileThere, Resetting, File
<1>9. CASE ResetRead
  BY <1>9, <1>a, <1>b, <1>c, <1>d DEF ResetRead, Stopped, Also, fileVars, registryVars, historyVars, SessionLoaded, FileThere, Resetting, File
<1>10. CASE ResetEnsure
  BY <1>10, <1>a, <1>b, <1>c, <1>d DEF ResetEnsure, Stopped, Also, fileVars, registryVars, historyVars, SessionLoaded, FileThere, Resetting, File
<1>11. CASE ResetCopy
  BY <1>11, <1>a, <1>b, <1>c, <1>d DEF ResetCopy, Stopped, Also, fileVars, registryVars, historyVars, SessionLoaded, FileThere, Resetting, File
<1>12. CASE ResetOpen
  BY <1>12, <1>a, <1>b, <1>c, <1>d DEF ResetOpen, Stopped, Also, fileVars, registryVars, historyVars, SessionLoaded, FileThere, Resetting, File
<1>13. CASE ResetClose
  BY <1>13, <1>a, <1>b, <1>c, <1>d DEF ResetClose, Stopped, Also, fileVars, registryVars, historyVars, SessionLoaded, FileThere, Resetting, File
<1>14. CASE Quit
  BY <1>14, <1>a, <1>b, <1>c, <1>d DEF Quit, Stopped, Also, fileVars, registryVars, historyVars, SessionLoaded, FileThere, Resetting, File
<1>15. CASE Upgrade
  BY <1>15, <1>a, <1>b, <1>c, <1>d DEF Upgrade, Stopped, Also, fileVars, registryVars, historyVars, SessionLoaded, FileThere, Resetting, File
<1>16. CASE Crash
  BY <1>16, <1>a, <1>b, <1>c, <1>d DEF Crash, Stopped, Also, fileVars, registryVars, historyVars, SessionLoaded, FileThere, Resetting, File
<1>17. ASSUME NEW t \in Threads, NEW S \in SUBSET Known[version], NEW status \in BOOLEAN, SaveRead(t, S, status)
      PROVE  SessionLoaded'
  BY <1>17, <1>a, <1>b, <1>c, <1>d DEF SaveRead, Stopped, Also, fileVars, registryVars, historyVars, SessionLoaded, FileThere, Resetting, File
<1>18a. ASSUME NEW t \in Threads, SaveSet(t) PROVE SessionLoaded'
  BY <1>18a, <1>a, <1>b, <1>c, <1>d DEF SaveSet, Switch, Stopped, Also, fileVars, registryVars, historyVars, SessionLoaded, FileThere, Resetting, File
<1>18. ASSUME NEW t \in Threads, SaveOpen(t) PROVE SessionLoaded'
  BY <1>18, <1>a, <1>b, <1>c, <1>d DEF SaveOpen, Stopped, Also, fileVars, registryVars, historyVars, SessionLoaded, FileThere, Resetting, File
<1>19. ASSUME NEW t \in Threads, SaveClose(t) PROVE SessionLoaded'
  BY <1>19, <1>a, <1>b, <1>c, <1>d DEF SaveClose, Stopped, Also, fileVars, registryVars, historyVars, SessionLoaded, FileThere, Resetting, File
<1>20. CASE UNCHANGED vars
  BY <1>20, <1>a, <1>b, <1>c, <1>d DEF vars, Stopped, Also, fileVars, registryVars, historyVars, SessionLoaded, FileThere, Resetting, File
<1>21. QED
  BY <1>1, <1>2, <1>3, <1>4, <1>5, <1>6, <1>7, <1>8, <1>9, <1>10, <1>11, <1>12, <1>13, <1>14, <1>15, <1>16, <1>17, <1>18a, <1>18, <1>19, <1>20 DEF Next

(* There is at most one older file.                                        *)
LEMMA OneOlderStep == FileInv /\ [Next]_vars /\ mishaps' = {} => OneOlder'
<1> SUFFICES ASSUME FileInv, [Next]_vars, mishaps' = {} PROVE OneOlder' OBVIOUS
<1>a. mishaps = {} /\ OneOlder /\ OlderThere /\ FileThere /\ SessionLoaded /\ NothingLost
  BY MishapsStay DEF FileInv, Clean
<1>b. ~Upgrade /\ ~MigrateRemove =>
        version' = version /\ Older' = Older /\ \A v \in Older : files'[v] = files[v]
  BY OlderKept DEF FileInv, AgreeInv, AloneInv
<1>1. CASE Upgrade
  <2>1. version' = version + 1 /\ files' = files /\ (File = Absent \/ Older = {})
    BY <1>1 DEF Upgrade, Also, fileVars
  <2>2. version \in Int /\ version \in Versions
    BY FileAssumption DEF FileInv, AgreeInv, AloneInv, TypeInv, MainTyped, Versions
  <2>3. Older' \subseteq Older \cup (IF File = Absent THEN {} ELSE {version})
    BY <2>1, <2>2 DEF Older, File, Versions
  <2>4. QED
    BY <1>a, <2>1, <2>3 DEF OneOlder
<1>2. CASE MigrateRemove
  <2>1. version' = version /\ \A v \in Versions : v # Precedent => files'[v] = files[v]
    BY <1>2 DEF MigrateRemove, FileInv, AgreeInv, AloneInv, TypeInv, FilesTyped
  <2>2. Older' \subseteq Older \cup {Precedent}
    BY <2>1 DEF Older
  <2>3. Older # {}
    BY <1>2, <1>a DEF MigrateRemove, OlderThere
  <2>4. \A p \in Older : Precedent = p
    BY <1>a, OnlyOne, OlderAreVersions DEF FileInv, AgreeInv, AloneInv, OneOlder, Precedent
  <2>5. QED
    BY <1>a, <2>2, <2>3, <2>4 DEF OneOlder
<1>3. CASE ~Upgrade /\ ~MigrateRemove
  BY <1>a, <1>b, <1>3 DEF OneOlder
<1>4. QED
  BY <1>1, <1>2, <1>3

(* The file of the version is there when a migration or a retrieve starts. *)
LEMMA FileThereStep == FileInv /\ [Next]_vars /\ mishaps' = {} => FileThere'
<1> SUFFICES ASSUME FileInv, [Next]_vars, mishaps' = {} PROVE FileThere' OBVIOUS
<1>a. mishaps = {} /\ OneOlder /\ OlderThere /\ FileThere /\ SessionLoaded /\ NothingLost
  BY MishapsStay DEF FileInv, Clean
<1>b. ~Upgrade /\ ~MigrateRemove =>
        version' = version /\ Older' = Older /\ \A v \in Older : files'[v] = files[v]
  BY OlderKept DEF FileInv, AgreeInv, AloneInv
<1>1. TypeInv' /\ TornHasCause'
  BY AgreeStep DEF FileInv, AgreeInv, AloneInv
<1>2. SUFFICES ASSUME phase' \in {"migrate", "retrieve"} PROVE File' # Absent
  <2>0. SUFFICES ASSUME phase' \in {"migrate", "retrieve"}, File' # Absent PROVE File'.st = "valid"
    BY DEF FileThere
  <2>1. File'.st # "torn"
    <3>1. ~Opened'
      BY <1>1, <2>0, Values DEF TypeInv, SavesTyped, Opened, Login
    <3>2. ~Rewriting'
      BY <2>0, <3>1 DEF Rewriting, Resetting
    <3>3. version' \in Versions
      BY <1>1 DEF TypeInv, MainTyped
    <3>4. QED
      BY <1>1, <3>2, <3>3 DEF TornHasCause, File
  <2>2. File' \in Files /\ (File'.st # "valid" => File'.on = {})
    BY <1>1 DEF TypeInv, FilesTyped, MainTyped, File
  <2>3. File'.st # "absent"
    BY <2>0, <2>2 DEF Files, Absent
  <2>4. QED
    BY <2>1, <2>2, <2>3 DEF Files
<1>3. CASE LoginCheck
  BY <1>3, <1>a, <1>2, Values, Listed DEF LoginCheck, Stopped, Put, File, FileThere, fileVars, registryVars, historyVars, FileInv, AgreeInv, AloneInv, TypeInv, FilesTyped, SavesTyped, MainTyped, Login, Resetting
<1>4. CASE CopyBundled
  BY <1>4, <1>a, <1>2, Values, Listed DEF CopyBundled, Stopped, Put, File, FileThere, fileVars, registryVars, historyVars, FileInv, AgreeInv, AloneInv, TypeInv, FilesTyped, SavesTyped, MainTyped, Login, Resetting
<1>5. CASE WrongPassword
  BY <1>5, <1>a, <1>2, Values, Listed DEF WrongPassword, Stopped, Put, File, FileThere, fileVars, registryVars, historyVars, FileInv, AgreeInv, AloneInv, TypeInv, FilesTyped, SavesTyped, MainTyped, Login, Resetting
<1>6. CASE MigrateOpen
  BY <1>6, <1>a, <1>2, Values, Listed DEF MigrateOpen, Stopped, Put, File, FileThere, fileVars, registryVars, historyVars, FileInv, AgreeInv, AloneInv, TypeInv, FilesTyped, SavesTyped, MainTyped, Login, Resetting
<1>7. CASE MigrateWrite
  BY <1>7, <1>a, <1>2, Values, Listed DEF MigrateWrite, Stopped, Put, File, FileThere, fileVars, registryVars, historyVars, FileInv, AgreeInv, AloneInv, TypeInv, FilesTyped, SavesTyped, MainTyped, Login, Resetting
<1>8. CASE MigrateRemove
  BY <1>8, <1>a, <1>2, Values, Listed DEF MigrateRemove, Stopped, Put, File, FileThere, fileVars, registryVars, historyVars, FileInv, AgreeInv, AloneInv, TypeInv, FilesTyped, SavesTyped, MainTyped, Login, Resetting
<1>9. CASE MigrateClose
  BY <1>9, <1>a, <1>2, Values, Listed DEF MigrateClose, Stopped, Put, File, FileThere, fileVars, registryVars, historyVars, FileInv, AgreeInv, AloneInv, TypeInv, FilesTyped, SavesTyped, MainTyped, Login, Resetting
<1>10. CASE Retrieve
  BY <1>10, <1>a, <1>2, Values, Listed DEF Retrieve, Stopped, Put, File, FileThere, fileVars, registryVars, historyVars, FileInv, AgreeInv, AloneInv, TypeInv, FilesTyped, SavesTyped, MainTyped, Login, Resetting
<1>11. CASE ResetRead
  BY <1>11, <1>a, <1>2, Values, Listed DEF ResetRead, Stopped, Put, File, FileThere, fileVars, registryVars, historyVars, FileInv, AgreeInv, AloneInv, TypeInv, FilesTyped, SavesTyped, MainTyped, Login, Resetting
<1>12. CASE ResetEnsure
  BY <1>12, <1>a, <1>2, Values, Listed DEF ResetEnsure, Stopped, Put, File, FileThere, fileVars, registryVars, historyVars, FileInv, AgreeInv, AloneInv, TypeInv, FilesTyped, SavesTyped, MainTyped, Login, Resetting
<1>13. CASE ResetCopy
  BY <1>13, <1>a, <1>2, Values, Listed DEF ResetCopy, Stopped, Put, File, FileThere, fileVars, registryVars, historyVars, FileInv, AgreeInv, AloneInv, TypeInv, FilesTyped, SavesTyped, MainTyped, Login, Resetting
<1>14. CASE ResetOpen
  BY <1>14, <1>a, <1>2, Values, Listed DEF ResetOpen, Stopped, Put, File, FileThere, fileVars, registryVars, historyVars, FileInv, AgreeInv, AloneInv, TypeInv, FilesTyped, SavesTyped, MainTyped, Login, Resetting
<1>15. CASE ResetClose
  BY <1>15, <1>a, <1>2, Values, Listed DEF ResetClose, Stopped, Put, File, FileThere, fileVars, registryVars, historyVars, FileInv, AgreeInv, AloneInv, TypeInv, FilesTyped, SavesTyped, MainTyped, Login, Resetting
<1>16. CASE Quit
  BY <1>16, <1>a, <1>2, Values, Listed DEF Quit, Stopped, Put, File, FileThere, fileVars, registryVars, historyVars, FileInv, AgreeInv, AloneInv, TypeInv, FilesTyped, SavesTyped, MainTyped, Login, Resetting
<1>17. CASE Upgrade
  BY <1>17, <1>a, <1>2, Values, Listed DEF Upgrade, Stopped, Put, File, FileThere, fileVars, registryVars, historyVars, FileInv, AgreeInv, AloneInv, TypeInv, FilesTyped, SavesTyped, MainTyped, Login, Resetting
<1>18. CASE Crash
  BY <1>18, <1>a, <1>2, Values, Listed DEF Crash, Stopped, Put, File, FileThere, fileVars, registryVars, historyVars, FileInv, AgreeInv, AloneInv, TypeInv, FilesTyped, SavesTyped, MainTyped, Login, Resetting
<1>19. ASSUME NEW t \in Threads, NEW S \in SUBSET Known[version], NEW status \in BOOLEAN, SaveRead(t, S, status)
      PROVE  File' # Absent
  BY <1>19, <1>a, <1>2, Values, Listed DEF SaveRead, Stopped, Put, File, FileThere, fileVars, registryVars, historyVars, FileInv, AgreeInv, AloneInv, TypeInv, FilesTyped, SavesTyped, MainTyped, Login, Resetting
<1>20a. ASSUME NEW t \in Threads, SaveSet(t) PROVE File' # Absent
  BY <1>20a, <1>a, <1>2, Values, Listed DEF SaveSet, Switch, Stopped, Put, File, FileThere, fileVars, registryVars, historyVars, FileInv, AgreeInv, AloneInv, TypeInv, FilesTyped, SavesTyped, MainTyped, Login, Resetting
<1>20. ASSUME NEW t \in Threads, SaveOpen(t) PROVE File' # Absent
  BY <1>20, <1>a, <1>2, Values, Listed DEF SaveOpen, Stopped, Put, File, FileThere, fileVars, registryVars, historyVars, FileInv, AgreeInv, AloneInv, TypeInv, FilesTyped, SavesTyped, MainTyped, Login, Resetting
<1>21. ASSUME NEW t \in Threads, SaveClose(t) PROVE File' # Absent
  BY <1>21, <1>a, <1>2, Values, Listed DEF SaveClose, Stopped, Put, File, FileThere, fileVars, registryVars, historyVars, FileInv, AgreeInv, AloneInv, TypeInv, FilesTyped, SavesTyped, MainTyped, Login, Resetting
<1>22. CASE UNCHANGED vars
  BY <1>22, <1>a, <1>2, Values, Listed DEF vars, Stopped, Put, File, FileThere, fileVars, registryVars, historyVars, FileInv, AgreeInv, AloneInv, TypeInv, FilesTyped, SavesTyped, MainTyped, Login, Resetting
<1>23. QED
  BY <1>3, <1>4, <1>5, <1>6, <1>7, <1>8, <1>9, <1>10, <1>11, <1>12, <1>13, <1>14, <1>15, <1>16, <1>17, <1>18, <1>19, <1>20a, <1>20, <1>21, <1>22 DEF Next

(* What the next login needs stays recorded.                               *)
LEMMA NothingLostStep == FileInv /\ [Next]_vars /\ mishaps' = {} => NothingLost'
<1> SUFFICES ASSUME FileInv, [Next]_vars, mishaps' = {} PROVE NothingLost' OBVIOUS
<1>a. mishaps = {} /\ OneOlder /\ OlderThere /\ FileThere /\ SessionLoaded /\ NothingLost
  BY MishapsStay DEF FileInv, Clean
<1>b. ~Upgrade /\ ~MigrateRemove =>
        version' = version /\ Older' = Older /\ \A v \in Older : files'[v] = files[v]
  BY OlderKept DEF FileInv, AgreeInv, AloneInv
<1>d. /\ Upgrade => phase = "closed" /\ phase' = "closed"
      /\ MigrateRemove => phase = "remove" /\ phase' = "finish"
  BY DEF Upgrade, MigrateRemove, registryVars
<1>c. Older # {} => Precedent \in Older /\ \A q \in Older : q = Precedent
  BY <1>a, OnlyOne, OlderAreVersions DEF FileInv, AgreeInv, AloneInv, OneOlder, Precedent
<1>f. ~Upgrade /\ ~MigrateRemove =>
        Recorded' = (IF Older # {} THEN files[Precedent].on ELSE File'.on) \cup Protected
  <2>1. SUFFICES ASSUME ~Upgrade, ~MigrateRemove
                 PROVE Recorded' = (IF Older # {} THEN files[Precedent].on ELSE File'.on) \cup Protected
    OBVIOUS
  <2>2. Older' = Older /\ \A v \in Older : files'[v] = files[v]
    BY <1>b, <2>1
  <2>3. Older # {} => Precedent' = Precedent
    BY <1>a, <1>c, <2>2, OnlyOne, OlderAreVersions
       DEF FileInv, AgreeInv, AloneInv, OneOlder, Precedent
  <2>4. QED
    BY <1>c, <2>2, <2>3 DEF Recorded
<1>g. Recorded = (IF Older # {} THEN files[Precedent].on ELSE File.on) \cup Protected
  BY DEF Recorded
<1>h. TypeInv /\ TornHasCause /\ Alone /\ Agreement /\ version \in Versions /\ files \in [Versions -> Files]
  BY DEF FileInv, AgreeInv, AloneInv, TypeInv, MainTyped, FilesTyped
<1>1. CASE LoginCheck
  <2>1. phase = "closed" /\ kept' = kept /\ pending' = pending /\ phase' \in {"copy", "migrate"}
          /\ (phase' = "copy" => File = Absent) /\ (phase' = "migrate" => File' = File)
    BY <1>1 DEF LoginCheck, registryVars, File
  <2>2. phase' = "copy" => File'.on = {} /\ File.on = {}
    BY <1>1, <1>h, Values DEF LoginCheck, Put, File
  <2>3. QED
    BY <1>a, <1>b, <1>d, <1>f, <1>g, <2>1, <2>2 DEF NothingLost, Resetting
<1>2. CASE CopyBundled
  <2>1. phase = "copy" /\ kept' = kept /\ phase' = "migrate"
    BY <1>2 DEF CopyBundled, registryVars
  <2>2. QED
    BY <1>a, <1>d, <1>f, <1>g, <2>1 DEF NothingLost, Resetting
<1>3. CASE WrongPassword
  <2>1. phase = "migrate" /\ kept' = kept /\ phase' = "closed" /\ File' = File
    BY <1>3 DEF WrongPassword, registryVars, fileVars, File
  <2>2. QED
    BY <1>a, <1>d, <1>f, <1>g, <2>1 DEF NothingLost, Resetting
<1>4. CASE MigrateOpen
  <2>1. phase = "migrate" /\ kept' = kept /\ version' = version /\ kept \subseteq Recorded
    BY <1>4, <1>a DEF MigrateOpen, registryVars, NothingLost
  <2>2. CASE phase' = "retrieve"
    <3>1. File' = File
      BY <1>4, <2>2 DEF MigrateOpen, fileVars, File
    <3>2. QED
      BY <1>d, <1>f, <1>g, <2>1, <2>2, <3>1 DEF NothingLost, Resetting
  <2>3. CASE phase' = "flush"
    <3>1. pending' = Migrated /\ Older # {}
      BY <1>4, <2>3 DEF MigrateOpen
    <3>2. kept \subseteq files[Precedent].on \cup Protected
      BY <1>g, <2>1, <3>1
    <3>3. files[Precedent].on \subseteq Known[Precedent] /\ files[Precedent].on \subseteq Coins
      <4>1. Precedent \in Versions BY <1>c, <3>1 DEF Older
      <4>2. QED BY <1>h, <4>1, Listed DEF TypeInv, FilesTyped
    <3>4. Known[version] \subseteq Coins /\ kept \subseteq Coins
      BY <1>h, Listed DEF TypeInv, MainTyped
    <3>5. kept \cap Known[version] \subseteq Migrated \cup Protected
      BY <3>2, <3>3, <3>4 DEF Migrated
    <3>6. QED
      BY <2>1, <2>3, <3>1, <3>5 DEF NothingLost, Resetting
  <2>4. QED
    BY <1>4, <2>2, <2>3 DEF MigrateOpen
<1>5. CASE MigrateWrite
  BY <1>5, <1>a DEF MigrateWrite, registryVars, NothingLost, Resetting
<1>6. CASE MigrateRemove
  BY <1>6, <1>a DEF MigrateRemove, registryVars, NothingLost, Resetting
<1>7. CASE MigrateClose
  <2>1. phase = "finish" /\ kept' = kept \cap Known[version] /\ phase' = "retrieve" /\ Put(Valid(pending))
          /\ version' = version
    BY <1>7 DEF MigrateClose
  <2>2. File' = Valid(pending) /\ pending \subseteq Coins
    BY <1>h, <2>1, Listed DEF Put, File, TypeInv, MainTyped
  <2>3. File'.on = pending
    BY <2>2, Values
  <2>4. Older = {}
    BY <1>a, <2>1 DEF OlderThere
  <2>5. QED
    BY <1>a, <1>d, <1>f, <2>1, <2>3, <2>4 DEF NothingLost, Resetting
<1>8. CASE Retrieve
  BY <1>8 DEF Retrieve, NothingLost, Resetting
<1>i. ASSUME phase = "run", ~Opened PROVE Older = {} /\ File.st = "valid" /\ kept \subseteq File.on \cup Protected
  <2>1. loaded /\ Older = {} BY <1>a, <1>i DEF SessionLoaded, OlderThere
  <2>2. FileKept
    BY <1>a, <1>h, <1>i, <2>1 DEF Agreement, CopyAgrees
  <2>3. QED BY <2>1, <2>2 DEF FileKept, Valid
<1>j. ASSUME phase = "run", ~Opened, phase' = "closed", UNCHANGED <<version, files, kept>>,
             ~Upgrade, ~MigrateRemove
      PROVE NothingLost'
  <2>1. File' = File BY <1>j DEF File
  <2>2. QED BY <1>f, <1>i, <1>j, <2>1 DEF NothingLost, Resetting
<1>9. CASE ResetRead
  <2>1. phase = "run" /\ UNCHANGED <<version, kept>> /\ ~Opened
    BY <1>9 DEF ResetRead, Also, Opened, Saving
  <2>2. File.st # "torn"
    BY <1>i, <2>1
  <2>3. pending' = File.on /\ phase' = "ensure"
    BY <1>9, <2>2 DEF ResetRead
  <2>4. QED
    BY <1>i, <2>1, <2>3 DEF NothingLost, Resetting
<1>10. CASE ResetEnsure
  BY <1>10, <1>a DEF ResetEnsure, registryVars, NothingLost, Resetting
<1>11. CASE ResetCopy
  BY <1>11, <1>a DEF ResetCopy, registryVars, NothingLost, Resetting
<1>12. CASE ResetOpen
  <2>1. phase = "restore" /\ UNCHANGED kept /\ kept \subseteq pending \cup Protected
    BY <1>12, <1>a DEF ResetOpen, NothingLost, Resetting
  <2>2. File.st = "valid"
    BY <1>a, <1>h, <2>1 DEF Alone, RestoreReads, File
  <2>3. pending' = File.on \cup (pending \cap Known[version]) /\ phase' = "rewrite"
    BY <1>12, <2>2 DEF ResetOpen
  <2>4. pending \subseteq Known[version]
    BY <1>h DEF TypeInv, MainTyped
  <2>5. QED
    BY <2>1, <2>3, <2>4 DEF NothingLost, Resetting
<1>13. CASE ResetClose
  <2>1. phase = "rewrite" /\ UNCHANGED <<version, kept>> /\ phase' = "closed" /\ Put(Valid(pending))
    BY <1>13 DEF ResetClose, Stopped
  <2>2. File' = Valid(pending) /\ pending \subseteq Coins
    BY <1>h, <2>1, Listed DEF Put, File, TypeInv, MainTyped
  <2>3. File'.on = pending
    BY <2>2, Values
  <2>4. Older = {} /\ kept \subseteq pending \cup Protected
    BY <1>a, <2>1 DEF OlderThere, NothingLost, Resetting
  <2>5. QED
    BY <1>d, <1>f, <2>1, <2>3, <2>4 DEF NothingLost, Resetting
<1>14. CASE Quit
  <2>1. phase = "run" /\ phase' = "closed" /\ ~Opened /\ UNCHANGED <<version, files, kept>>
    BY <1>14 DEF Quit, Stopped, Opened, Saving
  <2>2. QED
    BY <1>d, <1>j, <2>1
<1>15. CASE Upgrade
  <2>1. phase = "closed" /\ phase' = "closed" /\ UNCHANGED <<files, kept>> /\ kept \subseteq Recorded
    BY <1>15, <1>a DEF Upgrade, fileVars, registryVars, NothingLost
  <2>2. version' = version + 1 /\ (File = Absent \/ Older = {})
    BY <1>15 DEF Upgrade, Also
  <2>3. version \in Int /\ version' \in Versions /\ version < version'
    BY <1>h, <1>15, FileAssumption DEF Upgrade, Versions
  <2>4. File' = Absent
    BY <1>h, <2>1, <2>3 DEF Alone, NoLaterFile, File
  <2>5. Older' = Older \cup (IF File = Absent THEN {} ELSE {version})
    BY <1>h, <2>1, <2>2, <2>3 DEF Older, File, Versions
  <2>6. kept \subseteq Recorded'
    <3>1. CASE File # Absent
      <4>1. Older' = {version} /\ Older = {}
        BY <2>2, <2>5, <3>1
      <4>2. Precedent' = version
        BY <4>1, <2>3, OnlyOne DEF Precedent
      <4>3. QED
        BY <1>g, <2>1, <4>1, <4>2 DEF Recorded, File
    <3>2. CASE File = Absent /\ Older # {}
      <4>1. Older' = Older
        BY <2>5, <3>2
      <4>2. Precedent' = Precedent
        BY <1>a, <1>c, <1>h, <3>2, <4>1, OnlyOne, OlderAreVersions DEF OneOlder, Precedent
      <4>3. QED
        BY <1>g, <2>1, <3>2, <4>1, <4>2 DEF Recorded
    <3>3. CASE File = Absent /\ Older = {}
      <4>1. kept \subseteq Protected
        BY <1>g, <2>1, <3>3, Values
      <4>2. QED
        BY <4>1 DEF Recorded
    <3>4. QED
      BY <3>1, <3>2, <3>3
  <2>7. QED
    BY <2>1, <2>6 DEF NothingLost, Resetting
<1>16. CASE Crash
  <2>1. phase' = "closed" /\ UNCHANGED <<version, files, kept>> /\ ~Rewriting /\ phase \in Phases /\ phase # "closed"
    BY <1>16, <1>h DEF Crash, Stopped, Also, TypeInv, MainTyped
  <2>2. ~Opened /\ phase \in {"run", "migrate", "retrieve"}
    BY <2>1 DEF Rewriting, Phases, Login
  <2>3. CASE phase = "run"
    BY <1>d, <1>j, <2>1, <2>2, <2>3
  <2>4. CASE phase \in {"migrate", "retrieve"}
    <3>1. File' = File BY <2>1 DEF File
    <3>2. QED BY <1>a, <1>d, <1>f, <1>g, <2>1, <2>4, <3>1 DEF NothingLost, Resetting
  <2>5. QED
    BY <2>2, <2>3, <2>4
<1>17. ASSUME NEW t \in Threads, NEW S \in SUBSET Known[version], NEW status \in BOOLEAN, SaveRead(t, S, status)
      PROVE  NothingLost'
  <2>1. phase = "run" /\ ~Opened /\ UNCHANGED <<version, files, kept>>
    BY <1>17 DEF SaveRead, Also, Opened, Saving
  <2>2. File.st = "valid"
    BY <1>i, <2>1
  <2>3. phase' = phase
    BY <1>17, <2>2 DEF SaveRead
  <2>4. QED
    BY <2>1, <2>3 DEF NothingLost, Resetting
<1>18. ASSUME NEW t \in Threads, SaveSet(t) \/ SaveOpen(t) PROVE NothingLost'
  <2>1. phase = "run" /\ phase' = phase
    BY <1>18, <1>a, <1>h DEF SaveSet, SaveOpen, Alone, LoneSave, Saving
  <2>2. QED
    BY <2>1 DEF NothingLost, Resetting
<1>19. ASSUME NEW t \in Threads, SaveClose(t) PROVE NothingLost'
  <2>1. phase = "run" /\ phase' = phase
    BY <1>19, <1>a, <1>h DEF SaveClose, Alone, LoneSave, Saving
  <2>2. QED
    BY <2>1 DEF NothingLost, Resetting
<1>20. CASE UNCHANGED vars
  <2>1. UNCHANGED <<version, files, phase, kept, pending>>
    BY <1>20 DEF vars
  <2>2. File' = File BY <2>1 DEF File
  <2>3. ~Upgrade \/ phase = "closed" BY DEF Upgrade
  <2>4. Older' = Older /\ Recorded' = Recorded
    BY <2>1, <2>2 DEF Older, Recorded, Precedent
  <2>5. QED
    BY <1>a, <2>1, <2>4 DEF NothingLost
<1>21. QED
  BY <1>1, <1>2, <1>3, <1>4, <1>5, <1>6, <1>7, <1>8, <1>9, <1>10, <1>11, <1>12, <1>13, <1>14, <1>15, <1>16, <1>17, <1>18, <1>19, <1>20 DEF Next

(* Every reachable state is clean in that sense.                           *)
LEMMA FileCorrect == Spec => []FileInv
<1>1. Init => FileInv
  <2> SUFFICES ASSUME Init PROVE FileInv OBVIOUS
  <2>2. AgreeInv BY AgreeInit
  <2>3. \A v \in Versions : files[v] = Absent BY DEF Init
  <2>4. Older = {} BY <2>3 DEF Older
  <2>5. OneOlder /\ OlderThere /\ FileThere /\ SessionLoaded /\ NothingLost
    BY <2>4 DEF Init, OneOlder, OlderThere, FileThere, SessionLoaded, NothingLost, Resetting
  <2>6. QED BY <2>2, <2>5 DEF FileInv, Clean
<1>2. FileInv /\ [Next]_vars => FileInv'
  BY AgreeStep, OneOlderStep, OlderThereStep, FileThereStep, SessionStep, NothingLostStep
     DEF FileInv, Clean
<1>3. QED
  BY <1>1, <1>2, PTL DEF Spec

(* Unless a mishap came before, every login finds the coins that were      *)
(* active when the application last ran.                                   *)
THEOREM CoinsSurviveUndamagedCorrect == Spec => CoinsSurviveUndamaged
<1>1. FileInv /\ [Next]_vars =>
        [phase = "retrieve" /\ phase' = "run" /\ mishaps = {}
           => kept \cap Known[version] \subseteq active']_vars
  <2>1. SUFFICES ASSUME FileInv, Next, phase = "retrieve", phase' = "run", mishaps = {}
                 PROVE kept \cap Known[version] \subseteq active'
    BY DEF vars
  <2>2. kept \subseteq File.on \cup Protected /\ File.st = "valid"
    BY <2>1 DEF FileInv, Clean, OlderThere, NothingLost, Recorded, FileThere
  <2>3. Retrieve
    <3>1. \A t \in Threads : ~Saving(t)
      BY <2>1, Values DEF FileInv, AgreeInv, AloneInv, TypeInv, SavesTyped, Login, Saving
    <3>2. ~(LoginCheck \/ CopyBundled \/ WrongPassword \/ MigrateOpen \/ MigrateWrite \/ MigrateRemove
             \/ MigrateClose \/ ResetEnsure \/ ResetCopy \/ ResetClose \/ Upgrade \/ Quit)
      BY <2>1 DEF LoginCheck, CopyBundled, WrongPassword, MigrateOpen, MigrateWrite, MigrateRemove,
            MigrateClose, ResetEnsure, ResetCopy, ResetClose, Upgrade, Quit
    <3>3. ~ResetRead /\ ~ResetOpen /\ ~Crash
      BY <2>1 DEF ResetRead, ResetOpen, Crash, Stopped
    <3>4. \A t \in Threads : ~SaveSet(t) /\ ~SaveOpen(t) /\ ~SaveClose(t)
      BY <3>1 DEF SaveSet, SaveOpen, SaveClose, Saving
    <3>5. \A t \in Threads : \A S, status : ~SaveRead(t, S, status)
      BY <2>1 DEF SaveRead, Resetting
    <3>6. QED
      BY <2>1, <3>2, <3>3, <3>4, <3>5 DEF Next
  <2>4. QED
    BY <2>2, <2>3 DEF Retrieve
<1>2. QED
  BY <1>1, FileCorrect, PTL DEF Spec, CoinsSurviveUndamaged
=============================================================================
