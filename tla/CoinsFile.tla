----------------------------- MODULE CoinsFile -----------------------------
(***************************************************************************)
(* The coins file of a wallet ("<version>-coins.<wallet>.json"): created   *)
(* at login from the bundled list, migrated from the file of an older      *)
(* version, read into the coins registry, rewritten whenever coins are     *)
(* saved as active or inactive, and rebuilt by reset_coin_cfg.             *)
(*                                                                         *)
(* Opening a file for writing truncates it, and its text is there when it  *)
(* is closed: these are steps of their own, so that a crash or another     *)
(* thread can come in between.  update_coin_status has no lock on the      *)
(* file; it runs on the main thread (the activation clock, disabling) and  *)
(* on pool threads (the ZHTLC callbacks).                                  *)
(*                                                                         *)
(* A file is abstracted to the coins it says are active.  The file of      *)
(* custom tokens is written by the same calls and is left out.             *)
(***************************************************************************)
EXTENDS Integers, FiniteSets

CONSTANTS
  Coins,       \* tickers
  Protected,   \* the default coins, active whatever the file says
  Bundled,     \* coins active in the list bundled with the application
  Known,       \* Known[v]: the coins version v lists
  Pool,        \* pool threads that save coins
  Main,        \* the main thread
  MaxVersion,  \* bound: upgrades
  MaxSaves,    \* bound: calls of update_coin_status
  MaxCrashes   \* bound: crashes of the application

ASSUME FileAssumption ==
  /\ {MaxVersion, MaxSaves, MaxCrashes} \subseteq Nat
  /\ Known \in [0 .. MaxVersion -> SUBSET Coins]
  /\ Protected \subseteq Coins /\ Bundled \subseteq Coins
  /\ Main \notin Pool

Versions == 0 .. MaxVersion
Threads == Pool \cup {Main}

VARIABLES
  version,     \* the version of the application that is installed
  files,       \* the coins file of each version
  phase,       \* where the main thread stands
  pending,     \* the coins a migration or a reset is to write
  loaded,      \* the registry was filled from the file
  active,      \* the coins of the registry with active = true
  save,        \* the update_coin_status each thread is in
  kept,        \* history: the coins that were active after the last login or finished
               \* save, but for those the installed version does not list any more
  mishaps,     \* history: what went wrong with the files so far (see Mishaps)
  used         \* how much of the bounds was used

vars == <<version, files, phase, pending, loaded, active, save, kept, mishaps, used>>

-----------------------------------------------------------------------------
Files == [st : {"absent", "torn", "valid"}, on : SUBSET Coins]
Absent == [st |-> "absent", on |-> {}]
Torn == [st |-> "torn", on |-> {}]
Valid(S) == [st |-> "valid", on |-> S]

Saves == [pc : {"idle", "read", "set", "open"}, copy : SUBSET Coins, coins : SUBSET Coins,
          status : BOOLEAN]
NoSave == [pc |-> "idle", copy |-> {}, coins |-> {}, status |-> FALSE]

File == files[version]
Put(f) == files' = [files EXCEPT ![version] = f]

Login == {"copy", "migrate", "flush", "remove", "finish", "retrieve"}
Resetting == {"ensure", "recopy", "restore", "rewrite"}
Phases == {"closed", "run"} \cup Login \cup Resetting

(* A crash, or an exception nothing catches, hit a file that was being     *)
(* rewritten; two threads were saving at once; an upgrade was installed    *)
(* while the file of the version before had not been migrated yet; the old *)
(* file could not be removed after a migration.                            *)
Mishaps == {"crash", "overlap", "upgrade", "leftover"}
Also(cause, happened) == mishaps' = mishaps \cup (IF happened THEN {cause} ELSE {})

Saving(t) == save[t].pc # "idle"
Opened == \E t \in Threads : save[t].pc = "open"
Changing == \E t \in Threads : save[t].pc \in {"set", "open"}

(* The coins file is open for writing, or removed to be made again.        *)
Rewriting ==
  Opened \/ phase \in {"copy", "flush", "remove", "finish"} \cup Resetting

(* What a dead process leaves: the files.                                  *)
Stopped ==
  /\ phase' = "closed" /\ loaded' = FALSE /\ active' = {} /\ pending' = {}
  /\ save' = [t \in Threads |-> NoSave]

Init ==
  /\ version = 0 /\ files = [v \in Versions |-> Absent]
  /\ phase = "closed" /\ pending = {} /\ loaded = FALSE /\ active = {}
  /\ save = [t \in Threads |-> NoSave]
  /\ kept = {} /\ mishaps = {}
  /\ used = [saves |-> 0, crashes |-> 0]

fileVars == <<files, pending>>
registryVars == <<loaded, active, kept>>
historyVars == <<mishaps, used>>

-----------------------------------------------------------------------------
(* Login, on the main thread.                                              *)

(* A file that is no JSON is noticed, but ensure_wallet_coins_config only  *)
(* acts when there is no file: an invalid one stays.                       *)
LoginCheck ==
  /\ phase = "closed"
  /\ IF File = Absent
     THEN phase' = "copy" /\ Put(Torn)
     ELSE phase' = "migrate" /\ UNCHANGED files
  /\ UNCHANGED <<version, pending, registryVars, save, historyVars>>

CopyBundled ==
  /\ phase = "copy"
  /\ Put(Valid(Bundled \cap Known[version]))
  /\ phase' = "migrate"
  /\ UNCHANGED <<version, pending, registryVars, save, historyVars>>

(* The password is checked after the file: a wrong one ends the login      *)
(* before the migration.                                                   *)
WrongPassword ==
  /\ phase = "migrate"
  /\ phase' = "closed"
  /\ UNCHANGED <<version, fileVars, registryVars, save, historyVars>>

(* find_precedent_coins_config: the newest file of an older version.       *)
Older == {v \in Versions : v < version /\ files[v] # Absent}
Precedent == CHOOSE v \in Older : \A w \in Older : w <= v

(* Mutant: the coins of the old file are added to the list.                *)
MigratedUnlisted ==
  {c \in Coins : IF c \in Known[Precedent] THEN c \in files[Precedent].on
                                           ELSE c \in File.on}

(* check_for_reconfiguration: the new list, with the flags of the old file *)
(* for the coins both have.                                                *)
Migrated ==
  {c \in Known[version] : IF c \in Known[Precedent] THEN c \in files[Precedent].on
                                                    ELSE c \in File.on}

(* A file that does not parse ends the migration.                          *)
MigrateOpen ==
  /\ phase = "migrate"
  /\ IF Older = {} \/ files[Precedent].st = "torn" \/ File.st = "torn"
     THEN phase' = "retrieve" /\ UNCHANGED fileVars
     ELSE phase' = "flush" /\ pending' = Migrated /\ Put(Torn)
  /\ UNCHANGED <<version, registryVars, save, historyVars>>

(* The text is on the disk now, or only once the file is closed.           *)
MigrateWrite ==
  /\ phase = "flush"
  /\ Put(Valid(pending)) \/ UNCHANGED files
  /\ phase' = "remove"
  /\ UNCHANGED <<version, pending, registryVars, save, historyVars>>

(* A removal that fails is logged, and the old file stays: the next login  *)
(* finds and migrates it again.                                            *)
MigrateRemove ==
  /\ phase = "remove"
  /\ \E removed \in BOOLEAN :
       /\ files' = IF removed THEN [files EXCEPT ![Precedent] = Absent] ELSE files
       /\ Also("leftover", ~removed)
  /\ phase' = "finish"
  /\ UNCHANGED <<version, pending, registryVars, save, used>>

MigrateClose ==
  /\ phase = "finish"
  /\ Put(Valid(pending))
  /\ pending' = {}
  /\ phase' = "retrieve"
  /\ kept' = kept \cap Known[version]
  /\ UNCHANGED <<version, loaded, active, save, historyVars>>

(* retrieve_coins_informations: an invalid file leaves the registry empty. *)
Retrieve ==
  /\ phase = "retrieve"
  /\ phase' = "run"
  /\ loaded' = (File.st = "valid")
  /\ active' = IF File.st = "valid" THEN File.on \cup (Protected \cap Known[version]) ELSE {}
  /\ kept' = IF File.st = "valid" THEN active' ELSE kept
  /\ UNCHANGED <<version, fileVars, save, historyVars>>

-----------------------------------------------------------------------------
(* update_coin_status.                                                     *)

(* The file is read.  A file that is not there or does not parse gives     *)
(* null, and null.at(ticker) throws: a pool thread drops the call, the     *)
(* main thread has no handler.                                             *)
SaveRead(t, S, status) ==
  /\ phase = "run" \/ (t # Main /\ phase \in Resetting)
  /\ loaded
  /\ used.saves < MaxSaves
  /\ ~Saving(t)
  /\ t = Main \/ ~status
  /\ status \/ S \cap Protected = {}
  /\ used' = [used EXCEPT !.saves = @ + 1]
  /\ IF File.st = "valid"
     THEN /\ save' = [save EXCEPT ![t] = [pc |-> "read", copy |-> File.on,
                                          coins |-> S, status |-> status]]
          /\ UNCHANGED <<phase, pending, loaded, active>>
     ELSE IF t = Main THEN Stopped ELSE UNCHANGED <<phase, pending, loaded, active, save>>
  /\ Also("overlap", phase # "run" \/ \E u \in Threads : Saving(u))
  /\ UNCHANGED <<version, files, kept>>

Switch(S, t) == IF save[t].status THEN S \cup save[t].coins ELSE S \ save[t].coins

(* Mutant: only the copy is changed.                                       *)
SaveSetCopyOnly(t) ==
  /\ save[t].pc = "read"
  /\ save' = [save EXCEPT ![t].pc = "set", ![t].copy = Switch(@, t)]
  /\ UNCHANGED <<version, fileVars, phase, registryVars, historyVars>>

(* The flags of the registry and of the copy.                              *)
SaveSet(t) ==
  /\ save[t].pc = "read"
  /\ active' = Switch(active, t)
  /\ save' = [save EXCEPT ![t].pc = "set", ![t].copy = Switch(@, t)]
  /\ UNCHANGED <<version, fileVars, phase, loaded, kept, historyVars>>

(* The file is opened, which empties it.                                   *)
SaveOpen(t) ==
  /\ save[t].pc = "set"
  /\ save' = [save EXCEPT ![t].pc = "open"]
  /\ Put(Torn)
  /\ UNCHANGED <<version, phase, pending, registryVars, historyVars>>

(* Mutant: the file is left open.                                          *)
SaveNeverCloses(t) ==
  /\ save[t].pc = "open"
  /\ save' = [save EXCEPT ![t] = NoSave]
  /\ UNCHANGED <<version, files, phase, pending, registryVars, historyVars>>

(* The text is written from the start of the file.  When another thread    *)
(* wrote a longer one since the file was emptied ("false" is longer than   *)
(* "true"), its tail stays behind.                                         *)
SaveClose(t) ==
  /\ save[t].pc = "open"
  /\ Put(IF File.st = "valid" /\ Cardinality(File.on) < Cardinality(save[t].copy)
         THEN Torn ELSE Valid(save[t].copy))
  /\ save' = [save EXCEPT ![t] = NoSave]
  /\ kept' = active
  /\ UNCHANGED <<version, phase, pending, loaded, active, historyVars>>

-----------------------------------------------------------------------------
(* application::reset_coin_cfg, on the main thread.                        *)

(* The active coins are read and the file is removed.  A file that does    *)
(* not parse throws, and nothing catches it.                               *)
ResetRead ==
  /\ phase = "run" /\ ~Saving(Main)
  /\ IF File.st = "torn"
     THEN Stopped /\ UNCHANGED files
     ELSE /\ pending' = File.on /\ Put(Absent) /\ phase' = "ensure"
          /\ UNCHANGED <<loaded, active, save>>
  /\ Also("overlap", \E u \in Threads : Saving(u))
  /\ UNCHANGED <<version, kept, used>>

ResetEnsure ==
  /\ phase = "ensure"
  /\ Put(Torn)
  /\ phase' = "recopy"
  /\ UNCHANGED <<version, pending, registryVars, save, historyVars>>

ResetCopy ==
  /\ phase = "recopy"
  /\ Put(Valid(Bundled \cap Known[version]))
  /\ phase' = "restore"
  /\ UNCHANGED <<version, pending, registryVars, save, historyVars>>

(* Mutant: the active coins are read after the list was copied anew.       *)
ResetOpenTooLate ==
  /\ phase = "restore"
  /\ IF File.st = "torn"
     THEN Stopped /\ UNCHANGED files
     ELSE /\ pending' = File.on
          /\ Put(Torn) /\ phase' = "rewrite"
          /\ UNCHANGED <<loaded, active, save>>
  /\ UNCHANGED <<version, kept, historyVars>>

(* The bundled list is read back (an exception if another thread has just  *)
(* emptied it), with the coins that were active.                           *)
ResetOpen ==
  /\ phase = "restore"
  /\ IF File.st = "torn"
     THEN Stopped /\ UNCHANGED files
     ELSE /\ pending' = File.on \cup (pending \cap Known[version])
          /\ Put(Torn) /\ phase' = "rewrite"
          /\ UNCHANGED <<loaded, active, save>>
  /\ UNCHANGED <<version, kept, historyVars>>

(* The file is closed and the application restarts.                        *)
ResetClose ==
  /\ phase = "rewrite"
  /\ Put(Valid(pending))
  /\ Stopped
  /\ UNCHANGED <<version, kept, historyVars>>

-----------------------------------------------------------------------------
(* The world: the user quits or installs the next version, the process     *)
(* dies.                                                                   *)

Quit ==
  /\ phase = "run" /\ \A t \in Threads : ~Saving(t)
  /\ Stopped
  /\ UNCHANGED <<version, files, kept, historyVars>>

Upgrade ==
  /\ phase = "closed" /\ version < MaxVersion
  /\ version' = version + 1
  /\ Also("upgrade", File # Absent /\ Older # {})
  /\ UNCHANGED <<fileVars, phase, registryVars, save, used>>

Crash ==
  /\ phase # "closed"
  /\ used.crashes < MaxCrashes
  /\ used' = [used EXCEPT !.crashes = @ + 1]
  /\ Stopped
  /\ Also("crash", Rewriting)
  /\ UNCHANGED <<version, files, kept>>

-----------------------------------------------------------------------------
Next ==
  \/ LoginCheck \/ CopyBundled \/ WrongPassword
  \/ MigrateOpen \/ MigrateWrite \/ MigrateRemove \/ MigrateClose \/ Retrieve
  \/ \E t \in Threads :
       \/ \E S \in SUBSET Known[version] \ {{}}, status \in BOOLEAN : SaveRead(t, S, status)
       \/ SaveSet(t) \/ SaveOpen(t) \/ SaveClose(t)
  \/ ResetRead \/ ResetEnsure \/ ResetCopy \/ ResetOpen \/ ResetClose
  \/ Quit \/ Upgrade \/ Crash

Spec == Init /\ [][Next]_vars

-----------------------------------------------------------------------------
(* The type of every variable; a file never says anything of a coin that   *)
(* its version does not list.                                              *)
TypeOK ==
  /\ version \in Versions
  /\ files \in [Versions -> Files]
  /\ \A v \in Versions : files[v].on \subseteq (IF files[v].st = "valid" THEN Known[v] ELSE {})
  /\ phase \in Phases /\ pending \subseteq Coins
  /\ loaded \in BOOLEAN /\ active \subseteq Coins
  /\ save \in [Threads -> Saves]
  /\ kept \subseteq Coins
  /\ mishaps \subseteq Mishaps
  /\ used \in [saves : Nat, crashes : Nat]

(* A coins file that does not parse is being rewritten at this moment, or  *)
(* a crash or two saves at once broke it: no other order of logins, saves, *)
(* upgrades and resets does, and none that follows them gets stuck on it.  *)
TornHasCause ==
  \A v \in Versions :
    files[v].st = "torn" =>
      \/ mishaps \cap {"crash", "overlap"} # {}
      \/ v = version /\ Rewriting

(* Whenever no thread is at work between changing the registry and closing *)
(* the file, the registry and the file tell the same coins, the default    *)
(* ones apart, which only the registry is sure to have.                    *)
Agree == File = Valid(File.on) /\ active = File.on \cup (Protected \cap active)
FileAgreesAlone ==
  loaded /\ phase = "run" /\ ~Changing => "overlap" \in mishaps \/ Agree

(* Every login, of the same version or the next, finds the coins that were *)
(* active after the last login or finished save, wherever the application  *)
(* stopped since, unless one of the mishaps came before.  A crash in a     *)
(* save that has not opened the file yet is none: what it was to change is *)
(* lost, and nothing else.                                                 *)
CoinsSurviveUndamaged ==
  [][phase = "retrieve" /\ phase' = "run" /\ mishaps = {}
       => kept \cap Known[version] \subseteq active']_vars

=============================================================================
