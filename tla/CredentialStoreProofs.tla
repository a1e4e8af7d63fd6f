------------------------ MODULE CredentialStoreProofs ------------------------
(***************************************************************************)
(* Proofs about the credential store, for any accounts, keys and limits    *)
(* and any number of failing accesses and crashes.                         *)
(***************************************************************************)
EXTENDS CredentialStore, TLAPS

InSave == {"save", "write", "backup", "copy", "sids", "filter", "move",
           "restore", "rollback"}
Syncing == {"sids", "filter"}

\* The types of the store's own variables; TypeOK adds that of rpId.
StoreType == FilesType /\ WorldType /\ ControlType /\ LimitsType /\ HistoryType

\* Which purposes go with which steps, and what the local variables hold.
ControlInv ==
  /\ pc \in {"apply"} \cup InSave => vault \in Vaults
  /\ pc \in {"apply", "down", "stopped", "idle", "load"} => ~ creating
  /\ pc \notin Syncing \cup {"move", "restore", "rollback"} => purpose = "none"
  /\ pc = "move" => purpose \in {"none", "publish"}
  /\ pc \in {"restore", "rollback"} => purpose = "retract"
  /\ pc \in Syncing => purpose # "none"
  /\ purpose = "refresh" => call.op \in {"startup", "refresh"}
  /\ pc \in Syncing /\ purpose = "undo" => previous \in Vaults
  /\ pc \in {"restore", "rollback"} => previous \in Vaults
  /\ creating => vault.enforced = {}
  /\ pc \in InSave /\ ~ creating /\ call.op = "enable" =>
        vault.enforced # {} /\ call.sid \in vault.enforced
  /\ pc \in {"load", "apply"} \cup InSave /\ call.op = "disable" => call.sid \notin acked

\* The files, as long as no bytes are lost: the primary is whole, nothing is
\* left of a vault without it, and each step of Save finds what the previous
\* steps left.
FilesInv ==
  /\ primary \in Vaults \cup {Absent}
  /\ primary = Absent => bak \notin Vaults
  /\ pc = "apply" => vault = primary
  /\ pc \in {"backup", "copy", "move"} => tmp = vault
  /\ pc \in Syncing /\ purpose = "publish" => tmp = vault
  /\ pc = "copy" => primary \in Vaults /\ previous = primary
  /\ pc = "move" \/ (pc \in Syncing /\ purpose = "publish") =>
        previous = Durable /\ (previous # NoVault => bak = previous)
  /\ pc \in Syncing /\ purpose = "refresh" => vault = primary
  /\ pc \in Syncing /\ purpose = "retract" => vault = primary
  /\ pc \in {"restore", "rollback"} => bak = previous /\ primary = vault
  /\ pc \in Syncing /\ purpose = "retract" /\ previous # NoVault => bak = previous
  /\ pc = "rollback" => rollback = previous
  /\ pc \in {"restore", "rollback"} => vault.enforced = {}
  /\ pc \in Syncing /\ purpose \in {"retract", "publish"} =>
       (vault.enforced = {} <=> purpose = "retract")
  /\ pc \in Syncing /\ purpose = "undo" =>
       Durable = previous \/ Enforcing(Durable) = {}

\* The policy in the registry against the vaults in play.
PolicyInv ==
  /\ Enforcing(Durable) # {} => filterOn
  /\ acked \subseteq Enforcing(Durable) \cap regSids \cap live
  /\ pc \in InSave => acked \subseteq vault.enforced \/ purpose = "undo"
  /\ pc \in Syncing /\ purpose = "undo" => acked \subseteq previous.enforced
  /\ pc = "filter" => regSids = Policy
  /\ pc = "move" /\ vault.enforced # {} => regSids = vault.enforced /\ filterOn
  /\ pc = "idle" /\ result = "ok" =>
        /\ primary \in Vaults /\ vault = primary
        /\ regSids = vault.enforced /\ filterOn = (vault.enforced # {})
  /\ pc \in {"restore", "rollback"}
       \/ (pc \in Syncing /\ purpose = "retract" /\ previous # NoVault) =>
       (previous.enforced # {} => filterOn)

SInv == FilesInv /\ PolicyInv

IInv == StoreType /\ ControlInv /\ (losses = 0 => SInv)

-----------------------------------------------------------------------------
(* The values the operations produce are vaults.                            *)

\* Erasing accounts from a vault leaves a vault, with no account enforced
\* that was not.
LEMMA KeepIsVault ==
  ASSUME NEW v \in Vaults, NEW S
  PROVE  Keep(v, S) \in Vaults /\ Keep(v, S).enforced = v.enforced \cap S
BY DEF Keep, Vaults

\* Replacing the keys of a vault.
LEMMA WithKeysIsVault ==
  ASSUME NEW v \in Vaults, NEW K \in SUBSET (Sids \X Keys)
  PROVE  [v EXCEPT !.keys = K] \in Vaults
BY DEF Vaults

\* Adding a key to an account, and the account if it is new.
LEMMA RegisteredIsVault ==
  ASSUME NEW v \in Vaults, NEW s \in Sids, NEW k \in Keys
  PROVE  [v EXCEPT !.accounts = @ \cup {s}, !.keys = @ \cup {<<s, k>>}] \in Vaults
<1>1. v.accounts \cup {s} \subseteq Sids /\ v.keys \cup {<<s, k>>} \subseteq Sids \X Keys
  BY DEF Vaults
<1>2. QED  BY <1>1 DEF Vaults

\* A new vault is a vault and enforces nobody.
LEMMA EmptyIsVault ==
  ASSUME NEW m \in Machines
  PROVE  EmptyVault(m) \in Vaults /\ EmptyVault(m).enforced = {}
BY DEF EmptyVault, Vaults

\* What the provider is told of a vault are accounts.
LEMMA EnforcedAreSids == \A v \in Vaults : v.enforced \subseteq Sids
BY DEF Vaults

\* A request's arguments.
LEMMA CallFields ==
  ASSUME NEW c \in Calls
  PROVE  /\ c.op \in {"startup", "refresh", "upsert", "enable", "disable",
                      "register", "remove"}
         /\ c.op \notin {"startup", "refresh"} => c.sid \in Sids
         /\ c.op \in {"register", "remove"} => c.key \in Keys
BY DEF Calls

\* A load finds a vault or nothing.
LEMMA FirstValidType ==
  ASSUME NEW p, NEW b
  PROVE  FirstValid(p, b) \in Vaults \cup {NoVault}
BY DEF FirstValid

-----------------------------------------------------------------------------
(* Types and control.                                                       *)

TInv == StoreType /\ ControlInv

LEMMA StartupIsCall == StartupCall \in Calls /\ StartupCall.op = "startup"
BY DEF StartupCall, Calls

LEMMA InitTInv == Init => TInv
<1> SUFFICES ASSUME Init PROVE StoreType /\ ControlInv
  BY DEF TInv
<1>1. StoreType
  <2>1. /\ callFaults \in 0 .. MaxCallFaults /\ losses \in 0 .. MaxLosses
        /\ live \subseteq Sids
    BY StoreAssumption DEF Init
  <2>2. filterOn \in BOOLEAN /\ creating \in BOOLEAN
    BY DEF Init
  <2>3. QED
    BY <2>1, <2>2, StartupIsCall DEF Init, StoreType, FilesType, WorldType,
       ControlType, LimitsType, HistoryType, Contents, PCs, Purposes
<1>2. ControlInv
  BY StartupIsCall DEF Init, ControlInv, InSave, Syncing
<1>3. QED  BY <1>1, <1>2

LEMMA EnvironmentTInv ==
  ASSUME TInv,
         \/ Restart \/ Crash \/ Reboot \/ Damage
         \/ \E c \in Requests : Begin(c)
         \/ \E s \in Deletable : DeleteAccount(s)
  PROVE  TInv'
<1> USE StoreAssumption, StartupIsCall, FirstValidType
    DEF TInv, StoreType, FilesType, WorldType, ControlType, LimitsType,
        HistoryType, ControlInv, Contents, InSave, Syncing, PCs, Purposes,
        files, registry, control, limits, history, Durable
<1>2. CASE Restart  BY <1>2 DEF Restart
<1>3. CASE Crash  BY <1>3 DEF Crash
<1>4. CASE Reboot  BY <1>4 DEF Reboot
<1>5. CASE Damage  BY <1>5 DEF Damage
<1>6. CASE \E c \in Requests : Begin(c)  BY <1>6 DEF Begin
<1>7. CASE \E s \in Deletable : DeleteAccount(s)  BY <1>7 DEF DeleteAccount
<1>8. QED  BY <1>2, <1>3, <1>4, <1>5, <1>6, <1>7

\* What a step must leave well typed besides the control state.
Outside == FilesType /\ WorldType /\ LimitsType

LEMMA FaultType ==
  ASSUME LimitsType, Fault \/ NoFault, UNCHANGED losses
  PROVE  LimitsType'
BY StoreAssumption DEF LimitsType, Fault, NoFault

LEMMA ReturnTInv ==
  ASSUME TInv, NEW o \in {"ok", "error"}, Return(o), Outside'
  PROVE  TInv'
BY StartupIsCall
   DEF TInv, StoreType, ControlInv, ControlType, WorldType, HistoryType, Outside,
       Return, InSave, Syncing, PCs, Purposes

\* Going on with the next step of the call.
LEMMA GotoTInv ==
  ASSUME TInv, NEW l \in PCs, Goto(l), Outside',
         creating' \in BOOLEAN, vault' \in Vaults \cup {NoVault},
         previous' \in Vaults \cup {NoVault}, purpose' \in Purposes,
         ControlInv'
  PROVE  TInv'
BY DEF TInv, StoreType, ControlType, WorldType, HistoryType, Outside, Goto, history

LEMMA ReadingType ==
  ASSUME FilesType, LimitsType, NEW p, NEW b, Reading(p, b), Fault \/ NoFault
  PROVE  LimitsType'
BY StoreAssumption
   DEF FilesType, LimitsType, Reading, Lost, Fault, NoFault

LEMMA LoadTInv ==
  ASSUME TInv, Load
  PROVE  TInv'
<1>1. PICK p \in Reads(primary), b \in Reads(bak) :
        Reading(p, b) /\ LoadOutcome(p, b)
  BY DEF Load
<1>2. Outside'
  <2>1. Fault \/ NoFault
    BY <1>1 DEF LoadOutcome
  <2>2. LimitsType'
    BY <1>1, <2>1, ReadingType DEF TInv, StoreType
  <2>3. live' = live
    BY <1>1 DEF LoadOutcome, Goto, Return
  <2>4. QED
    BY <2>2, <2>3 DEF Outside, TInv, StoreType, FilesType, WorldType, Load, files,
                      registry
<1>3. CASE /\ vault' = FirstValid(p, b) /\ FirstValid(p, b) # NoVault
           /\ Goto("apply") /\ UNCHANGED <<creating, previous, purpose>>
  BY <1>2, <1>3, GotoTInv, FirstValidType
     DEF TInv, StoreType, ControlType, ControlInv, Load, Goto, InSave, Syncing,
         PCs, history
<1>4. CASE /\ \E m \in Machines : vault' = EmptyVault(m)
           /\ creating' = TRUE /\ Goto("save") /\ UNCHANGED <<previous, purpose>>
  <2>1. vault' \in Vaults /\ vault'.enforced = {}
    BY <1>4, EmptyIsVault
  <2>2. creating' \in BOOLEAN /\ previous' \in Vaults \cup {NoVault}
        /\ purpose' \in Purposes /\ "save" \in PCs
    BY <1>4 DEF TInv, StoreType, ControlType, PCs
  <2>3. ControlInv'
    BY <1>4, <2>1 DEF TInv, ControlInv, Load, Goto, InSave, Syncing, history
  <2>4. QED
    BY <1>2, <1>4, <2>1, <2>2, <2>3, GotoTInv
<1>5. CASE Return("error")
  BY <1>2, <1>5, ReturnTInv
<1>6. QED
  BY <1>1, <1>3, <1>4, <1>5 DEF LoadOutcome

LEMMA SaveVaultTInv ==
  ASSUME TInv, pc = "apply", NEW v \in Vaults, SaveVault(v), Outside',
         call.op = "enable" => call.sid \in v.enforced
  PROVE  TInv'
<1>1. ControlInv'
  BY DEF TInv, StoreType, ControlType, ControlInv, SaveVault, Goto, InSave, Syncing,
         history
<1>2. QED
  BY <1>1, GotoTInv DEF TInv, StoreType, ControlType, SaveVault, PCs

LEMMA ApplyTInv ==
  ASSUME TInv, Apply
  PROVE  TInv'
<1>1. vault \in Vaults /\ pc = "apply" /\ call \in Calls
  BY DEF Apply, TInv, ControlInv, StoreType, ControlType
<1>2. Outside'
  <2>1. (Fault \/ NoFault) /\ live' = live
    BY DEF Apply, RefreshLocalAccounts, UpsertAccount, CommitRegistration,
           RemoveCredential, SetEnforced, SaveVault, Refuse, Goto, Return
  <2>2. LimitsType'
    BY <2>1, FaultType DEF Apply, TInv, StoreType
  <2>3. QED
    BY <2>1, <2>2 DEF Outside, TInv, StoreType, FilesType, WorldType, Apply, files,
                      registry
<1>3. CASE Return("error")
  BY <1>2, <1>3, ReturnTInv
<1>4. CASE RefreshLocalAccounts
  <2>1. CASE SaveVault(Keep(vault, live))
    BY <1>1, <1>2, <1>4, <2>1, KeepIsVault, SaveVaultTInv DEF RefreshLocalAccounts
  <2>2. CASE /\ purpose' = "refresh" /\ Goto("sids")
             /\ UNCHANGED <<vault, creating, previous>>
    <3>1. ControlInv'
      BY <1>1, <1>4, <2>2
         DEF TInv, StoreType, ControlType, ControlInv, Goto, InSave, Syncing,
             history, RefreshLocalAccounts
    <3>2. QED
      BY <1>2, <2>2, <3>1, GotoTInv DEF TInv, StoreType, ControlType, PCs, Purposes
  <2>3. QED
    BY <1>3, <1>4, <2>1, <2>2 DEF RefreshLocalAccounts
<1>5. CASE UpsertAccount
  BY <1>1, <1>2, <1>3, <1>5, SaveVaultTInv DEF UpsertAccount, Refuse
<1>6. CASE CommitRegistration
  <2>1. [vault EXCEPT !.accounts = @ \cup {call.sid},
                      !.keys = @ \cup {<<call.sid, call.key>>}] \in Vaults
    <3>1. call.sid \in Sids /\ call.key \in Keys
      BY <1>1, <1>6, CallFields DEF CommitRegistration
    <3>2. QED  BY <1>1, <3>1, RegisteredIsVault
  <2>2. QED
    BY <1>1, <1>2, <1>3, <1>6, <2>1, SaveVaultTInv DEF CommitRegistration, Refuse
<1>7. CASE RemoveCredential
  <2> DEFINE K == vault.keys \ {<<call.sid, call.key>>}
  <2>1. K \in SUBSET (Sids \X Keys)
    BY <1>1 DEF Vaults
  <2>2. SaveVault([vault EXCEPT !.keys = K]) => TInv'
    <3> HIDE DEF K
    <3>1. QED
      BY <1>1, <1>2, <1>7, <2>1, WithKeysIsVault, SaveVaultTInv
         DEF RemoveCredential
  <2>3. QED
    BY <1>3, <1>7, <2>2 DEF RemoveCredential, Refuse
<1>8. CASE SetEnforced
  <2> DEFINE v == [vault EXCEPT !.enforced =
                     IF call.op = "enable" THEN @ \cup {call.sid}
                                           ELSE @ \ {call.sid}]
  <2>1. v \in Vaults /\ (call.op = "enable" => call.sid \in v.enforced)
    BY <1>1, <1>8, CallFields DEF Vaults, SetEnforced
  <2>2. SaveVault(v) => TInv'
    <3> HIDE DEF v
    <3>1. QED  BY <1>1, <1>2, <2>1, SaveVaultTInv
  <2>3. QED
    BY <1>3, <1>8, <2>2 DEF SetEnforced, Refuse
<1>9. QED
  BY <1>4, <1>5, <1>6, <1>7, <1>8 DEF Apply

LEMMA SaveBeginsTInv ==
  ASSUME TInv, SaveBegins
  PROVE  TInv'
<1>1. Outside'
  <2>1. (Fault \/ NoFault) /\ live' = live /\ tmp' \in Contents
    BY DEF SaveBegins, Refuse, Goto, Return, TInv, StoreType, FilesType, Contents
  <2>2. LimitsType'
    BY <2>1, FaultType DEF SaveBegins, TInv, StoreType
  <2>3. QED
    BY <2>1, <2>2 DEF Outside, TInv, StoreType, FilesType, WorldType, SaveBegins,
                      registry
<1>2. CASE Return("error")
  BY <1>1, <1>2, ReturnTInv
<1>3. CASE Goto("write") /\ UNCHANGED <<creating, vault, previous, purpose>>
  <2>1. ControlInv'
    BY <1>3 DEF TInv, ControlInv, Goto, InSave, Syncing, history, SaveBegins
  <2>2. QED
    BY <1>1, <1>3, <2>1, GotoTInv DEF TInv, StoreType, ControlType, PCs
<1>4. QED
  BY <1>2, <1>3 DEF SaveBegins, Refuse

LEMMA WriteTInv ==
  ASSUME TInv, WriteProtectedFile
  PROVE  TInv'
<1>0. vault \in Vaults
  BY DEF TInv, ControlInv, InSave, WriteProtectedFile
<1>1. Outside'
  <2>1. (Fault \/ NoFault) /\ live' = live /\ tmp' \in Contents
    BY <1>0 DEF WriteProtectedFile, Goto, Return, TInv, StoreType, FilesType, Contents
  <2>2. LimitsType'
    BY <2>1, FaultType DEF WriteProtectedFile, TInv, StoreType
  <2>3. QED
    BY <2>1, <2>2 DEF Outside, TInv, StoreType, FilesType, WorldType,
                      WriteProtectedFile, registry
<1>2. CASE Return("error")
  BY <1>1, <1>2, ReturnTInv
<1>3. CASE Goto("backup") /\ UNCHANGED <<creating, vault, previous, purpose>>
  <2>1. ControlInv'
    BY <1>3 DEF TInv, ControlInv, Goto, InSave, Syncing, history,
                WriteProtectedFile
  <2>2. QED
    BY <1>1, <1>3, <2>1, GotoTInv DEF TInv, StoreType, ControlType, PCs
<1>4. QED
  BY <1>2, <1>3 DEF WriteProtectedFile

LEMMA AfterBackupTInv ==
  ASSUME TInv, pc \in {"backup", "copy"}, AfterBackup, Outside',
         previous' \in Vaults \cup {NoVault}
  PROVE  TInv'
<1>1. vault \in Vaults
  BY DEF TInv, ControlInv, InSave
<1>2. CASE HasEnforcedAccounts
  <2>1. ControlInv'
    BY <1>1, <1>2 DEF AfterBackup, TInv, ControlInv, Goto, InSave, Syncing, history
  <2>2. QED
    BY <1>2, <2>1, GotoTInv DEF AfterBackup, TInv, StoreType, ControlType, PCs, Purposes
<1>3. CASE ~ HasEnforcedAccounts
  <2>1. ControlInv'
    BY <1>1, <1>3 DEF AfterBackup, TInv, ControlInv, Goto, InSave, Syncing, history
  <2>2. QED
    BY <1>3, <2>1, GotoTInv DEF AfterBackup, TInv, StoreType, ControlType, PCs, Purposes
<1>4. QED  BY <1>2, <1>3

LEMMA BackupTInv ==
  ASSUME TInv, BackupPrevious
  PROVE  TInv'
<1>1. PICK p \in Reads(primary), b \in Reads(bak) :
        Reading(p, b) /\ BackupOutcome(p, b)
  BY DEF BackupPrevious
<1>2. Outside'
  <2>1. /\ Fault \/ NoFault
        /\ live' = live /\ tmp' \in Contents /\ bak' \in Contents
    BY <1>1 DEF BackupOutcome, AfterBackup, Goto, Return, TInv, StoreType, FilesType,
                Contents
  <2>2. LimitsType'
    BY <1>1, <2>1, ReadingType DEF TInv, StoreType
  <2>3. QED
    BY <2>1, <2>2 DEF Outside, TInv, StoreType, FilesType, WorldType, BackupPrevious,
                      registry
<1>3. CASE /\ p \in Vaults /\ previous' = p /\ Goto("copy")
           /\ UNCHANGED <<creating, vault, purpose>>
  <2>1. ControlInv'
    BY <1>3 DEF TInv, ControlInv, Goto, InSave, Syncing, history, BackupPrevious
  <2>2. QED
    BY <1>2, <1>3, <2>1, GotoTInv DEF TInv, StoreType, ControlType, PCs
<1>4. CASE previous' = FirstValid(p, b) /\ AfterBackup
  BY <1>2, <1>4, AfterBackupTInv, FirstValidType DEF BackupPrevious
<1>5. CASE Return("error")
  BY <1>2, <1>5, ReturnTInv
<1>6. QED
  BY <1>1, <1>3, <1>4, <1>5 DEF BackupOutcome

LEMMA CopyTInv ==
  ASSUME TInv, CopyToBackup
  PROVE  TInv'
<1>1. Outside'
  <2>1. /\ Fault \/ NoFault
        /\ live' = live /\ tmp' \in Contents /\ bak' \in Contents
    BY DEF CopyToBackup, AfterBackup, Goto, Return, TInv, StoreType, FilesType, Contents
  <2>2. LimitsType'
    BY <2>1, FaultType DEF CopyToBackup, TInv, StoreType
  <2>3. QED
    BY <2>1, <2>2 DEF Outside, TInv, StoreType, FilesType, WorldType, CopyToBackup,
                      registry
<1>2. CASE Return("error")
  BY <1>1, <1>2, ReturnTInv
<1>3. CASE AfterBackup /\ UNCHANGED previous
  BY <1>1, <1>3, AfterBackupTInv DEF CopyToBackup, TInv, StoreType, ControlType
<1>4. QED
  BY <1>2, <1>3 DEF CopyToBackup

LEMMA UndoTInv ==
  ASSUME TInv, pc \in InSave, UndoPolicy, Outside'
  PROVE  TInv'
<1>1. vault \in Vaults
  BY DEF TInv, ControlInv
<1>2. CASE previous # NoVault
  <2>1. ControlInv'
    BY <1>1, <1>2 DEF UndoPolicy, TInv, StoreType, ControlType, ControlInv, Goto, InSave,
                      Syncing, history
  <2>2. QED
    BY <1>2, <2>1, GotoTInv DEF UndoPolicy, TInv, StoreType, ControlType, PCs, Purposes
<1>3. CASE previous = NoVault
  BY <1>3, ReturnTInv DEF UndoPolicy
<1>4. QED  BY <1>2, <1>3

LEMMA SaveReturnsTInv ==
  ASSUME TInv, pc \in InSave, SaveReturns, Outside'
  PROVE  TInv'
<1>1. vault \in Vaults
  BY DEF TInv, ControlInv
<1>2. CASE creating
  <2>1. ControlInv'
    BY <1>1, <1>2 DEF SaveReturns, TInv, ControlInv, Goto, InSave, Syncing, history
  <2>2. QED
    BY <1>2, <2>1, GotoTInv DEF SaveReturns, TInv, StoreType, ControlType, PCs, Purposes
<1>3. CASE ~ creating
  BY <1>3, ReturnTInv DEF SaveReturns
<1>4. QED  BY <1>2, <1>3

\* While the registry is written, purpose is one of four.
LEMMA SyncPurpose ==
  ASSUME TInv, pc \in Syncing
  PROVE  purpose \in {"refresh", "publish", "retract", "undo"}
BY DEF TInv, StoreType, ControlType, ControlInv, Purposes, Syncing

\* Only accounts are ever published.
LEMMA PolicyType ==
  ASSUME TInv, pc \in Syncing
  PROVE  Policy \subseteq Sids
BY EnforcedAreSids DEF Policy, TInv, ControlInv, Syncing, InSave

LEMMA SyncFailsTInv ==
  ASSUME TInv, pc \in Syncing, SyncFails, Outside'
  PROVE  TInv'
<1>0. pc \in InSave
  BY DEF Syncing, InSave
<1>1. CASE purpose \in {"refresh", "undo"}
  BY <1>1, ReturnTInv DEF SyncFails
<1>2. CASE purpose = "publish"
  BY <1>0, <1>2, UndoTInv DEF SyncFails
<1>3. CASE purpose = "retract" /\ previous = NoVault
  BY <1>3, ReturnTInv DEF SyncFails
<1>4. CASE purpose = "retract" /\ previous # NoVault
  <2>1. Goto("restore") /\ UNCHANGED <<creating, vault, previous, purpose>>
    BY <1>4 DEF SyncFails
  <2>2. ControlInv'
    BY <1>0, <1>4, <2>1 DEF TInv, StoreType, ControlType, ControlInv, Goto, InSave,
                            Syncing, history
  <2>3. QED
    BY <1>4, <2>1, <2>2, GotoTInv DEF TInv, StoreType, ControlType, PCs
<1>5. QED
  BY <1>1, <1>2, <1>3, <1>4, SyncPurpose

LEMMA SyncFailsOutside ==
  ASSUME TInv, pc \in Syncing, SyncFails
  PROVE  /\ Fault /\ live' = live /\ tmp' \in Contents
BY SyncPurpose DEF SyncFails, UndoPolicy, Goto, Return, TInv, StoreType, FilesType,
                   Contents

LEMMA EnforcedSidsTInv ==
  ASSUME TInv, WriteEnforcedSids
  PROVE  TInv'
<1>0. pc \in Syncing /\ pc = "sids" /\ pc \in InSave
  BY DEF WriteEnforcedSids, Syncing, InSave
<1>1. Outside'
  <2>1. /\ Fault \/ NoFault
        /\ live' = live /\ tmp' \in Contents /\ regSids' \subseteq Sids
    BY <1>0, SyncFailsOutside, PolicyType
       DEF WriteEnforcedSids, Goto, TInv, StoreType, FilesType, WorldType
  <2>2. LimitsType'
    BY <2>1, FaultType DEF WriteEnforcedSids, TInv, StoreType
  <2>3. QED
    BY <2>1, <2>2 DEF Outside, TInv, StoreType, FilesType, WorldType, WriteEnforcedSids
<1>2. CASE SyncFails
  BY <1>0, <1>1, <1>2, SyncFailsTInv
<1>3. CASE Goto("filter") /\ UNCHANGED <<creating, vault, previous, purpose>>
  <2>1. ControlInv'
    BY <1>0, <1>3 DEF TInv, ControlInv, Goto, InSave, Syncing, history
  <2>2. QED
    BY <1>1, <1>3, <2>1, GotoTInv DEF TInv, StoreType, ControlType, PCs
<1>4. QED
  BY <1>2, <1>3 DEF WriteEnforcedSids

LEMMA EnableFilterTInv ==
  ASSUME TInv, WriteEnableFilter
  PROVE  TInv'
<1>0. pc \in Syncing /\ pc = "filter" /\ pc \in InSave
  BY DEF WriteEnableFilter, Syncing, InSave
<1>1. Outside'
  <2>1. /\ Fault \/ NoFault
        /\ live' = live /\ tmp' \in Contents
    BY <1>0, SyncFailsOutside, SyncPurpose
       DEF WriteEnableFilter, SyncSucceeds, SaveReturns, Goto, Return, TInv, StoreType,
           FilesType
  <2>2. LimitsType'
    BY <2>1, FaultType DEF WriteEnableFilter, TInv, StoreType
  <2>3. filterOn' \in BOOLEAN
    BY DEF WriteEnableFilter, TInv, StoreType, WorldType
  <2>4. QED
    BY <2>1, <2>2, <2>3 DEF Outside, TInv, StoreType, FilesType, WorldType,
                            WriteEnableFilter
<1>2. CASE SyncFails
  BY <1>0, <1>1, <1>2, SyncFailsTInv
<1>3. CASE SyncSucceeds
  <2>1. CASE purpose = "refresh"
    BY <1>1, <1>3, <2>1, ReturnTInv DEF SyncSucceeds
  <2>2. CASE purpose = "undo"
    BY <1>1, <1>3, <2>2, ReturnTInv DEF SyncSucceeds
  <2>3. CASE purpose = "retract"
    BY <1>0, <1>1, <1>3, <2>3, SaveReturnsTInv DEF SyncSucceeds
  <2>4. CASE purpose = "publish"
    <3>1. Goto("move") /\ UNCHANGED <<creating, vault, previous, purpose>>
      BY <1>3, <2>4 DEF SyncSucceeds
    <3>2. ControlInv'
      BY <1>0, <2>4, <3>1 DEF TInv, ControlInv, Goto, InSave, Syncing, history
    <3>3. QED
      BY <1>1, <3>1, <3>2, GotoTInv DEF TInv, StoreType, ControlType, PCs
  <2>5. QED
    BY <1>0, <2>1, <2>2, <2>3, <2>4, SyncPurpose
<1>4. QED
  BY <1>2, <1>3 DEF WriteEnableFilter

LEMMA ReplaceTInv ==
  ASSUME TInv, ReplacePrimary
  PROVE  TInv'
<1>0. pc \in InSave /\ pc = "move"
  BY DEF ReplacePrimary, InSave
<1>1. Outside'
  <2>1. /\ Fault \/ NoFault
        /\ live' = live
    BY DEF ReplacePrimary, SaveReturns, UndoPolicy, Goto, Return
  <2>2. LimitsType'
    BY <2>1, FaultType DEF ReplacePrimary, TInv, StoreType
  <2>3. QED
    BY <2>1, <2>2 DEF Outside, TInv, StoreType, FilesType, WorldType, ReplacePrimary,
                      registry, Contents
<1>2. CASE SaveReturns
  BY <1>0, <1>1, <1>2, SaveReturnsTInv
<1>3. CASE UndoPolicy
  BY <1>0, <1>1, <1>3, UndoTInv
<1>4. CASE Return("error")
  BY <1>1, <1>4, ReturnTInv
<1>5. CASE /\ purpose' = "retract" /\ Goto("sids")
           /\ UNCHANGED <<creating, vault, previous>>
  <2>1. ControlInv'
    BY <1>0, <1>5 DEF TInv, ControlInv, Goto, InSave, Syncing, history
  <2>2. QED
    BY <1>1, <1>5, <2>1, GotoTInv DEF TInv, StoreType, ControlType, PCs, Purposes
<1>6. QED
  BY <1>2, <1>3, <1>4, <1>5 DEF ReplacePrimary

LEMMA RestoreTInv ==
  ASSUME TInv, RestoreCopiesBackup \/ RestoreReplacesPrimary
  PROVE  TInv'
<1>0. pc \in {"restore", "rollback"}
  BY DEF RestoreCopiesBackup, RestoreReplacesPrimary
<1>1. Outside'
  <2>1. /\ Fault \/ NoFault
        /\ live' = live
    BY DEF RestoreCopiesBackup, RestoreReplacesPrimary, Goto
  <2>2. LimitsType'
    BY <2>1, FaultType DEF RestoreCopiesBackup, RestoreReplacesPrimary, TInv, StoreType
  <2>3. QED
    BY <2>1, <2>2 DEF Outside, TInv, StoreType, FilesType, WorldType,
         RestoreCopiesBackup, RestoreReplacesPrimary, registry, Contents
<1>2. CASE Goto("rollback") /\ UNCHANGED <<purpose, creating, vault, previous>>
  <2>1. ControlInv'
    BY <1>0, <1>2 DEF TInv, ControlInv, Goto, InSave, Syncing, history
  <2>2. QED
    BY <1>1, <1>2, <2>1, GotoTInv DEF TInv, StoreType, ControlType, PCs
<1>3. CASE /\ purpose' = "undo" /\ Goto("sids")
           /\ UNCHANGED <<creating, vault, previous>>
  <2>1. ControlInv'
    BY <1>0, <1>3 DEF TInv, ControlInv, Goto, InSave, Syncing, history
  <2>2. QED
    BY <1>1, <1>3, <2>1, GotoTInv DEF TInv, StoreType, ControlType, PCs, Purposes
<1>4. QED
  BY <1>2, <1>3 DEF RestoreCopiesBackup, RestoreReplacesPrimary

LEMMA NextTInv == TInv /\ [Next]_vars => TInv'
<1> SUFFICES ASSUME TInv, [Next]_vars PROVE TInv'
  OBVIOUS
<1>1. CASE Step
  BY <1>1, LoadTInv, ApplyTInv, SaveBeginsTInv, WriteTInv, BackupTInv, CopyTInv,
     EnforcedSidsTInv, EnableFilterTInv, ReplaceTInv, RestoreTInv DEF Step, StoreStep
<1>2. CASE UNCHANGED vars
  BY <1>2 DEF vars, files, registry, control, limits, history, TInv, StoreType,
              FilesType, WorldType, ControlType, LimitsType, HistoryType, ControlInv
<1>3. QED
  BY <1>1, <1>2, EnvironmentTInv DEF Next

\* Every state has well-typed variables: LocalCredentialStore only ever holds
\* vaults of the expected shape, in every step of every call.
THEOREM TypeCorrect == Spec => []TypeOK
<1> DEFINE RpIdType == rpId \in Machines \cup {None}
<1>1. TInv /\ RpIdType => TypeOK
  BY DEF TInv, StoreType, TypeOK
<1>2. Init => RpIdType
  BY DEF Init
<1>3. RpIdType /\ [Next]_vars => RpIdType'
  <2> SUFFICES ASSUME RpIdType, [Next]_vars PROVE RpIdType'
    OBVIOUS
  <2>1. Durable' # NoVault => Durable'.machine \in Machines
    <3>1. Durable' \in Vaults \cup {NoVault}
      BY DEF Durable, FirstValid
    <3>2. QED  BY <3>1 DEF Vaults
  <2>2. QED
    BY <2>1 DEF Next, Step, RecordRpId, Restart, Crash, Reboot, Damage, Begin,
                DeleteAccount, vars
<1>4. QED
  BY <1>1, <1>2, <1>3, InitTInv, NextTInv, PTL DEF Spec

\* Lost bytes stay counted.
LEMMA LossesGrow ==
  ASSUME losses \in Nat, [Next]_vars
  PROVE  losses <= losses'
<1>1. CASE Load \/ BackupPrevious
  <2>1. PICK p, b : Reading(p, b)
    BY <1>1 DEF Load, BackupPrevious
  <2>2. QED
    BY <2>1 DEF Reading, Lost
<1>2. CASE Damage
  BY <1>2 DEF Damage
<1>3. CASE UNCHANGED losses
  BY <1>3
<1>4. QED
  BY <1>1, <1>2, <1>3
     DEF Next, Step, StoreStep, vars, limits, Apply, SaveBegins, WriteProtectedFile,
         CopyToBackup, WriteEnforcedSids, WriteEnableFilter, ReplacePrimary,
         RestoreCopiesBackup, RestoreReplacesPrimary, Restart, Crash, Reboot, Begin,
         DeleteAccount

-----------------------------------------------------------------------------
(* The files and the policy.                                                *)

LEMMA FirstValidIs ==
  ASSUME NEW p, NEW b
  PROVE  /\ p \in Vaults => FirstValid(p, b) = p
         /\ p \notin Vaults /\ b \notin Vaults => FirstValid(p, b) = NoVault
BY DEF FirstValid

LEMMA EnforcingIs ==
  /\ Enforcing(NoVault) = {}
  /\ \A v \in Vaults : Enforcing(v) = v.enforced
BY VaultAssumption DEF Enforcing

LEMMA NotVaults == Absent \notin Vaults /\ Damaged \notin Vaults /\ NoVault \notin Vaults
BY StoreAssumption, VaultAssumption

LEMMA InitSInv == Init => SInv
BY NotVaults, FirstValidIs, EnforcingIs
   DEF Init, SInv, FilesInv, PolicyInv, Durable, InSave, Syncing

\* The registry and the durable vault are right whenever a call returns.
LEMMA ReturnSInv ==
  ASSUME IInv, SInv, NEW o \in {"ok", "error"}, Return(o),
         primary' \in Vaults \cup {Absent}, primary' = Absent => bak' \notin Vaults,
         Enforcing(Durable') # {} => filterOn',
         acked \subseteq Enforcing(Durable') \cap regSids',
         o = "ok" => /\ primary' \in Vaults /\ vault = primary'
                     /\ regSids' = vault.enforced
                     /\ filterOn' = (vault.enforced # {}),
         o = "ok" /\ call.op = "enable" => call.sid \in vault.enforced
  PROVE  SInv'
<1>1. pc' \in {"idle", "stopped"} /\ vault' = vault /\ live' = live /\ result' = o
  BY DEF Return
<1>2. FilesInv'
  BY <1>1 DEF FilesInv, Syncing
<1>3. acked' \subseteq Enforcing(Durable') \cap regSids' \cap live'
  <2>1. acked \subseteq live
    BY DEF SInv, PolicyInv
  <2>2. o = "ok" => Enforcing(Durable') = vault.enforced
    BY FirstValidIs, EnforcingIs DEF Durable
  <2>3. QED
    BY <1>1, <2>1, <2>2 DEF Return
<1>4. PolicyInv'
  BY <1>1, <1>3 DEF PolicyInv, InSave, Syncing
<1>5. QED
  BY <1>2, <1>4 DEF SInv

\* An error before anything but the temporary file and the backup has been
\* touched.
LEMMA EarlyErrorSInv ==
  ASSUME IInv, SInv, Return("error"), UNCHANGED <<primary, registry>>,
         primary \in Vaults \/ UNCHANGED bak
  PROVE  SInv'
<1>1. Durable' = Durable
  BY FirstValidIs DEF Durable
<1>2. QED
  BY <1>1, ReturnSInv, NotVaults DEF SInv, FilesInv, PolicyInv, registry

LEMMA EnvironmentSInv ==
  ASSUME IInv, SInv, losses' = 0,
         \/ Restart \/ Crash \/ Reboot \/ Damage
         \/ \E c \in Requests : Begin(c)
         \/ \E s \in Deletable : DeleteAccount(s)
  PROVE  SInv'
<1> USE DEF SInv, FilesInv, PolicyInv, Durable, InSave, Syncing, files, registry,
            control, limits, history, Policy
<1>1. CASE Restart  BY <1>1 DEF Restart
<1>2. CASE Crash  BY <1>2 DEF Crash
<1>3. CASE Reboot  BY <1>3 DEF Reboot
<1>4. CASE Damage
  BY <1>4, StoreAssumption DEF Damage, IInv, StoreType, LimitsType
<1>5. CASE \E c \in Requests : Begin(c)  BY <1>5 DEF Begin
<1>6. CASE \E s \in Deletable : DeleteAccount(s)  BY <1>6 DEF DeleteAccount
<1>7. QED  BY <1>1, <1>2, <1>3, <1>4, <1>5, <1>6

\* Reads that lose nothing return what the files hold.
LEMMA ReadingWhole ==
  ASSUME losses = 0, losses' = 0, NEW p, NEW b, Reading(p, b)
  PROVE  p = primary /\ b = bak
BY DEF Reading, Lost

LEMMA LoadSInv ==
  ASSUME IInv, SInv, losses = 0, losses' = 0, Load
  PROVE  SInv'
<1>0. pc = "load" /\ UNCHANGED <<files, registry>>
  BY DEF Load
<1>1. LoadOutcome(primary, bak)
  BY ReadingWhole DEF Load
<1>2. CASE /\ FirstValid(primary, bak) # NoVault
           /\ vault' = FirstValid(primary, bak) /\ Goto("apply")
  <2>1. primary \in Vaults /\ vault' = primary
    BY <1>2, FirstValidIs DEF SInv, FilesInv
  <2>2. QED
    BY <1>0, <1>2, <2>1 DEF SInv, FilesInv, PolicyInv, Goto, history, files, registry,
                            InSave, Syncing, Durable
<1>3. CASE /\ FirstValid(primary, bak) = NoVault
           /\ \E m \in Machines : vault' = EmptyVault(m)
           /\ Goto("save") /\ UNCHANGED <<previous, purpose>>
  <2>1. vault' \in Vaults /\ vault'.enforced = {}
    BY <1>3, EmptyIsVault
  <2>2. acked = {}
    BY <1>3, EnforcingIs DEF SInv, PolicyInv, Durable
  <2>3. QED
    BY <1>0, <1>3, <2>1, <2>2 DEF SInv, FilesInv, PolicyInv, Goto, history, files,
                                  registry, InSave, Syncing, Durable
<1>4. CASE Return("error")
  BY <1>0, <1>4, EarlyErrorSInv DEF files
<1>5. QED
  BY <1>1, <1>2, <1>3, <1>4 DEF LoadOutcome

\* A save may begin when the changed vault still enforces every account that
\* was promised.
LEMMA SaveVaultSInv ==
  ASSUME IInv, SInv, pc = "apply", NEW v \in Vaults, SaveVault(v),
         UNCHANGED <<files, registry>>, acked \subseteq v.enforced
  PROVE  SInv'
BY DEF SInv, FilesInv, PolicyInv, SaveVault, Goto, history, files, registry,
       InSave, Syncing, Durable

LEMMA ApplySInv ==
  ASSUME IInv, SInv, Apply
  PROVE  SInv'
<1>1. /\ vault \in Vaults /\ pc = "apply" /\ call \in Calls
      /\ UNCHANGED <<files, registry>>
  BY DEF Apply, IInv, ControlInv, StoreType, ControlType
<1>2. acked \subseteq vault.enforced /\ acked \subseteq live
  BY <1>1, FirstValidIs, EnforcingIs DEF SInv, FilesInv, PolicyInv, Durable
<1>3. CASE Return("error")
  BY <1>1, <1>3, EarlyErrorSInv DEF files
<1>4. CASE RefreshLocalAccounts
  <2>1. CASE SaveVault(Keep(vault, live))
    BY <1>1, <1>2, <2>1, KeepIsVault, SaveVaultSInv
  <2>2. CASE /\ purpose' = "refresh" /\ Goto("sids")
             /\ UNCHANGED <<vault, creating, previous>>
    BY <1>1, <1>2, <2>2 DEF SInv, FilesInv, PolicyInv, Goto, history, files, registry,
                      InSave, Syncing, Durable
  <2>3. QED
    BY <1>3, <1>4, <2>1, <2>2 DEF RefreshLocalAccounts
<1>5. CASE UpsertAccount
  BY <1>1, <1>2, <1>3, <1>5, SaveVaultSInv DEF UpsertAccount, Refuse
<1>6. CASE CommitRegistration
  <2> DEFINE v == [vault EXCEPT !.accounts = @ \cup {call.sid},
                                !.keys = @ \cup {<<call.sid, call.key>>}]
  <2>1. v \in Vaults /\ v.enforced = vault.enforced
    <3>1. call.sid \in Sids /\ call.key \in Keys
      BY <1>1, <1>6, CallFields DEF CommitRegistration
    <3>2. v \in Vaults
      BY <1>1, <3>1, RegisteredIsVault
    <3>3. QED  BY <1>1, <3>2 DEF Vaults
  <2>2. SaveVault(v) => SInv'
    <3> HIDE DEF v
    <3>1. QED  BY <1>1, <1>2, <2>1, SaveVaultSInv
  <2>3. QED
    BY <1>3, <1>6, <2>2 DEF CommitRegistration, Refuse
<1>7. CASE RemoveCredential
  <2> DEFINE K == vault.keys \ {<<call.sid, call.key>>}
             v == [vault EXCEPT !.keys = K]
  <2>1. K \in SUBSET (Sids \X Keys)
    BY <1>1 DEF Vaults
  <2>2. v \in Vaults /\ v.enforced = vault.enforced
    <3> HIDE DEF K
    <3>1. v \in Vaults  BY <1>1, <2>1, WithKeysIsVault
    <3>2. QED  BY <1>1, <3>1 DEF Vaults
  <2>3. SaveVault(v) => SInv'
    <3> HIDE DEF v
    <3>1. QED  BY <1>1, <1>2, <2>2, SaveVaultSInv
  <2>4. QED
    BY <1>3, <1>7, <2>3 DEF RemoveCredential, Refuse
<1>8. CASE SetEnforced
  <2> DEFINE v == [vault EXCEPT !.enforced =
                     IF call.op = "enable" THEN @ \cup {call.sid}
                                           ELSE @ \ {call.sid}]
  <2>1. v \in Vaults
    BY <1>1, <1>8, CallFields DEF Vaults, SetEnforced
  <2>2. acked \subseteq v.enforced
    <3>1. call.op # "enable" => call.sid \notin acked
      BY <1>1, <1>8 DEF SetEnforced, IInv, ControlInv
    <3>2. v.enforced = IF call.op = "enable" THEN vault.enforced \cup {call.sid}
                                             ELSE vault.enforced \ {call.sid}
      BY <1>1 DEF Vaults
    <3>3. QED  BY <1>2, <3>1, <3>2
  <2>3. SaveVault(v) => SInv'
    <3> HIDE DEF v
    <3>1. QED  BY <1>1, <2>1, <2>2, SaveVaultSInv
  <2>4. QED
    BY <1>3, <1>8, <2>3 DEF SetEnforced, Refuse
<1>9. QED
  BY <1>4, <1>5, <1>6, <1>7, <1>8 DEF Apply

\* Steps that touch the temporary file only.
LEMMA TemporarySInv ==
  ASSUME IInv, SInv, SaveBegins \/ WriteProtectedFile
  PROVE  SInv'
<1>1. pc \in {"save", "write"} /\ UNCHANGED <<primary, bak, rollback, registry>>
  BY DEF SaveBegins, WriteProtectedFile
<1>2. CASE Return("error")
  BY <1>1, <1>2, EarlyErrorSInv
<1>3. CASE Goto("write") /\ UNCHANGED <<creating, vault, previous, purpose>>
  BY <1>1, <1>3 DEF SInv, FilesInv, PolicyInv, Goto, history, registry, InSave,
                    Syncing, Durable
<1>4. CASE /\ tmp' = vault /\ Goto("backup")
           /\ UNCHANGED <<creating, vault, previous, purpose>>
  BY <1>1, <1>4 DEF SInv, FilesInv, PolicyInv, Goto, history, registry, InSave,
                    Syncing, Durable
<1>5. QED
  BY <1>2, <1>3, <1>4 DEF SaveBegins, WriteProtectedFile, Refuse

\* The backup is settled: publish the policy, or replace the primary.
LEMMA AfterBackupSInv ==
  ASSUME IInv, SInv, pc \in {"backup", "copy"}, AfterBackup,
         UNCHANGED <<primary, tmp, registry>>, previous' = Durable', Durable' = Durable,
         primary = Absent => bak' \notin Vaults,
         previous' # NoVault => bak' = previous'
  PROVE  SInv'
<1>1. /\ UNCHANGED <<vault, acked, live, regSids, filterOn>>
      /\ IF vault.enforced # {} THEN pc' = "sids" /\ purpose' = "publish"
                                ELSE pc' = "move" /\ purpose' = "none"
  BY DEF AfterBackup, Goto, history, registry, HasEnforcedAccounts
<1>2. FilesInv'
  BY <1>1 DEF SInv, FilesInv, Syncing
<1>3. acked \subseteq vault.enforced
  BY DEF SInv, PolicyInv, InSave, IInv, ControlInv, Syncing
<1>4. PolicyInv'
  BY <1>1, <1>3 DEF SInv, PolicyInv, InSave, Syncing
<1>5. QED
  BY <1>2, <1>4 DEF SInv

LEMMA BackupSInv ==
  ASSUME IInv, SInv, losses = 0, losses' = 0, BackupPrevious
  PROVE  SInv'
<1>0. pc = "backup" /\ UNCHANGED <<primary, rollback, registry>>
  BY DEF BackupPrevious
<1>1. BackupOutcome(primary, bak)
  BY ReadingWhole DEF BackupPrevious
<1>2. CASE /\ primary \in Vaults /\ previous' = primary /\ Goto("copy")
           /\ UNCHANGED <<tmp, creating, vault, purpose>>
  <2>1. Durable' = Durable
    BY <1>0, <1>2, FirstValidIs DEF Durable
  <2>2. QED
    BY <1>0, <1>2, <2>1, NotVaults
       DEF SInv, FilesInv, PolicyInv, Goto, history, registry, InSave, Syncing
<1>3. CASE primary \in Vaults /\ Return("error")
  BY <1>0, <1>3, EarlyErrorSInv
<1>4. CASE /\ primary \notin Vaults
           /\ previous' = FirstValid(primary, bak) /\ AfterBackup
           /\ UNCHANGED <<bak, tmp>>
  <2>1. Durable' = Durable /\ previous' = Durable'
    BY <1>0, <1>4 DEF Durable
  <2>2. primary = Absent /\ bak \notin Vaults /\ previous' = NoVault
    BY <1>4, FirstValidIs DEF SInv, FilesInv
  <2>3. QED
    BY <1>0, <1>4, <2>1, <2>2, AfterBackupSInv
<1>5. QED
  BY <1>1, <1>2, <1>3, <1>4 DEF BackupOutcome

LEMMA CopySInv ==
  ASSUME IInv, SInv, CopyToBackup
  PROVE  SInv'
<1>0. /\ pc = "copy" /\ UNCHANGED <<primary, rollback, registry>>
      /\ primary \in Vaults /\ previous = primary
  BY DEF CopyToBackup, SInv, FilesInv
<1>1. CASE Return("error")
  BY <1>0, <1>1, EarlyErrorSInv
<1>2. CASE bak' = primary /\ AfterBackup /\ UNCHANGED <<tmp, previous>>
  <2>1. Durable' = Durable /\ previous' = Durable'
    BY <1>0, <1>2, FirstValidIs DEF Durable
  <2>2. QED
    BY <1>0, <1>2, <2>1, NotVaults, AfterBackupSInv
<1>3. QED
  BY <1>1, <1>2 DEF CopyToBackup

\* Undoing the publication: nothing but the temporary file has been touched.
LEMMA UndoSInv ==
  ASSUME IInv, SInv, UndoPolicy, UNCHANGED <<primary, bak, rollback>>,
         pc \in InSave, previous = Durable,
         Enforcing(Durable) # {} => filterOn',
         acked \subseteq regSids'
  PROVE  SInv'
<1>1. Durable' = Durable
  BY DEF Durable
<1>2. acked \subseteq Enforcing(Durable) /\ acked \subseteq live
  BY DEF SInv, PolicyInv
<1>3. CASE previous = NoVault
  <2>1. Return("error")
    BY <1>3 DEF UndoPolicy
  <2>2. QED
    BY <1>1, <1>2, <2>1, ReturnSInv DEF SInv, FilesInv
<1>4. CASE previous # NoVault
  <2>1. /\ purpose' = "undo" /\ pc' = "sids"
        /\ UNCHANGED <<vault, previous, live, acked>>
    BY <1>4 DEF UndoPolicy, Goto, history
  <2>2. Enforcing(Durable) = previous.enforced
    BY <1>4 DEF Enforcing
  <2>3. FilesInv'
    BY <1>1, <2>1 DEF SInv, FilesInv, Syncing
  <2>4. PolicyInv'
    BY <1>1, <1>2, <2>1, <2>2 DEF PolicyInv, InSave, Syncing
  <2>5. QED
    BY <2>3, <2>4 DEF SInv
<1>5. QED  BY <1>3, <1>4

\* A registry value that cannot be written leaves both values as they are.
LEMMA SyncFailsSInv ==
  ASSUME IInv, SInv, pc \in Syncing, SyncFails,
         UNCHANGED <<primary, bak, rollback, registry>>
  PROVE  SInv'
<1>0. purpose \in {"refresh", "publish", "retract", "undo"} /\ pc \in InSave
  BY SyncPurpose DEF IInv, TInv, Syncing, InSave
<1>1. Durable' = Durable
  BY DEF Durable
<1>2. CASE Return("error")
  BY <1>1, <1>2, ReturnSInv DEF SInv, FilesInv, PolicyInv, registry
<1>3. CASE purpose = "publish"
  <2>1. UndoPolicy /\ previous = Durable
    BY <1>3 DEF SyncFails, SInv, FilesInv
  <2>2. (Enforcing(Durable) # {} => filterOn') /\ acked \subseteq regSids'
    BY DEF SInv, PolicyInv, registry
  <2>3. QED
    BY <1>0, <2>1, <2>2, UndoSInv
<1>4. CASE purpose = "retract" /\ previous # NoVault
  <2>1. /\ pc' = "restore"
        /\ UNCHANGED <<vault, previous, purpose, tmp, live, acked>>
    BY <1>4 DEF SyncFails, Goto, history
  <2>2. FilesInv'
    BY <1>1, <1>4, <2>1 DEF SInv, FilesInv, Syncing
  <2>3. PolicyInv'
    BY <1>0, <1>1, <1>4, <2>1 DEF SInv, PolicyInv, InSave, Syncing, registry
  <2>4. QED
    BY <2>2, <2>3 DEF SInv
<1>5. QED
  BY <1>0, <1>2, <1>3, <1>4 DEF SyncFails

LEMMA EnforcedSidsSInv ==
  ASSUME IInv, SInv, WriteEnforcedSids
  PROVE  SInv'
<1>0. /\ pc = "sids" /\ pc \in Syncing /\ pc \in InSave
      /\ UNCHANGED <<primary, bak, rollback, filterOn>>
  BY DEF WriteEnforcedSids, Syncing, InSave
<1>1. CASE SyncFails /\ UNCHANGED regSids
  BY <1>0, <1>1, SyncFailsSInv DEF registry
<1>2. CASE /\ regSids' = Policy /\ Goto("filter")
           /\ UNCHANGED <<tmp, creating, vault, previous, purpose>>
  <2>1. Durable' = Durable /\ Policy' = Policy
    BY <1>0, <1>2 DEF Durable, Policy
  <2>2. FilesInv'
    BY <1>0, <1>2, <2>1 DEF SInv, FilesInv, Goto, Syncing
  <2>3. acked \subseteq Policy
    BY <1>0 DEF Policy, SInv, PolicyInv
  <2>4. PolicyInv'
    BY <1>0, <1>2, <2>1, <2>3 DEF SInv, PolicyInv, Goto, history, InSave, Syncing
  <2>5. QED
    BY <2>2, <2>4 DEF SInv
<1>3. QED
  BY <1>1, <1>2 DEF WriteEnforcedSids

\* Success, once both registry values agree with the durable vault.
LEMMA SaveReturnsSInv ==
  ASSUME IInv, SInv, pc \in InSave, SaveReturns,
         primary' \in Vaults, vault = primary',
         regSids' = vault.enforced, filterOn' = (vault.enforced # {}),
         acked \subseteq vault.enforced
  PROVE  SInv'
<1>1. Enforcing(Durable') = vault.enforced
  BY FirstValidIs, EnforcingIs DEF Durable
<1>2. CASE creating
  <2>1. /\ pc' = "apply" /\ purpose' = "none"
        /\ UNCHANGED <<vault, live, acked>>
    BY <1>2 DEF SaveReturns, Goto, history
  <2>2. FilesInv'
    BY <2>1, NotVaults DEF FilesInv, Syncing
  <2>3. PolicyInv'
    BY <1>1, <2>1 DEF SInv, PolicyInv, InSave, Syncing
  <2>4. QED
    BY <2>2, <2>3 DEF SInv
<1>3. CASE ~ creating
  <2>1. call.op = "enable" => call.sid \in vault.enforced
    BY <1>3 DEF IInv, ControlInv
  <2>2. Return("ok")
    BY <1>3 DEF SaveReturns
  <2>3. (Enforcing(Durable') # {} => filterOn')
        /\ acked \subseteq Enforcing(Durable') \cap regSids'
    BY <1>1
  <2>4. QED
    BY <2>1, <2>2, <2>3, ReturnSInv, NotVaults
<1>4. QED  BY <1>2, <1>3

LEMMA EnableFilterSInv ==
  ASSUME IInv, SInv, WriteEnableFilter
  PROVE  SInv'
<1>0. /\ pc = "filter" /\ pc \in Syncing /\ pc \in InSave
      /\ UNCHANGED <<primary, bak, rollback, regSids>>
      /\ purpose \in {"refresh", "publish", "retract", "undo"}
      /\ Durable' = Durable /\ vault \in Vaults
  BY SyncPurpose
     DEF WriteEnableFilter, Syncing, InSave, IInv, TInv, Durable, ControlInv
<1>1. CASE SyncFails /\ UNCHANGED filterOn
  BY <1>0, <1>1, SyncFailsSInv DEF registry
<1>2. CASE filterOn' = (Policy # {}) /\ SyncSucceeds /\ UNCHANGED tmp
  <2>0. regSids = Policy /\ acked \subseteq regSids
    BY <1>0 DEF SInv, PolicyInv
  <2>1. CASE purpose = "refresh"
    <3>1. vault = primary /\ Policy = vault.enforced /\ Return("ok")
      BY <1>0, <1>2, <2>1 DEF SInv, FilesInv, Policy, SyncSucceeds
    <3>2. Enforcing(Durable') = vault.enforced
      BY <1>0, <3>1, FirstValidIs, EnforcingIs DEF Durable
    <3>3. call.op = "enable" => call.sid \in vault.enforced
      BY <1>0, <2>1 DEF IInv, ControlInv
    <3>4. QED
      BY <1>0, <1>2, <2>0, <3>1, <3>2, <3>3, ReturnSInv, NotVaults
  <2>2. CASE purpose = "undo"
    <3>1. /\ previous \in Vaults /\ Policy = previous.enforced /\ Return("error")
          /\ Durable = previous \/ Enforcing(Durable) = {}
      BY <1>0, <1>2, <2>2
         DEF SInv, FilesInv, Policy, SyncSucceeds, IInv, ControlInv
    <3>2. Enforcing(Durable') # {} => filterOn'
      BY <1>0, <1>2, <3>1, EnforcingIs
    <3>3. QED
      BY <1>0, <3>1, <3>2, ReturnSInv DEF SInv, FilesInv, PolicyInv
  <2>3. CASE purpose = "retract"
    <3>1. vault = primary /\ Policy = vault.enforced /\ SaveReturns
      BY <1>0, <1>2, <2>3 DEF SInv, FilesInv, Policy, SyncSucceeds
    <3>2. QED
      BY <1>0, <1>2, <2>0, <3>1, SaveReturnsSInv
  <2>4. CASE purpose = "publish"
    <3>1. /\ pc' = "move" /\ UNCHANGED <<vault, previous, purpose, live, acked>>
          /\ Policy = vault.enforced
      BY <1>0, <1>2, <2>4 DEF SyncSucceeds, Goto, history, Policy
    <3>2. FilesInv'
      BY <1>0, <1>2, <2>4, <3>1 DEF SInv, FilesInv, Syncing
    <3>3. PolicyInv'
      BY <1>0, <1>2, <2>0, <2>4, <3>1 DEF SInv, PolicyInv, FilesInv, InSave, Syncing
    <3>4. QED
      BY <3>2, <3>3 DEF SInv
  <2>5. QED
    BY <1>0, <2>1, <2>2, <2>3, <2>4
<1>3. QED
  BY <1>1, <1>2 DEF WriteEnableFilter

LEMMA ReplaceSInv ==
  ASSUME IInv, SInv, ReplacePrimary
  PROVE  SInv'
<1>0. /\ pc = "move" /\ pc \in InSave /\ UNCHANGED <<bak, rollback, registry>>
      /\ tmp = vault /\ vault \in Vaults /\ previous = Durable
      /\ purpose # "undo" /\ acked \subseteq vault.enforced
  BY DEF ReplacePrimary, InSave, SInv, FilesInv, PolicyInv, IInv, ControlInv
<1>1. CASE primary' = tmp /\ HasEnforcedAccounts /\ SaveReturns
  <2>1. regSids' = vault.enforced /\ filterOn' = (vault.enforced # {})
    BY <1>0, <1>1 DEF HasEnforcedAccounts, SInv, PolicyInv, registry
  <2>2. QED
    BY <1>0, <1>1, <2>1, SaveReturnsSInv
<1>2. CASE /\ primary' = tmp /\ ~ HasEnforcedAccounts
           /\ purpose' = "retract" /\ Goto("sids")
           /\ UNCHANGED <<creating, vault, previous>>
  <2>1. Enforcing(Durable') = {}
    BY <1>0, <1>2, FirstValidIs, EnforcingIs DEF Durable, HasEnforcedAccounts
  <2>2. previous # NoVault => bak = previous
    BY <1>0 DEF SInv, FilesInv
  <2>3. FilesInv'
    BY <1>0, <1>2, <2>1, <2>2, NotVaults
       DEF SInv, FilesInv, Goto, Syncing, HasEnforcedAccounts
  <2>4. previous # NoVault /\ previous.enforced # {} => filterOn
    BY <1>0 DEF SInv, PolicyInv, Enforcing
  <2>5. PolicyInv'
    BY <1>0, <1>2, <2>1, <2>4
       DEF SInv, PolicyInv, Goto, history, registry, InSave, Syncing,
           HasEnforcedAccounts
  <2>6. QED
    BY <2>3, <2>5 DEF SInv
<1>3. CASE UNCHANGED primary /\ UndoPolicy
  <2>1. (Enforcing(Durable) # {} => filterOn') /\ acked \subseteq regSids'
    BY <1>0 DEF SInv, PolicyInv, registry
  <2>2. QED
    BY <1>0, <1>3, <2>1, UndoSInv
<1>4. CASE UNCHANGED primary /\ Return("error")
  BY <1>0, <1>4, EarlyErrorSInv
<1>5. QED
  BY <1>1, <1>2, <1>3, <1>4 DEF ReplacePrimary

LEMMA RestoreSInv ==
  ASSUME IInv, SInv, RestoreCopiesBackup \/ RestoreReplacesPrimary
  PROVE  SInv'
<1>0. /\ pc \in {"restore", "rollback"} /\ pc \in InSave /\ purpose = "retract"
      /\ bak = previous /\ previous \in Vaults /\ vault.enforced = {}
      /\ primary = vault /\ vault \in Vaults
      /\ pc = "rollback" => rollback = previous
      /\ UNCHANGED <<bak, registry>>
  BY DEF RestoreCopiesBackup, RestoreReplacesPrimary, InSave, SInv, FilesInv, IInv,
         ControlInv
<1>1. acked = {} /\ (previous.enforced # {} => filterOn)
  BY <1>0 DEF SInv, PolicyInv
<1>2. CASE /\ rollback' = bak /\ Goto("rollback")
           /\ UNCHANGED <<primary, tmp, purpose, vault, previous>>
  <2>1. Durable' = Durable
    BY <1>0, <1>2 DEF Durable
  <2>2. QED
    BY <1>0, <1>1, <1>2, <2>1
       DEF SInv, FilesInv, PolicyInv, Goto, history, registry, InSave, Syncing
<1>3. CASE /\ primary' \in {primary, previous}
           /\ purpose' = "undo" /\ Goto("sids") /\ UNCHANGED <<tmp, vault, previous>>
  <2>1. Durable' = previous \/ Enforcing(Durable') = {}
    BY <1>0, <1>3, FirstValidIs, EnforcingIs DEF Durable
  <2>2. primary' \in Vaults
    BY <1>0, <1>3
  <2>3. FilesInv'
    BY <1>0, <1>3, <2>1, <2>2, NotVaults DEF FilesInv, Goto, Syncing
  <2>4. Enforcing(Durable') # {} => filterOn'
    BY <1>0, <1>1, <2>1, EnforcingIs DEF registry
  <2>5. PolicyInv'
    BY <1>0, <1>1, <1>3, <2>4 DEF PolicyInv, Goto, history, InSave, Syncing
  <2>6. QED
    BY <2>3, <2>5 DEF SInv
<1>4. QED
  BY <1>0, <1>2, <1>3 DEF RestoreCopiesBackup, RestoreReplacesPrimary

\* The inductive invariant: the control state always, and the files and the
\* policy as long as no stored bytes have been lost.
THEOREM Inductive == Spec => []IInv
<1>1. Init => IInv
  BY InitTInv, InitSInv DEF IInv, TInv
<1>2. IInv /\ [Next]_vars => IInv'
  <2> SUFFICES ASSUME IInv, [Next]_vars PROVE IInv'
    OBVIOUS
  <2>1. TInv'
    BY NextTInv DEF IInv, TInv
  <2>2. ASSUME losses' = 0 PROVE SInv'
    <3>1. losses = 0 /\ SInv
      <4>1. losses \in Nat /\ losses' \in Nat
        BY <2>1, StoreAssumption DEF IInv, TInv, StoreType, LimitsType
      <4>2. losses <= losses'
        BY <4>1, LossesGrow
      <4>3. QED  BY <2>2, <4>1, <4>2 DEF IInv
    <3>2. CASE Step
      BY <2>2, <3>1, <3>2, LoadSInv, ApplySInv, TemporarySInv, BackupSInv, CopySInv,
         EnforcedSidsSInv, EnableFilterSInv, ReplaceSInv, RestoreSInv DEF Step, StoreStep
    <3>3. CASE UNCHANGED vars
      BY <3>1, <3>3 DEF vars, files, registry, control, limits, history, SInv,
                        FilesInv, PolicyInv, Durable, Policy
    <3>4. QED
      BY <2>2, <3>1, <3>2, <3>3, EnvironmentSInv DEF Next
  <2>3. QED
    BY <2>1, <2>2 DEF IInv, TInv
<1>3. QED
  BY <1>1, <1>2, PTL DEF Spec

\* The filter is on whenever the durable vault enforces an account, through any
\* failures and crashes, while no stored bytes are lost
\* (LocalCredentialStore.cpp, 383-386 and 402-405).
THEOREM FilterAlwaysCoversPolicy == Spec => []FilterCoversPolicy
<1>1. IInv => FilterCoversPolicy
  BY DEF IInv, SInv, PolicyInv, FilterCoversPolicy
<1>2. QED
  BY <1>1, Inductive, PTL

\* An account whose enforcement was confirmed stays enforced, in the vault and
\* in the registry, through any later calls, failures and crashes.
THEOREM AckedPolicyAlwaysHolds == Spec => []AckedPolicyHolds
<1>1. IInv => AckedPolicyHolds
  BY DEF IInv, SInv, PolicyInv, AckedPolicyHolds
<1>2. QED
  BY <1>1, Inductive, PTL

\* Success is only reported for a vault that is on disk and published.
THEOREM SuccessAlwaysMeansPublished == Spec => []SuccessMeansPublished
<1>1. IInv => SuccessMeansPublished
  BY FirstValidIs, EnforcingIs
     DEF IInv, SInv, PolicyInv, SuccessMeansPublished, RegistryAgrees, Durable
<1>2. QED
  BY <1>1, Inductive, PTL
-----------------------------------------------------------------------------
(* What each step of Save and of the way back finds in the files, however   *)
(* many bytes were lost before the call or are lost in its reads.           *)

KeptInv ==
  /\ pc \in {"backup", "copy", "move"} => tmp = vault
  /\ pc \in Syncing /\ purpose = "publish" => tmp = vault
  /\ pc = "copy" => primary \in Vaults /\ previous = primary
  /\ pc \in {"move", "restore", "rollback"} /\ previous # NoVault => bak = previous
  /\ pc \in Syncing /\ purpose \in {"publish", "retract"} /\ previous # NoVault =>
        bak = previous
  /\ pc = "rollback" => rollback = previous

\* Outside the steps in between there is nothing to keep.
LEMMA NothingKept ==
  ASSUME \/ pc' \in {"down", "stopped", "idle", "load", "apply", "save", "write"}
         \/ pc' \in Syncing /\ purpose' \in {"refresh", "undo"}
  PROVE  KeptInv'
BY DEF KeptInv, Syncing

\* A read that yields a vault yields what the file holds.
LEMMA ReadVaults ==
  ASSUME NEW file, NEW read \in Reads(file), read \in Vaults
  PROVE  read = file
BY NotVaults DEF Reads

LEMMA AfterBackupKept ==
  ASSUME AfterBackup, tmp' = vault, previous' # NoVault => bak' = previous'
  PROVE  KeptInv'
BY DEF AfterBackup, Goto, KeptInv, Syncing

LEMMA BackupKept ==
  ASSUME KeptInv, BackupPrevious
  PROVE  KeptInv'
<1>1. PICK p \in Reads(primary), b \in Reads(bak) : BackupOutcome(p, b)
  BY DEF BackupPrevious
<1>2. pc = "backup" /\ tmp = vault /\ primary' = primary
  BY DEF BackupPrevious, KeptInv
<1>3. CASE /\ p \in Vaults /\ previous' = p /\ Goto("copy")
           /\ UNCHANGED <<tmp, vault>>
  BY <1>2, <1>3, ReadVaults DEF Goto, KeptInv, Syncing
<1>4. CASE Return("error")
  BY <1>4, NothingKept DEF Return
<1>5. CASE /\ p \notin Vaults /\ previous' = FirstValid(p, b)
           /\ AfterBackup /\ UNCHANGED <<bak, tmp>>
  <2>1. previous' # NoVault => bak' = previous'
    BY <1>5, ReadVaults DEF FirstValid
  <2>2. QED  BY <1>2, <1>5, <2>1, AfterBackupKept
<1>6. QED
  BY <1>1, <1>3, <1>4, <1>5 DEF BackupOutcome

LEMMA UndoKept ==
  ASSUME UndoPolicy
  PROVE  KeptInv'
<1>1. \/ pc' \in Syncing /\ purpose' = "undo"
      \/ pc' \in {"idle", "stopped"}
  BY DEF UndoPolicy, Goto, Return, Syncing
<1>2. QED  BY <1>1, NothingKept

LEMMA SaveReturnsKept ==
  ASSUME SaveReturns
  PROVE  KeptInv'
<1>1. pc' \in {"apply", "idle", "stopped"}
  BY DEF SaveReturns, Goto, Return
<1>2. QED  BY <1>1, NothingKept

LEMMA SyncFailsKept ==
  ASSUME TInv, KeptInv, pc \in Syncing, SyncFails, UNCHANGED <<bak, rollback>>
  PROVE  KeptInv'
<1>1. CASE Return("error")
  BY <1>1, NothingKept DEF Return
<1>2. CASE UndoPolicy
  BY <1>2, UndoKept
<1>3. CASE purpose = "retract" /\ Goto("restore") /\ UNCHANGED previous
  BY <1>3 DEF KeptInv, Goto, Syncing
<1>4. QED
  BY <1>1, <1>2, <1>3, SyncPurpose DEF SyncFails

LEMMA SyncKept ==
  ASSUME TInv, KeptInv, WriteEnforcedSids \/ WriteEnableFilter
  PROVE  KeptInv'
<1>1. pc \in Syncing /\ UNCHANGED <<primary, bak, rollback>>
  BY DEF WriteEnforcedSids, WriteEnableFilter, Syncing
<1>2. CASE SyncFails
  BY <1>1, <1>2, SyncFailsKept
<1>3. CASE Goto("filter") /\ UNCHANGED <<tmp, vault, previous, purpose>>
  BY <1>1, <1>3 DEF KeptInv, Goto, Syncing
<1>4. CASE SyncSucceeds /\ UNCHANGED tmp
  <2>1. CASE purpose = "publish"
    BY <1>1, <1>4, <2>1 DEF SyncSucceeds, KeptInv, Goto, Syncing
  <2>2. CASE purpose = "retract"
    BY <1>4, <2>2, SaveReturnsKept DEF SyncSucceeds
  <2>3. CASE purpose \in {"refresh", "undo"}
    BY <1>4, <2>3, NothingKept DEF SyncSucceeds, Return
  <2>4. QED  BY <1>1, <2>1, <2>2, <2>3, SyncPurpose
<1>5. QED
  BY <1>2, <1>3, <1>4 DEF WriteEnforcedSids, WriteEnableFilter

LEMMA ReplaceKept ==
  ASSUME KeptInv, ReplacePrimary
  PROVE  KeptInv'
<1>1. CASE SaveReturns
  BY <1>1, SaveReturnsKept
<1>2. CASE UndoPolicy
  BY <1>2, UndoKept
<1>3. CASE Return("error")
  BY <1>3, NothingKept DEF Return
<1>4. CASE purpose' = "retract" /\ Goto("sids") /\ UNCHANGED <<previous>>
  BY <1>4 DEF ReplacePrimary, KeptInv, Goto, Syncing
<1>5. QED
  BY <1>1, <1>2, <1>3, <1>4 DEF ReplacePrimary

LEMMA StepKept ==
  ASSUME TInv, KeptInv, Step
  PROVE  KeptInv'
<1>1. CASE Load
  <2>1. pc' \in {"apply", "save", "idle", "stopped"}
    BY <1>1 DEF Load, LoadOutcome, Goto, Return
  <2>2. QED  BY <2>1, NothingKept
<1>2. CASE Apply
  <2>1. \/ pc' \in {"save", "idle", "stopped"}
        \/ pc' \in Syncing /\ purpose' = "refresh"
    BY <1>2 DEF Apply, RefreshLocalAccounts, UpsertAccount, CommitRegistration,
                RemoveCredential, SetEnforced, SaveVault, Refuse, Goto, Return, Syncing
  <2>2. QED  BY <2>1, NothingKept
<1>3. CASE SaveBegins
  <2>1. pc' \in {"write", "idle", "stopped"}
    BY <1>3 DEF SaveBegins, Refuse, Goto, Return
  <2>2. QED  BY <2>1, NothingKept
<1>4. CASE WriteProtectedFile
  <2>1. CASE Return("error")
    BY <2>1, NothingKept DEF Return
  <2>2. CASE tmp' = vault /\ Goto("backup") /\ UNCHANGED vault
    BY <2>2 DEF KeptInv, Goto, Syncing
  <2>3. QED  BY <1>4, <2>1, <2>2 DEF WriteProtectedFile
<1>5. CASE BackupPrevious
  BY <1>5, BackupKept
<1>6. CASE CopyToBackup
  <2>1. CASE Return("error")
    BY <2>1, NothingKept DEF Return
  <2>2. CASE bak' = primary /\ AfterBackup /\ UNCHANGED <<tmp, previous>>
    BY <1>6, <2>2, AfterBackupKept DEF CopyToBackup, KeptInv
  <2>3. QED  BY <1>6, <2>1, <2>2 DEF CopyToBackup
<1>7. CASE WriteEnforcedSids \/ WriteEnableFilter
  BY <1>7, SyncKept
<1>8. CASE ReplacePrimary
  BY <1>8, ReplaceKept
<1>9. CASE RestoreCopiesBackup
  <2>1. bak = previous
    BY <1>9, NotVaults DEF RestoreCopiesBackup, KeptInv, TInv, ControlInv
  <2>2. QED
    BY <1>9, <2>1, NothingKept DEF RestoreCopiesBackup, KeptInv, Goto, Syncing
<1>10. CASE RestoreReplacesPrimary
  BY <1>10, NothingKept DEF RestoreReplacesPrimary, Goto, Syncing
<1>11. QED
  BY <1>1, <1>2, <1>3, <1>4, <1>5, <1>6, <1>7, <1>8, <1>9, <1>10 DEF Step, StoreStep

LEMMA NextKept ==
  ASSUME TInv, KeptInv, [Next]_vars
  PROVE  KeptInv'
<1>1. CASE Restart \/ Crash \/ Reboot \/ Damage \/ \E c \in Requests : Begin(c)
  <2>1. pc' \in {"down", "stopped", "idle", "load"}
    BY <1>1 DEF Restart, Crash, Reboot, Damage, Begin, control
  <2>2. QED  BY <2>1, NothingKept
<1>2. CASE (\E s \in Deletable : DeleteAccount(s)) \/ UNCHANGED vars
  BY <1>2 DEF DeleteAccount, vars, files, control, KeptInv
<1>3. QED
  BY <1>1, <1>2, StepKept DEF Next

\* The vault that is about to be written, copied or put back is intact at each
\* step of Save, also after bytes were lost.
THEOREM FilesAreKept == Spec => []KeptInv
<1>1. Init => KeptInv
  BY DEF Init, KeptInv, Syncing
<1>2. TInv /\ KeptInv /\ [Next]_vars => KeptInv'
  BY NextKept
<1>3. QED
  BY <1>1, <1>2, InitTInv, NextTInv, PTL DEF Spec

\* Durable is a vault exactly if one of the two files is.
LEMMA DurableIs ==
  /\ Durable # NoVault <=> primary \in Vaults \/ bak \in Vaults
  /\ Durable # NoVault => Durable \in {primary, bak} \cap Vaults
BY NotVaults DEF Durable, FirstValid

LEMMA DurableIsPrimed ==
  /\ Durable' # NoVault <=> primary' \in Vaults \/ bak' \in Vaults
  /\ Durable' # NoVault => Durable' \in {primary', bak'} \cap Vaults
BY NotVaults DEF Durable, FirstValid

\* The five steps that change one of the two files, and what they put there.
FileChange ==
  \/ pc = "backup" /\ primary \in Vaults /\ primary' = primary /\ bak' = Damaged
  \/ /\ pc = "copy" /\ primary \in Vaults /\ primary' = primary
     /\ bak' \in {primary, Absent, Damaged}
  \/ pc = "move" /\ vault \in Vaults /\ primary' = vault /\ bak' = bak
  \/ pc = "rollback" /\ bak \in Vaults /\ primary' = bak /\ bak' = bak

LEMMA FilesChange ==
  ASSUME TInv, KeptInv, [Next]_vars
  PROVE  Damage \/ UNCHANGED <<primary, bak>> \/ FileChange
<1>1. CASE BackupPrevious
  <2>1. PICK p \in Reads(primary), b \in Reads(bak) : BackupOutcome(p, b)
    BY <1>1 DEF BackupPrevious
  <2>2. p \in Vaults => primary \in Vaults
    BY ReadVaults
  <2>3. QED
    BY <1>1, <2>1, <2>2 DEF BackupPrevious, BackupOutcome, FileChange
<1>2. CASE CopyToBackup
  BY <1>2 DEF CopyToBackup, KeptInv, FileChange
<1>3. CASE ReplacePrimary
  BY <1>3 DEF ReplacePrimary, KeptInv, FileChange, TInv, ControlInv, InSave
<1>4. CASE RestoreReplacesPrimary
  BY <1>4, NotVaults
     DEF RestoreReplacesPrimary, KeptInv, FileChange, TInv, ControlInv
<1>5. QED
  BY <1>1, <1>2, <1>3, <1>4
     DEF Next, Step, StoreStep, vars, files, Load, Apply, SaveBegins, WriteProtectedFile,
         WriteEnforcedSids, WriteEnableFilter, RestoreCopiesBackup, Restart, Crash,
         Reboot, Begin, DeleteAccount

\* No step of the store and no crash takes away the last vault that Load could
\* return (LocalCredentialStore.cpp, Save), however many bytes were lost before.
THEOREM VaultStaysReadable == Spec => StepsKeepVaultReadable
<1>1. ASSUME TInv, KeptInv, [Next]_vars
      PROVE  [Durable # NoVault /\ losses' = losses => Durable' # NoVault]_vars
  <2> SUFFICES ASSUME Durable # NoVault, losses' = losses
               PROVE  Durable' # NoVault
    OBVIOUS
  <2>1. ~ Damage
    BY <1>1, StoreAssumption DEF Damage, TInv, StoreType, LimitsType
  <2>2. primary \in Vaults \/ bak \in Vaults
    BY DurableIs
  <2>3. primary' \in Vaults \/ bak' \in Vaults
    BY <1>1, <2>1, <2>2, FilesChange DEF FileChange
  <2>4. QED
    BY <2>3, DurableIsPrimed
<1>2. QED
  BY <1>1, InitTInv, NextTInv, FilesAreKept, PTL DEF Spec, StepsKeepVaultReadable

-----------------------------------------------------------------------------
(* One machine id: all vaults in play are of one installation.              *)

InPlay == {"apply"} \cup InSave

MachineInv ==
  losses <= 1 =>
    /\ primary \in Vaults /\ bak \in Vaults => primary.machine = bak.machine
    /\ pc \in InPlay => \A file \in {primary, bak} \cap Vaults : file.machine = vault.machine

\* What the operations make of a vault belongs to the same installation.
LEMMA ApplyKeepsMachine ==
  ASSUME TInv, Apply
  PROVE  vault'.machine = vault.machine
<1>1. vault \in Vaults
  BY DEF Apply, TInv, ControlInv
<1>2. CASE Return("error")
  BY <1>2 DEF Return
<1>3. CASE RefreshLocalAccounts
  BY <1>1, <1>2, <1>3 DEF RefreshLocalAccounts, SaveVault, Keep, Vaults
<1>4. CASE UpsertAccount
  BY <1>2, <1>4 DEF UpsertAccount, SaveVault, Refuse
<1>5. CASE CommitRegistration
  BY <1>1, <1>2, <1>5 DEF CommitRegistration, SaveVault, Refuse, Vaults
<1>6. CASE RemoveCredential
  BY <1>1, <1>2, <1>6 DEF RemoveCredential, SaveVault, Refuse, Vaults
<1>7. CASE SetEnforced
  BY <1>1, <1>2, <1>7 DEF SetEnforced, SaveVault, Refuse, Vaults
<1>8. QED
  BY <1>3, <1>4, <1>5, <1>6, <1>7 DEF Apply

\* A vault is only loaded from the files, or created when there is none; that
\* takes a loss for each file that is there.
LEMMA LoadMachine ==
  ASSUME IInv, MachineInv, Load, [Next]_vars, losses' <= 1, pc' \in InPlay,
         NEW file \in {primary, bak} \cap Vaults
  PROVE  file.machine = vault'.machine
<1>0. losses \in Nat /\ losses <= losses' /\ losses' \in Nat
  <2>1. losses \in Nat /\ losses' \in Nat
    BY LoadTInv, StoreAssumption DEF IInv, TInv, StoreType, LimitsType
  <2>2. QED  BY <2>1, LossesGrow
<1>1. PICK p \in Reads(primary), b \in Reads(bak) :
        Reading(p, b) /\ LoadOutcome(p, b)
  BY DEF Load
<1>2. CASE FirstValid(p, b) # NoVault /\ vault' = FirstValid(p, b)
  <2>1. vault' \in {primary, bak} \cap Vaults
    BY <1>2, ReadVaults DEF FirstValid
  <2>2. QED
    BY <1>0, <2>1 DEF MachineInv
<1>3. CASE FirstValid(p, b) = NoVault /\ p = Absent
  <2>1. p \notin Vaults /\ b \notin Vaults /\ primary = Absent
    BY <1>3, NotVaults, StoreAssumption DEF FirstValid, Reads
  <2>2. bak \in Vaults /\ b = Damaged /\ b # bak
    BY <2>1, NotVaults DEF Reads
  <2>3. losses # 0
    BY <2>1, <2>2 DEF IInv, SInv, FilesInv
  <2>4. losses' >= losses + 1
    BY <1>0, <1>1, <2>2 DEF Reading, Lost
  <2>5. QED  BY <1>0, <2>3, <2>4
<1>4. CASE Return("error")
  BY <1>4 DEF Return, InPlay, InSave
<1>5. QED
  BY <1>1, <1>2, <1>3, <1>4 DEF LoadOutcome

\* In play, vault' belongs to the installation of vault, or was just loaded.
LEMMA VaultInPlay ==
  ASSUME TInv, [Next]_vars, pc' \in InPlay
  PROVE  Load \/ (pc \in InPlay /\ vault'.machine = vault.machine)
<1>1. CASE Apply
  BY <1>1, ApplyKeepsMachine DEF Apply, InPlay
<1>2. CASE Step /\ ~ Load /\ ~ Apply
  <2>1. UNCHANGED vault
    BY <1>2, SyncPurpose
       DEF Step, StoreStep, SaveBegins, WriteProtectedFile, BackupPrevious, BackupOutcome,
           CopyToBackup, AfterBackup, WriteEnforcedSids, WriteEnableFilter,
           ReplacePrimary, RestoreCopiesBackup, RestoreReplacesPrimary, SyncFails,
           SyncSucceeds, SaveReturns, UndoPolicy, Refuse, Return, Syncing
  <2>2. pc \in InPlay
    BY <1>2 DEF Step, StoreStep, SaveBegins, WriteProtectedFile, BackupPrevious, CopyToBackup,
           WriteEnforcedSids, WriteEnableFilter, ReplacePrimary, RestoreCopiesBackup,
           RestoreReplacesPrimary, InPlay, InSave
  <2>3. QED  BY <2>1, <2>2
<1>3. CASE ~ Step
  BY <1>3 DEF Next, Restart, Crash, Reboot, Damage, Begin, DeleteAccount, vars,
              control, InPlay, InSave
<1>4. QED  BY <1>1, <1>2, <1>3

LEMMA NextMachine ==
  ASSUME IInv, KeptInv, MachineInv, [Next]_vars
  PROVE  MachineInv'
<1> SUFFICES ASSUME losses' <= 1
             PROVE  /\ primary' \in Vaults /\ bak' \in Vaults => primary'.machine = bak'.machine
                    /\ pc' \in InPlay => \A file \in {primary', bak'} \cap Vaults :
                                           file.machine = vault'.machine
  BY DEF MachineInv
<1>0. losses \in Nat /\ losses <= 1 /\ TInv
  <2>1. losses \in Nat /\ losses' \in Nat
    BY NextTInv, StoreAssumption DEF IInv, TInv, StoreType, LimitsType
  <2>2. QED  BY <2>1, LossesGrow DEF IInv, TInv
<1>1. CASE FileChange
  <2>1. pc \in InPlay /\ ~ Load
    BY <1>1 DEF FileChange, InPlay, InSave, Load
  <2>2. \A file \in {primary', bak'} \cap Vaults : file.machine = vault.machine
    BY <1>0, <1>1, <2>1, NotVaults DEF FileChange, MachineInv
  <2>3. QED  BY <1>0, <2>1, <2>2, VaultInPlay
<1>2. CASE UNCHANGED <<primary, bak>>
  <2>1. CASE pc' \in InPlay
    <3>1. CASE Load
      BY <1>0, <1>2, <2>1, <3>1, LoadMachine DEF MachineInv
    <3>2. CASE pc \in InPlay /\ vault'.machine = vault.machine
      BY <1>0, <1>2, <3>2 DEF MachineInv
    <3>3. QED  BY <1>0, <2>1, <3>1, <3>2, VaultInPlay
  <2>2. QED
    BY <1>0, <1>2, <2>1 DEF MachineInv
<1>3. CASE Damage
  BY <1>0, <1>3, NotVaults DEF Damage, control, MachineInv, InPlay, InSave
<1>4. QED
  BY <1>0, <1>1, <1>2, <1>3, FilesChange

\* The recorded RP ID is that of the durable vault; while nothing durable can be
\* loaded it is only kept because the primary is there and corrupt, and then no
\* call gets as far as making another vault.
RpIdInv ==
  losses <= 1 =>
    /\ Durable # NoVault => Durable.machine = rpId
    /\ Durable = NoVault /\ rpId # None => primary = Damaged /\ pc \notin InPlay

\* No step of the store or of its surroundings, a loss apart, gives the durable
\* vault another machine id.
LEMMA SameMachine ==
  ASSUME IInv, KeptInv, MachineInv, MachineInv', [Next]_vars, losses' <= 1,
         Durable # NoVault, Durable' # NoVault
  PROVE  Durable'.machine = Durable.machine
<1>0. losses \in Nat /\ losses <= 1 /\ TInv
  <2>1. losses \in Nat /\ losses' \in Nat
    BY NextTInv, StoreAssumption DEF IInv, TInv, StoreType, LimitsType
  <2>2. QED  BY <2>1, LossesGrow DEF IInv, TInv
<1>1. Durable \in {primary, bak} \cap Vaults /\ Durable' \in {primary', bak'} \cap Vaults
  BY DurableIs, DurableIsPrimed
<1>2. CASE UNCHANGED <<primary, bak>> \/ Damage
  BY <1>0, <1>1, <1>2, NotVaults DEF MachineInv, Damage
<1>3. CASE FileChange
  <2>1. pc \in InPlay
    BY <1>3 DEF FileChange, InPlay, InSave
  <2>2. Durable'.machine = vault.machine
    BY <1>0, <1>1, <1>3, <2>1, NotVaults DEF FileChange, MachineInv
  <2>3. QED  BY <1>0, <1>1, <2>1, <2>2 DEF MachineInv
<1>4. QED  BY <1>0, <1>2, <1>3, FilesChange

\* A corrupt primary without a readable backup ends every call in Load.
LEMMA CorruptEndsCall ==
  ASSUME primary = Damaged, bak \notin Vaults, Load
  PROVE  pc' \notin InPlay
<1>1. PICK p \in Reads(primary), b \in Reads(bak) : LoadOutcome(p, b)
  BY DEF Load
<1>2. p = Damaged /\ FirstValid(p, b) = NoVault
  BY NotVaults DEF Reads, FirstValid
<1>3. Return("error")
  BY <1>1, <1>2, StoreAssumption DEF LoadOutcome
<1>4. QED  BY <1>3 DEF Return, InPlay, InSave

LEMMA NextRpId ==
  ASSUME IInv, KeptInv, MachineInv, MachineInv', RpIdInv, [Next]_vars
  PROVE  RpIdInv'
<1> SUFFICES ASSUME losses' <= 1
             PROVE  /\ Durable' # NoVault => Durable'.machine = rpId'
                    /\ Durable' = NoVault /\ rpId' # None =>
                          primary' = Damaged /\ pc' \notin InPlay
  BY DEF RpIdInv
<1>0. losses \in Nat /\ losses' \in Nat /\ losses <= 1 /\ TInv
  <2>1. losses \in Nat /\ losses' \in Nat
    BY NextTInv, StoreAssumption DEF IInv, TInv, StoreType, LimitsType
  <2>2. QED  BY <2>1, LossesGrow DEF IInv, TInv
<1>1. Durable # NoVault /\ Durable' # NoVault => Durable'.machine = Durable.machine
  BY SameMachine
<1>2. CASE Damage
  <2>1. losses = 0 /\ pc' \notin InPlay
    BY <1>0, <1>2 DEF Damage, control, InPlay, InSave
  <2>2. primary \in Vaults \cup {Absent} /\ (primary = Absent => bak \notin Vaults)
    BY <2>1 DEF IInv, SInv, FilesInv
  <2>3. CASE Durable = NoVault
    <3>1. primary' \notin Vaults /\ bak' \notin Vaults /\ primary = Absent
      BY <1>2, <2>2, <2>3, DurableIs, NotVaults DEF Damage
    <3>2. Durable' = NoVault
      BY <3>1, DurableIsPrimed
    <3>3. rpId = None
      BY <1>0, <2>3, <3>1, StoreAssumption DEF RpIdInv
    <3>4. rpId' = None
      BY <1>2, <3>3 DEF Damage
    <3>5. QED  BY <3>2, <3>4
  <2>4. CASE Durable # NoVault
    <3>1. CASE Durable' # NoVault
      BY <1>0, <1>1, <1>2, <2>4, <3>1 DEF Damage, RpIdInv
    <3>2. CASE Durable' = NoVault
      <4>1. primary \in Vaults /\ primary' \notin Vaults
        BY <2>2, <2>4, <3>2, DurableIs, DurableIsPrimed
      <4>2. primary' \in {Absent, Damaged}
        BY <1>2, <4>1 DEF Damage
      <4>3. QED  BY <1>2, <2>1, <3>2, <4>2 DEF Damage
    <3>3. QED  BY <3>1, <3>2
  <2>5. QED  BY <2>3, <2>4
<1>3. CASE Step /\ ~ Damage
  <2>1. CASE Durable # NoVault
    <3>1. primary' \in Vaults \/ bak' \in Vaults
      BY <1>0, <1>3, <2>1, FilesChange, DurableIs DEF FileChange
    <3>2. Durable' # NoVault
      BY <3>1, DurableIsPrimed
    <3>3. QED
      BY <1>0, <1>1, <1>3, <2>1, <3>2 DEF Step, RecordRpId, RpIdInv
  <2>2. CASE Durable = NoVault /\ rpId = None
    BY <1>3, <2>2 DEF Step, RecordRpId
  <2>3. CASE Durable = NoVault /\ rpId # None
    <3>1. primary = Damaged /\ pc \notin InPlay /\ bak \notin Vaults
      BY <1>0, <2>3, DurableIs DEF RpIdInv
    <3>2. Load
      BY <1>3, <3>1
         DEF Step, StoreStep, Apply, SaveBegins, WriteProtectedFile, BackupPrevious,
             CopyToBackup, WriteEnforcedSids, WriteEnableFilter, ReplacePrimary,
             RestoreCopiesBackup, RestoreReplacesPrimary, InPlay, InSave
    <3>3. primary' = primary /\ bak' = bak /\ pc' \notin InPlay
      BY <3>1, <3>2, CorruptEndsCall DEF Load, files
    <3>4. Durable' = NoVault
      BY <2>3, <3>3 DEF Durable
    <3>5. QED  BY <3>1, <3>3, <3>4
  <2>4. QED  BY <2>1, <2>2, <2>3
<1>4. CASE ~ Step /\ ~ Damage
  <2>1. primary' = primary /\ bak' = bak /\ rpId' = rpId
    BY <1>4 DEF Next, Restart, Crash, Reboot, Begin, DeleteAccount, vars, files
  <2>2. Durable' = Durable
    BY <2>1 DEF Durable
  <2>3. pc' \in InPlay => pc \in InPlay
    BY <1>4 DEF Next, Restart, Crash, Reboot, Begin, DeleteAccount, vars, control,
                InPlay, InSave
  <2>4. QED  BY <1>0, <2>1, <2>2, <2>3 DEF RpIdInv
<1>5. QED  BY <1>2, <1>3, <1>4

\* "One stable RP ID per installation" (architecture.md): after at most one loss
\* of stored bytes every durable vault has the machine id of the first one, also
\* one created later (LoadOrCreate, LocalCredentialStore.cpp 416-434), unless that
\* loss removed the primary when no backup could be read.
THEOREM RpIdAlwaysStable == Spec => []RpIdStable
<1>1. Init => MachineInv /\ RpIdInv
  BY NotVaults DEF Init, MachineInv, InPlay, InSave, RpIdInv, Durable, FirstValid
<1>2. IInv /\ KeptInv /\ MachineInv /\ [Next]_vars => MachineInv'
  BY NextMachine
<1>3. IInv /\ KeptInv /\ MachineInv /\ MachineInv' /\ RpIdInv /\ [Next]_vars => RpIdInv'
  BY NextRpId
<1>4. RpIdInv => RpIdStable
  BY DEF RpIdInv, RpIdStable
<1>5. QED
  BY <1>1, <1>2, <1>3, <1>4, Inductive, FilesAreKept, PTL DEF Spec

-----------------------------------------------------------------------------
(* What each operation makes of a vault is what AtomicVault allows.         *)

Sound(v) == v # NoVault => v.enforced \subseteq v.accounts

\* A valid vault has a key for every account it enforces.
LEMMA ValidHasKeys ==
  ASSUME NEW v \in Vaults, Sound(v), IsVaultValid(v)
  PROVE  v.enforced \subseteq {s \in Sids : KeysOf(v, s) # {}}
<1>1. v # NoVault /\ v.enforced \subseteq Sids
  BY NotVaults DEF Vaults
<1>2. QED  BY <1>1 DEF Sound, IsVaultValid

LEMMA RefreshEffect ==
  ASSUME NEW c \in Calls, c.op \in {"startup", "refresh"},
         NEW v \in Vaults, Sound(Keep(v, live)), IsVaultValid(Keep(v, live))
  PROVE  Atomic!Effect(c, v, Keep(v, live))
<1> DEFINE w == Keep(v, live)
<1>1. /\ w \in Vaults /\ w.machine = v.machine
      /\ w.accounts = v.accounts \cap live /\ w.enforced = v.enforced \cap live
      /\ w.keys = v.keys \cap (live \X Keys)
  BY DEF Keep, Vaults
<1>2. \A s \in Sids : KeysOf(w, s) = IF s \in live THEN KeysOf(v, s) ELSE {}
  BY <1>1 DEF KeysOf
<1>3. w.enforced \subseteq {s \in Sids : KeysOf(w, s) # {}}
  BY <1>1, ValidHasKeys
<1>4. c.sid \in w.accounts => c.sid \in v.accounts
  BY <1>1
<1> HIDE DEF w
<1>5. \A s \in Sids : \/ Atomic!SameAccount(v, w, s)
                      \/ s \notin live \cup w.accounts \cup w.enforced /\ KeysOf(w, s) = {}
  BY <1>1, <1>2 DEF Atomic!SameAccount, Atomic!KeysOf, KeysOf
<1>6. Atomic!Effect(c, v, w)
  BY <1>1, <1>3, <1>4, <1>5 DEF Atomic!Effect, Atomic!KeysOf, KeysOf
<1>7. QED  BY <1>6 DEF w

\* The other operations touch the account of the call only.
LEMMA ElsewhereSame ==
  ASSUME NEW v, NEW w, NEW S,
         \A s \in S : /\ s \in v.accounts <=> s \in w.accounts
                      /\ s \in v.enforced <=> s \in w.enforced
                      /\ KeysOf(v, s) = KeysOf(w, s)
  PROVE  \A s \in S : Atomic!SameAccount(v, w, s)
BY DEF Atomic!SameAccount, Atomic!KeysOf, KeysOf

LEMMA UpsertEffect ==
  ASSUME NEW c \in Calls, c.op = "upsert", NEW v \in Vaults, Sound(v), IsVaultValid(v)
  PROVE  Atomic!Effect(c, v, v)
<1>1. \A s \in Sids : Atomic!SameAccount(v, v, s)
  BY ElsewhereSame
<1>2. v.enforced \subseteq {s \in Sids : KeysOf(v, s) # {}}
  BY ValidHasKeys
<1>3. QED
  BY <1>1, <1>2 DEF Atomic!Effect, Atomic!KeysOf, KeysOf

LEMMA RegisterEffect ==
  ASSUME NEW c \in Calls, c.op = "register", NEW v \in Vaults, NEW w \in Vaults,
         \A s \in Sids : <<s, c.key>> \notin v.keys,
         w = [v EXCEPT !.accounts = @ \cup {c.sid}, !.keys = @ \cup {<<c.sid, c.key>>}],
         Sound(w), IsVaultValid(w)
  PROVE  Atomic!Effect(c, v, w)
<1>1. /\ w.machine = v.machine /\ w.accounts = v.accounts \cup {c.sid}
      /\ w.enforced = v.enforced /\ w.keys = v.keys \cup {<<c.sid, c.key>>}
  BY DEF Vaults
<1>2. c.sid \in Sids /\ c.key \in Keys
  BY CallFields
<1>3. /\ \A s \in Sids \ {c.sid} : KeysOf(w, s) = KeysOf(v, s)
      /\ KeysOf(w, c.sid) = KeysOf(v, c.sid) \cup {c.key}
      /\ c.key \notin KeysOf(v, c.sid)
  BY <1>1, <1>2 DEF KeysOf
<1>4. \A s \in Sids \ {c.sid} : Atomic!SameAccount(v, w, s)
  BY <1>1, <1>3, ElsewhereSame
<1>5. w.enforced \subseteq {s \in Sids : KeysOf(w, s) # {}}
  BY ValidHasKeys
<1>6. QED
  BY <1>1, <1>3, <1>4, <1>5 DEF Atomic!Effect, Atomic!KeysOf, KeysOf

LEMMA RemoveEffect ==
  ASSUME NEW c \in Calls, c.op = "remove", NEW v \in Vaults, NEW w \in Vaults,
         w = [v EXCEPT !.keys = @ \ {<<c.sid, c.key>>}],
         Sound(w), IsVaultValid(w)
  PROVE  Atomic!Effect(c, v, w)
<1>1. /\ w.machine = v.machine /\ w.accounts = v.accounts
      /\ w.enforced = v.enforced /\ w.keys = v.keys \ {<<c.sid, c.key>>}
  BY DEF Vaults
<1>2. c.sid \in Sids /\ c.key \in Keys
  BY CallFields
<1>3. /\ \A s \in Sids \ {c.sid} : KeysOf(w, s) = KeysOf(v, s)
      /\ KeysOf(w, c.sid) = KeysOf(v, c.sid) \ {c.key}
  BY <1>1, <1>2 DEF KeysOf
<1>4. \A s \in Sids \ {c.sid} : Atomic!SameAccount(v, w, s)
  BY <1>1, <1>3, ElsewhereSame
<1>5. w.enforced \subseteq {s \in Sids : KeysOf(w, s) # {}}
  BY ValidHasKeys
<1>6. QED
  BY <1>1, <1>3, <1>4, <1>5 DEF Atomic!Effect, Atomic!KeysOf, KeysOf

LEMMA EnforceEffect ==
  ASSUME NEW c \in Calls, c.op \in {"enable", "disable"},
         NEW v \in Vaults, NEW w \in Vaults,
         w = [v EXCEPT !.enforced = IF c.op = "enable" THEN @ \cup {c.sid}
                                                       ELSE @ \ {c.sid}],
         Sound(w), IsVaultValid(w)
  PROVE  Atomic!Effect(c, v, w)
<1>1. /\ w.machine = v.machine /\ w.accounts = v.accounts /\ w.keys = v.keys
      /\ w.enforced = IF c.op = "enable" THEN v.enforced \cup {c.sid}
                                         ELSE v.enforced \ {c.sid}
  BY DEF Vaults
<1>2. \A s : KeysOf(w, s) = KeysOf(v, s)
  BY <1>1 DEF KeysOf
<1>3. \A s \in Sids \ {c.sid} : Atomic!SameAccount(v, w, s)
  <2>1. \A s \in Sids \ {c.sid} : s \in v.enforced <=> s \in w.enforced
    BY <1>1
  <2>2. QED
    BY <1>1, <1>2, <2>1 DEF Atomic!SameAccount, Atomic!KeysOf, KeysOf
<1>4. w.enforced \subseteq {s \in Sids : KeysOf(w, s) # {}}
  BY ValidHasKeys
<1>5. QED
  BY <1>1, <1>2, <1>3, <1>4 DEF Atomic!Effect, Atomic!KeysOf, KeysOf

\* The only clause about live grows weaker as accounts are deleted.
LEMMA EffectWhileDeleting ==
  ASSUME Atomic!Effect(call, base, vault), UNCHANGED <<call, base, vault>>,
         live' \subseteq live
  PROVE  Atomic!Effect(call, base, vault)'
BY DEF Atomic!Effect, Atomic!SameAccount, Atomic!KeysOf

-----------------------------------------------------------------------------
(* The refinement of AtomicVault.  Without losses, a call that has not      *)
(* replaced the primary finds the vault from before the call, and what it   *)
(* is about to write is what AtomicVault allows; one that has, remembers    *)
(* the vault from before in previous.                                       *)

Busy == {"load"} \cup InPlay

Pending == \/ pc \in {"save", "write", "backup", "copy", "move"}
           \/ pc \in Syncing /\ purpose = "publish"

Replaced == \/ pc \in {"restore", "rollback"}
            \/ pc \in Syncing /\ purpose = "retract"

\* The durable vault against the one from before the call.  Only the startup
\* refresh of a new installation begins without a vault; having created one it
\* finds no account to refresh.  Undoing fails only on a second fault.
BaseInv ==
  /\ pc = "idle" => primary \in Vaults
  /\ pc \in Busy => (IF base = NoVault THEN call.op = "startup" ELSE primary \in Vaults)
  /\ pc = "load" => base = Durable
  /\ pc = "apply" => base = Durable \/ (base = NoVault /\ vault.accounts = {})
  /\ creating => \E m \in Machines : vault = EmptyVault(m)
  /\ creating => base = NoVault
  /\ Pending => base = Durable /\ (base = NoVault => creating)
  /\ Replaced => previous = base
  /\ pc \in {"restore", "rollback"} => callFaults > 0
  /\ pc \in Syncing /\ purpose = "undo" => base = Durable \/ callFaults > 1
  /\ pc \in Syncing /\ purpose = "refresh" => base = Durable \/ base = NoVault

\* What is about to be written is what the call asks for.
EffectInv ==
  /\ Sound(Durable) /\ Sound(base)
  /\ pc \in InPlay => Sound(vault)
  /\ Pending /\ pc # "save" => IsVaultValid(vault)
  /\ Pending /\ ~ creating /\ IsVaultValid(vault) => Atomic!Effect(call, base, vault)

AtomInv == BaseInv /\ EffectInv

\* An error leaves a vault from before the call; success has one.
LEMMA ReturnAtom ==
  ASSUME AtomInv, pc \in Busy, NEW o, Return(o), Sound(Durable'),
         primary' \in Vaults \/ (base = NoVault /\ o = "error")
  PROVE  AtomInv'
<1>1. /\ pc' \in {"idle", "stopped"} /\ base' = base /\ ~ creating'
      /\ pc' = "idle" => primary' \in Vaults
  BY DEF Return, AtomInv, BaseInv
<1>2. BaseInv'
  BY <1>1 DEF BaseInv, Pending, Replaced, Syncing, Busy, InPlay, InSave
<1>3. EffectInv'
  BY <1>1 DEF AtomInv, EffectInv, Sound, Pending, Syncing, InPlay, InSave
<1>4. QED  BY <1>2, <1>3 DEF AtomInv

LEMMA ErrorAtom ==
  ASSUME AtomInv, pc \in Busy, Return("error"), primary' = primary, Durable' = Durable
  PROVE  AtomInv'
BY ReturnAtom DEF AtomInv, BaseInv, EffectInv, Sound

\* A whole primary is all that decides.
LEMMA DurableWhole ==
  /\ SInv => Durable = IF primary \in Vaults THEN primary ELSE NoVault
  /\ SInv' => Durable' = IF primary' \in Vaults THEN primary' ELSE NoVault
BY NotVaults DEF SInv, FilesInv, Durable, FirstValid

\* From one step before the replacement to the next.
LEMMA PendingAtom ==
  ASSUME AtomInv, Pending, Pending', pc' # "save", IsVaultValid(vault), Durable' = Durable,
         UNCHANGED <<base, creating, vault, call, live, primary>>
  PROVE  AtomInv'
<1>1. pc \in Busy /\ pc \in InPlay
  BY DEF Pending, Syncing, Busy, InPlay, InSave
<1>2. BaseInv'
  BY <1>1 DEF AtomInv, BaseInv, Pending, Replaced, Syncing
<1>3. EffectInv'
  <2>1. ~ creating => Atomic!Effect(call, base, vault)'
    BY EffectWhileDeleting DEF AtomInv, EffectInv
  <2>2. IsVaultValid(vault)' /\ Sound(base)' /\ Sound(vault)' /\ Sound(Durable)'
    BY <1>1 DEF AtomInv, EffectInv, Sound, IsVaultValid, KeysOf
  <2>3. QED  BY <2>1, <2>2 DEF EffectInv
<1>4. QED  BY <1>2, <1>3 DEF AtomInv

LEMMA LoadAtom ==
  ASSUME IInv, SInv, SInv', AtomInv, losses = 0, losses' = 0, Load
  PROVE  AtomInv'
<1>0. pc = "load" /\ UNCHANGED <<primary, bak>> /\ Durable' = Durable
  BY DEF Load, files, Durable
<1>1. LoadOutcome(primary, bak)
  BY ReadingWhole DEF Load
<1>2. CASE /\ Durable # NoVault /\ vault' = Durable /\ Goto("apply")
           /\ UNCHANGED creating
  <2>1. /\ pc' = "apply" /\ ~ creating' /\ base' = base /\ call' = call /\ primary \in Vaults
    BY <1>0, <1>2, DurableWhole DEF Goto, history, IInv, ControlInv
  <2>2. BaseInv'
    BY <1>0, <1>2, <2>1 DEF AtomInv, BaseInv, Busy, InPlay, Pending, Replaced, Syncing
  <2>3. EffectInv'
    BY <1>0, <1>2, <2>1 DEF AtomInv, EffectInv, Sound, Pending, Syncing
  <2>4. QED  BY <2>2, <2>3 DEF AtomInv
<1>3. CASE /\ Durable = NoVault /\ \E m \in Machines : vault' = EmptyVault(m)
           /\ creating' = TRUE /\ Goto("save")
  <2>1. /\ pc' = "save" /\ base' = NoVault /\ call' = call /\ call.op = "startup"
        /\ base = NoVault
    BY <1>0, <1>3 DEF Goto, history, AtomInv, BaseInv, Busy
  <2>2. BaseInv'
    BY <1>0, <1>3, <2>1 DEF BaseInv, Pending, Replaced, Syncing
  <2>3. Sound(vault')
    BY <1>3 DEF Sound, EmptyVault
  <2>4. EffectInv'
    BY <1>0, <1>3, <2>1, <2>3 DEF EffectInv, Sound
  <2>5. QED  BY <2>2, <2>4 DEF AtomInv
<1>4. CASE Return("error")
  BY <1>0, <1>4, ErrorAtom DEF Busy
<1>5. QED
  BY <1>1, <1>2, <1>3, <1>4 DEF LoadOutcome, Durable

\* A save begins: there was a vault before the call, and this is what the call
\* makes of it.
LEMMA SaveVaultAtom ==
  ASSUME IInv, SInv, AtomInv, pc = "apply", UNCHANGED <<files, registry>>,
         NEW v \in Vaults, SaveVault(v), base # NoVault, Sound(v),
         IsVaultValid(v) => Atomic!Effect(call, vault, v)
  PROVE  AtomInv'
<1>1. /\ vault' = v /\ pc' = "save" /\ ~ creating' /\ Durable' = Durable
      /\ UNCHANGED <<base, call, live, primary>>
  BY DEF SaveVault, Goto, history, files, Durable, IInv, ControlInv
<1>2. primary \in Vaults /\ base = Durable /\ Durable = vault
  BY DurableWhole DEF AtomInv, BaseInv, Busy, InPlay, SInv, FilesInv
<1>3. BaseInv'
  BY <1>1, <1>2 DEF AtomInv, BaseInv, Pending, Replaced, Syncing
<1>4. EffectInv'
  <2>1. IsVaultValid(vault)' => IsVaultValid(v)
    BY <1>1
  <2>2. IsVaultValid(vault)' => Atomic!Effect(call, base, vault)'
    <3>1. Atomic!Effect(call, vault, v) => Atomic!Effect(call, base, vault)'
      BY <1>1, <1>2 DEF Atomic!Effect, Atomic!SameAccount, Atomic!KeysOf
    <3>2. QED  BY <2>1, <3>1
  <2>3. Sound(base)' /\ Sound(vault)' /\ Sound(Durable)'
    BY <1>1 DEF AtomInv, EffectInv, Sound
  <2>4. QED  BY <1>1, <2>2, <2>3 DEF EffectInv
<1>5. QED  BY <1>3, <1>4 DEF AtomInv

LEMMA ApplyAtom ==
  ASSUME IInv, SInv, AtomInv, Apply
  PROVE  AtomInv'
<1>1. /\ vault \in Vaults /\ pc = "apply" /\ call \in Calls
      /\ UNCHANGED <<files, registry>> /\ pc \in Busy /\ Sound(vault)
      /\ vault # NoVault /\ vault.enforced \subseteq vault.accounts
  BY NotVaults DEF Apply, IInv, ControlInv, StoreType, ControlType, Busy, InPlay, AtomInv,
                   EffectInv, Sound
<1>2. call.op # "startup" => base # NoVault
  BY <1>1 DEF AtomInv, BaseInv
<1>3. CASE Return("error")
  BY <1>1, <1>3, ErrorAtom DEF files, Durable
<1>4. CASE RefreshLocalAccounts
  <2>1. CASE SaveVault(Keep(vault, live)) /\ vault.accounts # {}
    <3>1. Keep(vault, live) \in Vaults /\ Sound(Keep(vault, live))
      <4>1. Keep(vault, live) \in Vaults  BY <1>1, KeepIsVault
      <4>2. Sound(Keep(vault, live))  BY <1>1 DEF Sound, Keep, Vaults
      <4>3. QED  BY <4>1, <4>2
    <3>2. base # NoVault
      BY <1>1, <2>1, DurableWhole DEF AtomInv, BaseInv, SInv, FilesInv
    <3>3. IsVaultValid(Keep(vault, live)) => Atomic!Effect(call, vault, Keep(vault, live))
      BY <1>1, <1>4, <3>1, RefreshEffect DEF RefreshLocalAccounts
    <3>4. QED  BY <1>1, <2>1, <3>1, <3>2, <3>3, SaveVaultAtom
  <2>2. CASE /\ purpose' = "refresh" /\ Goto("sids")
             /\ UNCHANGED <<vault, creating, previous>>
    <3>1. /\ pc' = "sids" /\ purpose' = "refresh" /\ ~ creating' /\ Durable' = Durable
          /\ UNCHANGED <<base, call, primary, vault>>
      BY <1>1, <2>2 DEF Goto, history, files, Durable, IInv, ControlInv
    <3>2. BaseInv'
      BY <1>1, <3>1 DEF AtomInv, BaseInv, Pending, Replaced, Syncing
    <3>3. EffectInv'
      BY <1>1, <3>1 DEF AtomInv, EffectInv, Sound, Pending, Syncing
    <3>4. QED  BY <3>2, <3>3 DEF AtomInv
  <2>3. QED
    BY <1>3, <1>4, <2>1, <2>2 DEF RefreshLocalAccounts
<1>5. CASE UpsertAccount
  BY <1>1, <1>2, <1>3, <1>5, SaveVaultAtom, UpsertEffect DEF UpsertAccount, Refuse
<1>6. CASE CommitRegistration
  <2> DEFINE v == [vault EXCEPT !.accounts = @ \cup {call.sid},
                                !.keys = @ \cup {<<call.sid, call.key>>}]
  <2>1. v \in Vaults
    <3>1. call.sid \in Sids /\ call.key \in Keys
      BY <1>1, <1>6, CallFields DEF CommitRegistration
    <3>2. QED  BY <1>1, <3>1, RegisteredIsVault
  <2>2. Sound(v)
    BY <1>1, <2>1 DEF Sound, Vaults
  <2>3. SaveVault(v) /\ (\A s \in Sids : <<s, call.key>> \notin vault.keys) => AtomInv'
    <3>1. (\A s \in Sids : <<s, call.key>> \notin vault.keys) /\ IsVaultValid(v)
            => Atomic!Effect(call, vault, v)
      BY <1>1, <1>6, <2>1, <2>2, RegisterEffect DEF CommitRegistration
    <3>2. base # NoVault
      BY <1>2, <1>6 DEF CommitRegistration
    <3> HIDE DEF v
    <3>3. QED  BY <1>1, <2>1, <2>2, <3>1, <3>2, SaveVaultAtom
  <2>4. QED
    BY <1>3, <1>6, <2>3 DEF CommitRegistration, Refuse
<1>7. CASE RemoveCredential
  <2> DEFINE v == [vault EXCEPT !.keys = @ \ {<<call.sid, call.key>>}]
  <2>1. v \in Vaults
    <3>1. vault.keys \ {<<call.sid, call.key>>} \in SUBSET (Sids \X Keys)
      BY <1>1 DEF Vaults
    <3>2. QED  BY <1>1, <3>1, WithKeysIsVault
  <2>2. Sound(v)
    BY <1>1, <2>1 DEF Sound, Vaults
  <2>3. SaveVault(v) => AtomInv'
    <3>1. IsVaultValid(v) => Atomic!Effect(call, vault, v)
      BY <1>1, <1>7, <2>1, <2>2, RemoveEffect DEF RemoveCredential
    <3>2. base # NoVault
      BY <1>2, <1>7 DEF RemoveCredential
    <3> HIDE DEF v
    <3>3. QED  BY <1>1, <2>1, <2>2, <3>1, <3>2, SaveVaultAtom
  <2>4. QED
    BY <1>3, <1>7, <2>3 DEF RemoveCredential, Refuse
<1>8. CASE SetEnforced
  <2> DEFINE v == [vault EXCEPT !.enforced =
                     IF call.op = "enable" THEN @ \cup {call.sid}
                                           ELSE @ \ {call.sid}]
  <2>1. v \in Vaults
    BY <1>1, <1>8, CallFields DEF Vaults, SetEnforced
  <2>2. SaveVault(v) /\ call.sid \in vault.accounts => AtomInv'
    <3>1. call.sid \in vault.accounts => Sound(v)
      BY <1>1 DEF Sound, Vaults
    <3>2. Sound(v) /\ IsVaultValid(v) => Atomic!Effect(call, vault, v)
      BY <1>1, <1>8, <2>1, EnforceEffect DEF SetEnforced
    <3>3. base # NoVault
      BY <1>2, <1>8 DEF SetEnforced
    <3> HIDE DEF v
    <3>4. QED  BY <1>1, <2>1, <3>1, <3>2, <3>3, SaveVaultAtom
  <2>3. QED
    BY <1>3, <1>8, <2>2 DEF SetEnforced, Refuse
<1>9. QED
  BY <1>4, <1>5, <1>6, <1>7, <1>8 DEF Apply

LEMMA SaveBeginsAtom ==
  ASSUME AtomInv, SaveBegins \/ WriteProtectedFile
  PROVE  AtomInv'
<1>1. /\ pc \in {"save", "write"} /\ Pending /\ pc \in Busy
      /\ UNCHANGED <<primary, bak>> /\ Durable' = Durable
  BY DEF SaveBegins, WriteProtectedFile, Pending, Busy, InPlay, InSave, Durable
<1>2. CASE Return("error")
  BY <1>1, <1>2, ErrorAtom
<1>3. CASE /\ IsVaultValid(vault) /\ pc' \in {"write", "backup"}
           /\ Goto(pc') /\ UNCHANGED <<creating, vault>>
  BY <1>1, <1>3, PendingAtom DEF Goto, history, Pending
<1>4. IsVaultValid(vault) \/ pc = "save"
  BY <1>1 DEF AtomInv, EffectInv
<1>5. QED
  BY <1>2, <1>3, <1>4 DEF SaveBegins, WriteProtectedFile, Refuse, Goto

LEMMA BackupAtom ==
  ASSUME SInv, SInv', AtomInv, BackupPrevious \/ CopyToBackup
  PROVE  AtomInv'
<1>1. /\ pc \in {"backup", "copy"} /\ Pending /\ pc \in Busy
      /\ primary' = primary /\ Durable' = Durable /\ IsVaultValid(vault)
  BY DurableWhole DEF BackupPrevious, CopyToBackup, Pending, Busy, InPlay, InSave,
                      AtomInv, EffectInv
<1>2. CASE Return("error")
  BY <1>1, <1>2, ErrorAtom
<1>3. CASE Goto("copy") /\ UNCHANGED <<creating, vault>>
  BY <1>1, <1>3, PendingAtom DEF Goto, history, Pending
<1>4. CASE AfterBackup
  BY <1>1, <1>4, PendingAtom DEF AfterBackup, Goto, history, Pending, Syncing
<1>5. QED
  BY <1>2, <1>3, <1>4 DEF BackupPrevious, BackupOutcome, CopyToBackup

\* Undoing the publication: the primary has not been touched.
LEMMA UndoAtom ==
  ASSUME AtomInv, IInv, Pending, pc # "save", UndoPolicy, primary' = primary,
         Durable' = Durable
  PROVE  AtomInv'
<1>1. pc \in Busy /\ pc \in InPlay
  BY DEF Pending, Syncing, Busy, InPlay, InSave
<1>2. CASE previous = NoVault
  BY <1>1, <1>2, ErrorAtom DEF UndoPolicy
<1>3. CASE previous # NoVault
  <2>1. /\ pc' = "sids" /\ purpose' = "undo"
        /\ UNCHANGED <<base, creating, vault, call>>
    BY <1>3 DEF UndoPolicy, Goto, history
  <2>2. BaseInv'
    BY <1>1, <2>1 DEF AtomInv, BaseInv, Pending, Replaced, Syncing, Busy, InPlay, InSave
  <2>3. EffectInv'
    BY <1>1, <2>1 DEF AtomInv, EffectInv, Sound, Pending, Syncing
  <2>4. QED  BY <2>2, <2>3 DEF AtomInv
<1>4. QED  BY <1>2, <1>3

\* Between two steps after the replacement, or within a refresh or an undoing.
LEMMA SettledAtom ==
  ASSUME AtomInv, pc \in InPlay, ~ Pending', pc' \in InSave,
         UNCHANGED <<base, creating, vault, call>>,
         base # NoVault => primary' \in Vaults,
         Sound(Durable'), Replaced' => previous' = base,
         pc' \in {"restore", "rollback"} => callFaults' > 0,
         pc' \in Syncing /\ purpose' = "undo" => base = Durable' \/ callFaults' > 1,
         pc' \in Syncing /\ purpose' = "refresh" => base = Durable' \/ base = NoVault
  PROVE  AtomInv'
<1>1. BaseInv'
  BY DEF AtomInv, BaseInv, Busy, InPlay, InSave, Syncing
<1>2. EffectInv'
  BY DEF AtomInv, EffectInv, Sound
<1>3. QED  BY <1>1, <1>2 DEF AtomInv

LEMMA SaveReturnsAtom ==
  ASSUME AtomInv, pc \in InPlay, SaveReturns, primary' \in Vaults, Sound(Durable')
  PROVE  AtomInv'
<1>1. CASE creating
  <2>1. /\ pc' = "apply" /\ ~ creating' /\ base' = NoVault
        /\ UNCHANGED <<vault, call>> /\ vault.accounts = {} /\ call.op = "startup"
        /\ base = NoVault
    BY <1>1 DEF SaveReturns, Goto, history, AtomInv, BaseInv, EmptyVault, Busy
  <2>2. BaseInv'
    BY <2>1 DEF BaseInv, Pending, Replaced, Syncing
  <2>3. EffectInv'
    BY <2>1 DEF AtomInv, EffectInv, Sound, Pending, Syncing
  <2>4. QED  BY <2>2, <2>3 DEF AtomInv
<1>2. CASE ~ creating
  BY <1>2, ReturnAtom DEF SaveReturns, Busy
<1>3. QED  BY <1>1, <1>2

LEMMA SyncFailsAtom ==
  ASSUME IInv, SInv, AtomInv, pc \in Syncing, SyncFails, UNCHANGED <<primary, bak>>
  PROVE  AtomInv'
<1>0. /\ pc \in InPlay /\ pc \in Busy /\ Durable' = Durable /\ callFaults' > 0
      /\ TInv
  BY StoreAssumption
     DEF Syncing, InPlay, InSave, Busy, Durable, SyncFails, Fault, IInv, TInv, StoreType,
         LimitsType
<1>1. CASE Return("error")
  BY <1>0, <1>1, ErrorAtom
<1>2. CASE purpose = "publish" /\ UndoPolicy
  BY <1>0, <1>2, UndoAtom DEF Pending, Syncing
<1>3. CASE /\ purpose = "retract" /\ Goto("restore")
           /\ UNCHANGED <<creating, vault, previous, purpose>>
  <2>1. /\ pc' = "restore" /\ ~ Pending' /\ pc' \in InSave /\ Sound(Durable')
        /\ UNCHANGED <<base, call>> /\ previous' = base
        /\ base # NoVault => primary' \in Vaults
    BY <1>0, <1>3 DEF Goto, history, Pending, Syncing, InSave, AtomInv, BaseInv,
                      EffectInv, Sound, Replaced
  <2>2. QED  BY <1>0, <1>3, <2>1, SettledAtom DEF Syncing
<1>4. QED
  BY <1>0, <1>1, <1>2, <1>3, SyncPurpose DEF SyncFails

LEMMA SyncAtom ==
  ASSUME IInv, SInv, AtomInv, WriteEnforcedSids \/ WriteEnableFilter
  PROVE  AtomInv'
<1>0. /\ pc \in Syncing /\ pc \in InPlay /\ pc \in Busy /\ TInv
      /\ UNCHANGED <<primary, bak>> /\ Durable' = Durable
  BY DEF WriteEnforcedSids, WriteEnableFilter, Syncing, InPlay, InSave, Busy, Durable,
         IInv, TInv
<1>1. Sound(Durable') /\ (base # NoVault => primary' \in Vaults)
  BY <1>0 DEF AtomInv, BaseInv, EffectInv, Sound
<1>2. CASE SyncFails
  BY <1>0, <1>2, SyncFailsAtom
<1>3. CASE /\ Goto("filter") /\ UNCHANGED <<creating, vault, previous, purpose>>
           /\ NoFault
  <2>1. CASE purpose = "publish"
    BY <1>0, <1>3, <2>1, PendingAtom DEF Goto, history, Pending, Syncing, AtomInv, EffectInv
  <2>2. CASE purpose # "publish"
    <3>1. /\ pc' = "filter" /\ ~ Pending' /\ pc' \in InSave
          /\ UNCHANGED <<base, call, callFaults>>
          /\ Replaced' => Replaced
      BY <1>0, <1>3, <2>2 DEF Goto, history, Pending, Replaced, Syncing, InSave, NoFault
    <3>2. QED
      BY <1>0, <1>1, <1>3, <3>1, SettledAtom DEF AtomInv, BaseInv, Replaced, Syncing
  <2>3. QED  BY <2>1, <2>2
<1>4. CASE SyncSucceeds
  <2>1. CASE purpose = "refresh"
    <3>1. primary \in Vaults
      BY <1>0, <2>1 DEF SInv, FilesInv, IInv, ControlInv, InPlay, InSave, Syncing
    <3>2. QED
      BY <1>0, <1>1, <1>4, <2>1, <3>1, ReturnAtom DEF SyncSucceeds
  <2>2. CASE purpose = "undo"
    BY <1>0, <1>1, <1>4, <2>2, ReturnAtom DEF SyncSucceeds
  <2>3. CASE purpose = "retract"
    <3>1. primary \in Vaults
      BY <1>0, <2>3 DEF SInv, FilesInv, IInv, ControlInv, InPlay, InSave, Syncing
    <3>2. QED
      BY <1>0, <1>1, <1>4, <2>3, <3>1, SaveReturnsAtom DEF SyncSucceeds
  <2>4. CASE purpose = "publish"
    BY <1>0, <1>4, <2>4, PendingAtom
       DEF SyncSucceeds, Goto, history, Pending, Syncing, AtomInv, EffectInv
  <2>5. QED
    BY <1>0, <2>1, <2>2, <2>3, <2>4, SyncPurpose
<1>5. QED
  BY <1>2, <1>3, <1>4 DEF WriteEnforcedSids, WriteEnableFilter

LEMMA ReplaceAtom ==
  ASSUME IInv, SInv, SInv', AtomInv, ReplacePrimary
  PROVE  AtomInv'
<1>0. /\ pc = "move" /\ pc \in InPlay /\ pc \in Busy /\ Pending
      /\ vault \in Vaults /\ tmp = vault /\ Sound(vault) /\ UNCHANGED bak
      /\ previous = base
  BY DEF ReplacePrimary, InPlay, InSave, Busy, Pending, IInv, ControlInv, SInv, FilesInv,
         AtomInv, BaseInv, EffectInv
<1>1. CASE primary' = tmp /\ SaveReturns
  BY <1>0, <1>1, DurableWhole, SaveReturnsAtom
<1>2. CASE /\ primary' = tmp /\ purpose' = "retract" /\ Goto("sids")
           /\ UNCHANGED <<creating, vault, previous>>
  <2>1. /\ pc' = "sids" /\ ~ Pending' /\ pc' \in InSave /\ Sound(Durable')
        /\ UNCHANGED <<base, call>> /\ primary' \in Vaults
    BY <1>0, <1>2, DurableWhole DEF Goto, history, Pending, Syncing, InSave
  <2>2. QED  BY <1>0, <1>2, <2>1, SettledAtom DEF Syncing
<1>3. CASE primary' = primary /\ (UndoPolicy \/ Return("error"))
  BY <1>0, <1>3, UndoAtom, ErrorAtom DEF Durable
<1>4. QED
  BY <1>1, <1>2, <1>3 DEF ReplacePrimary

LEMMA RestoreAtom ==
  ASSUME IInv, SInv, SInv', AtomInv, RestoreCopiesBackup \/ RestoreReplacesPrimary
  PROVE  AtomInv'
<1>0. /\ pc \in {"restore", "rollback"} /\ pc \in InPlay /\ previous = base
      /\ previous \in Vaults /\ callFaults > 0 /\ callFaults \in Nat
      /\ pc = "rollback" => rollback = previous
      /\ UNCHANGED <<creating, vault, previous, base, call>>
      /\ primary \in Vaults
  BY StoreAssumption, NotVaults
     DEF RestoreCopiesBackup, RestoreReplacesPrimary, InPlay, InSave, Busy, AtomInv, BaseInv,
         Replaced, IInv, ControlInv, StoreType, LimitsType, SInv, FilesInv, Goto, history
<1>1. primary' \in {primary, base} /\ primary' \in Vaults
  BY <1>0 DEF RestoreCopiesBackup, RestoreReplacesPrimary
<1>2. Sound(Durable') /\ Durable' = primary' /\ Durable = primary
  BY <1>0, <1>1, DurableWhole DEF AtomInv, EffectInv, Sound
<1>3. CASE Goto("rollback") /\ NoFault
  BY <1>0, <1>1, <1>2, <1>3, SettledAtom
     DEF Goto, NoFault, Pending, Syncing, InSave
<1>4. CASE /\ purpose' = "undo" /\ Goto("sids")
           /\ primary' = base \/ callFaults' = callFaults + 1
  BY <1>0, <1>1, <1>2, <1>4, SettledAtom
     DEF Goto, Pending, Replaced, Syncing, InSave
<1>5. QED
  BY <1>0, <1>3, <1>4 DEF RestoreCopiesBackup, RestoreReplacesPrimary, Fault

LEMMA EnvironmentAtom ==
  ASSUME IInv, SInv, AtomInv, losses = 0, losses' = 0,
         \/ Restart \/ Crash \/ Reboot \/ Damage
         \/ \E c \in Requests : Begin(c)
         \/ \E s \in Deletable : DeleteAccount(s)
         \/ UNCHANGED vars
  PROVE  AtomInv'
<1>1. ~ Damage
  BY DEF Damage
<1>2. CASE Restart \/ \E c \in Requests : Begin(c)
  <2>1. /\ pc' = "load" /\ base' = Durable /\ Durable' = Durable
        /\ primary' = primary /\ ~ creating'
        /\ Durable = NoVault => call'.op = "startup"
    BY <1>2, StartupIsCall, DurableWhole, NotVaults
       DEF Restart, Begin, files, Durable, AtomInv, BaseInv, IInv, ControlInv
  <2>2. BaseInv'
    BY <2>1, DurableWhole DEF BaseInv, Pending, Replaced, Syncing
  <2>3. EffectInv'
    BY <2>1 DEF AtomInv, EffectInv, Sound, Pending, Syncing, InPlay, InSave
  <2>4. QED  BY <2>2, <2>3 DEF AtomInv
<1>3. CASE Crash \/ Reboot
  <2>1. /\ pc' = "down" /\ base' = base /\ Durable' = Durable /\ ~ creating'
    BY <1>3 DEF Crash, Reboot, files, history, limits, Durable, IInv, ControlInv
  <2>2. BaseInv'
    BY <2>1 DEF BaseInv, Pending, Replaced, Syncing, Busy, InPlay, InSave
  <2>3. EffectInv'
    BY <2>1 DEF AtomInv, EffectInv, Sound, Pending, Syncing, InPlay, InSave
  <2>4. QED  BY <2>2, <2>3 DEF AtomInv
<1>4. CASE (\E s \in Deletable : DeleteAccount(s)) \/ UNCHANGED vars
  <2>1. /\ live' \subseteq live /\ Durable' = Durable
        /\ UNCHANGED <<files, pc, call, creating, vault, previous, purpose, base, callFaults>>
    BY <1>4 DEF DeleteAccount, vars, files, control, limits, history, Durable
  <2>2. BaseInv'
    BY <2>1 DEF AtomInv, BaseInv, Pending, Replaced, files
  <2>3. Pending /\ ~ creating /\ IsVaultValid(vault) => Atomic!Effect(call, base, vault)'
    BY <2>1, EffectWhileDeleting DEF AtomInv, EffectInv
  <2>4. EffectInv'
    BY <2>1, <2>3 DEF AtomInv, EffectInv, Sound, Pending, IsVaultValid, KeysOf
  <2>5. QED  BY <2>2, <2>4 DEF AtomInv
<1>5. QED  BY <1>1, <1>2, <1>3, <1>4

LEMMA NextAtom ==
  ASSUME IInv, IInv', AtomInv, losses = 0, losses' = 0, [Next]_vars
  PROVE  AtomInv'
<1>0. SInv /\ SInv'
  BY DEF IInv
<1>1. CASE Step
  BY <1>0, <1>1, LoadAtom, ApplyAtom, SaveBeginsAtom, BackupAtom, SyncAtom, ReplaceAtom,
     RestoreAtom DEF Step, StoreStep
<1>2. QED
  BY <1>0, <1>1, EnvironmentAtom DEF Next

-----------------------------------------------------------------------------
(* The steps of the store as steps of AtomicVault.                          *)

AtomicPhase == IF pc \in {"down", "stopped", "idle"} THEN pc ELSE "busy"

\* The constants are those of Vault, and so are its definitions.
LEMMA SameVaults ==
  /\ Atomic!StartupCall = StartupCall /\ Atomic!Calls = Calls /\ Atomic!Vaults = Vaults
  /\ \A m \in Machines : Atomic!EmptyVault(m) = EmptyVault(m)
BY DEF Atomic!StartupCall, StartupCall, Atomic!Calls, Calls, Atomic!Vaults, Vaults,
       Atomic!EmptyVault, EmptyVault

LEMMA BusyPhase == pc \in Busy => pc \notin {"down", "stopped", "idle"}
BY DEF Busy, InPlay, InSave

\* A call that returns an error has changed nothing, or could not undo it.
LEMMA ErrorSimulates ==
  ASSUME pc \in Busy, Return("error"), Durable' = Durable,
         base = Durable \/ base = NoVault \/ callFaults > 1
  PROVE  Atomic!Next
<1>1. Atomic!Fail
  BY BusyPhase, SameVaults DEF Atomic!Fail, Return
<1>2. QED  BY <1>1 DEF Atomic!Next

\* A call that returns success has changed nothing now, or everything.
LEMMA SuccessSimulates ==
  ASSUME pc \in Busy, Return("ok"),
         \/ Durable' = Durable
         \/ base = Durable /\ Durable' \in Vaults /\ Atomic!Effect(call, Durable, Durable')
  PROVE  Atomic!Next
<1>1. Atomic!Succeed
  BY BusyPhase, SameVaults DEF Atomic!Succeed, Return
<1>2. QED  BY <1>1 DEF Atomic!Next

\* In between a call goes on.
Continues ==
  /\ pc \in Busy /\ pc' \in Busy /\ UNCHANGED <<base, live, call, result>>

LEMMA GotoContinues ==
  ASSUME pc \in Busy, NEW l \in InPlay, Goto(l)
  PROVE  Continues
BY DEF Goto, history, Continues, Busy

LEMMA PhaseContinues ==
  ASSUME Continues
  PROVE  /\ AtomicPhase = "busy" /\ AtomicPhase' = "busy"
         /\ pc \notin {"down", "stopped", "idle"} /\ pc' \notin {"down", "stopped", "idle"}
BY DEF Continues, AtomicPhase, Busy, InPlay, InSave

LEMMA StutterSimulates ==
  ASSUME Continues, Durable' = Durable
  PROVE  UNCHANGED Atomic!vars
BY PhaseContinues DEF Continues, Atomic!vars

LEMMA LoadSimulates ==
  ASSUME AtomInv, Load
  PROVE  Atomic!Next \/ UNCHANGED Atomic!vars
<1>1. pc \in Busy /\ Durable' = Durable /\ base = Durable
  BY DEF Load, files, Durable, Busy, AtomInv, BaseInv
<1>2. CASE Return("error")
  BY <1>1, <1>2, ErrorSimulates
<1>3. CASE Goto("apply") \/ Goto("save")
  BY <1>1, <1>3, GotoContinues, StutterSimulates DEF InPlay, InSave
<1>4. QED
  BY <1>2, <1>3 DEF Load, LoadOutcome

LEMMA ApplySimulates ==
  ASSUME AtomInv, Apply
  PROVE  Atomic!Next \/ UNCHANGED Atomic!vars
<1>1. pc \in Busy /\ Durable' = Durable /\ (base = Durable \/ base = NoVault)
  BY DEF Apply, files, Durable, Busy, InPlay, AtomInv, BaseInv
<1>2. CASE Return("error")
  BY <1>1, <1>2, ErrorSimulates
<1>3. CASE Goto("save") \/ Goto("sids")
  BY <1>1, <1>3, GotoContinues, StutterSimulates DEF InPlay, InSave
<1>4. QED
  BY <1>2, <1>3
     DEF Apply, RefreshLocalAccounts, UpsertAccount, CommitRegistration, RemoveCredential,
         SetEnforced, SaveVault, Refuse

\* Up to the replacement nothing durable changes.
LEMMA PendingSimulates ==
  ASSUME SInv, SInv', AtomInv,
         SaveBegins \/ WriteProtectedFile \/ BackupPrevious \/ CopyToBackup
  PROVE  Atomic!Next \/ UNCHANGED Atomic!vars
<1>1. pc \in Busy /\ base = Durable /\ primary' = primary
  BY DEF SaveBegins, WriteProtectedFile, BackupPrevious, CopyToBackup, Busy, InPlay,
         InSave, AtomInv, BaseInv, Pending
<1>2. Durable' = Durable
  BY <1>1, DurableWhole
<1>3. CASE Return("error")
  BY <1>1, <1>2, <1>3, ErrorSimulates
<1>4. CASE Goto("write") \/ Goto("backup") \/ Goto("copy") \/ Goto("sids") \/ Goto("move")
  BY <1>1, <1>2, <1>4, GotoContinues, StutterSimulates DEF InPlay, InSave
<1>5. QED
  BY <1>3, <1>4
     DEF SaveBegins, WriteProtectedFile, BackupPrevious, BackupOutcome, CopyToBackup,
         AfterBackup, Refuse

LEMMA UndoSimulates ==
  ASSUME AtomInv, Pending, UndoPolicy, Durable' = Durable
  PROVE  Atomic!Next \/ UNCHANGED Atomic!vars
<1>1. pc \in Busy /\ base = Durable
  BY DEF Pending, Syncing, Busy, InPlay, InSave, AtomInv, BaseInv
<1>2. CASE Return("error")
  BY <1>1, <1>2, ErrorSimulates
<1>3. CASE Goto("sids")
  BY <1>1, <1>3, GotoContinues, StutterSimulates DEF InPlay, InSave
<1>4. QED  BY <1>2, <1>3 DEF UndoPolicy

LEMMA SyncSimulates ==
  ASSUME TInv, AtomInv, WriteEnforcedSids \/ WriteEnableFilter
  PROVE  Atomic!Next \/ UNCHANGED Atomic!vars
<1>1. pc \in Syncing /\ pc \in Busy /\ Durable' = Durable
  BY DEF WriteEnforcedSids, WriteEnableFilter, Syncing, Busy, InPlay, InSave, Durable
<1>2. /\ purpose \in {"refresh", "undo"} => base = Durable \/ base = NoVault \/ callFaults > 1
      /\ purpose = "publish" => Pending
      /\ purpose = "retract" => previous = base
  BY <1>1 DEF AtomInv, BaseInv, Pending, Replaced
<1>3. CASE Goto("filter") \/ Goto("move") \/ Goto("restore") \/ Goto("apply")
  BY <1>1, <1>3, GotoContinues, StutterSimulates DEF InPlay, InSave
<1>4. CASE SyncFails
  <2>1. CASE purpose = "publish"
    BY <1>1, <1>2, <1>4, <2>1, UndoSimulates DEF SyncFails
  <2>2. CASE purpose \in {"refresh", "undo"}
    BY <1>1, <1>2, <1>4, <2>2, ErrorSimulates DEF SyncFails
  <2>3. CASE purpose = "retract"
    BY <1>1, <1>2, <1>3, <1>4, <2>3, ErrorSimulates DEF SyncFails
  <2>4. QED  BY <1>1, <2>1, <2>2, <2>3, SyncPurpose
<1>5. CASE SyncSucceeds
  <2>1. CASE purpose = "undo"
    BY <1>1, <1>2, <1>5, <2>1, ErrorSimulates DEF SyncSucceeds
  <2>2. CASE purpose \in {"refresh", "retract"}
    BY <1>1, <1>3, <1>5, <2>2, SuccessSimulates DEF SyncSucceeds, SaveReturns
  <2>3. CASE purpose = "publish"
    BY <1>3, <1>5, <2>3 DEF SyncSucceeds
  <2>4. QED  BY <1>1, <2>1, <2>2, <2>3, SyncPurpose
<1>6. QED
  BY <1>3, <1>4, <1>5 DEF WriteEnforcedSids, WriteEnableFilter

\* The replacement is where the call takes place.
LEMMA ReplaceSimulates ==
  ASSUME IInv, SInv, SInv', AtomInv, ReplacePrimary
  PROVE  Atomic!Next \/ UNCHANGED Atomic!vars
<1>0. /\ pc = "move" /\ pc \in Busy /\ Pending /\ base = Durable
      /\ vault \in Vaults /\ tmp = vault /\ IsVaultValid(vault) /\ UNCHANGED bak
      /\ ~ creating => base # NoVault /\ Atomic!Effect(call, base, vault)
      /\ creating => vault.enforced = {}
  BY DEF ReplacePrimary, Busy, InPlay, InSave, Pending, IInv, ControlInv, SInv, FilesInv,
         AtomInv, BaseInv, EffectInv
<1>1. CASE primary' = tmp /\ HasEnforcedAccounts /\ SaveReturns
  <2>1. Durable' = vault /\ ~ creating /\ Return("ok")
    BY <1>0, <1>1, DurableWhole DEF HasEnforcedAccounts, SaveReturns
  <2>2. QED  BY <1>0, <2>1, SuccessSimulates
<1>2. CASE /\ primary' = tmp /\ purpose' = "retract" /\ Goto("sids")
           /\ UNCHANGED <<creating, vault, previous>>
  <2>1. Durable' = vault /\ Continues
    BY <1>0, <1>2, DurableWhole, GotoContinues DEF InPlay, InSave
  <2>2. CASE creating
    <3>1. Durable = NoVault /\ \E m \in Machines : vault = Atomic!EmptyVault(m)
      BY <1>0, <2>2, SameVaults DEF AtomInv, BaseInv
    <3>2. Atomic!Create
      BY <2>1, <3>1, PhaseContinues DEF Atomic!Create, Continues
    <3>3. QED  BY <3>2 DEF Atomic!Next
  <2>3. CASE ~ creating
    <3>1. Atomic!Commit
      BY <1>0, <2>1, <2>3, PhaseContinues, SameVaults DEF Atomic!Commit, Continues
    <3>2. QED  BY <3>1 DEF Atomic!Next
  <2>4. QED  BY <2>2, <2>3
<1>3. CASE primary' = primary /\ (UndoPolicy \/ Return("error"))
  BY <1>0, <1>3, UndoSimulates, ErrorSimulates DEF Durable
<1>4. QED
  BY <1>1, <1>2, <1>3 DEF ReplacePrimary

LEMMA RestoreSimulates ==
  ASSUME IInv, SInv, SInv', AtomInv, RestoreCopiesBackup \/ RestoreReplacesPrimary
  PROVE  Atomic!Next \/ UNCHANGED Atomic!vars
<1>0. /\ pc \in {"restore", "rollback"} /\ pc \in Busy /\ previous = base
      /\ previous \in Vaults /\ base # NoVault
      /\ pc = "rollback" => rollback = previous
  BY NotVaults
     DEF RestoreCopiesBackup, RestoreReplacesPrimary, Busy, InPlay, InSave, AtomInv, BaseInv,
         Replaced, IInv, ControlInv, SInv, FilesInv
<1>1. Continues
  BY <1>0, GotoContinues DEF RestoreCopiesBackup, RestoreReplacesPrimary, InPlay, InSave
<1>2. CASE primary' = primary
  BY <1>1, <1>2, DurableWhole, StutterSimulates
<1>3. CASE primary' = base
  <2>1. Durable' = base
    BY <1>0, <1>3, DurableWhole
  <2>2. Atomic!RollBack
    BY <1>0, <1>1, <2>1, PhaseContinues DEF Atomic!RollBack, Continues
  <2>3. QED  BY <2>2 DEF Atomic!Next
<1>4. QED
  BY <1>0, <1>2, <1>3 DEF RestoreCopiesBackup, RestoreReplacesPrimary

LEMMA EnvironmentSimulates ==
  ASSUME TInv, AtomInv, losses = 0, losses' = 0,
         \/ Restart \/ Crash \/ Reboot \/ Damage
         \/ \E c \in Requests : Begin(c)
         \/ \E s \in Deletable : DeleteAccount(s)
         \/ UNCHANGED vars
  PROVE  Atomic!Next \/ UNCHANGED Atomic!vars
<1>1. ~ Damage
  BY DEF Damage
<1>2. CASE Restart
  <2>1. Atomic!Begin(StartupCall)
    BY <1>2, StartupIsCall DEF Restart, Atomic!Begin, files, Durable
  <2>2. QED  BY <2>1, StartupIsCall, SameVaults DEF Atomic!Next
<1>3. CASE \E c \in Requests : Begin(c)
  <2>1. PICK c \in Requests : Begin(c)
    BY <1>3
  <2>2. Atomic!Begin(c) /\ c \in Calls
    BY <2>1, StoreAssumption DEF Begin, Atomic!Begin, files, Durable
  <2>3. QED  BY <2>2, SameVaults DEF Atomic!Next
<1>4. CASE Crash
  <2>1. pc \notin {"down", "stopped"} /\ pc' = "down" /\ UNCHANGED <<base, live>>
        /\ call' = StartupCall /\ result' = "none" /\ Durable' = Durable
    BY <1>4 DEF Crash, files, history, Durable
  <2>2. Atomic!Crash
    BY <2>1, SameVaults DEF Atomic!Crash
  <2>3. QED  BY <2>2 DEF Atomic!Next
<1>5. CASE Reboot
  <2>1. Atomic!Reboot
    BY <1>5 DEF Reboot, files, history, Durable, Atomic!Reboot
  <2>2. QED  BY <2>1 DEF Atomic!Next
<1>6. CASE \E s \in Deletable : DeleteAccount(s)
  <2>1. PICK s \in Deletable : DeleteAccount(s)
    BY <1>6
  <2>2. Atomic!DeleteAccount(s)
    BY <2>1 DEF DeleteAccount, Atomic!DeleteAccount, files, control, Durable
  <2>3. QED  BY <2>2, StoreAssumption DEF Atomic!Next
<1>7. CASE UNCHANGED vars
  BY <1>7 DEF vars, files, control, history, Durable, Atomic!vars
<1>8. QED
  BY <1>1, <1>2, <1>3, <1>4, <1>5, <1>6, <1>7

NothingLost == losses = 0

\* Without losses every call of the store is one step of AtomicVault: the vault
\* from before it is durable or the one it asks for, wherever the process dies,
\* and after an error the former, unless undoing one failure met another
\* (LocalCredentialStore.cpp, Save).
THEOREM CallsAreAlwaysAtomic == Spec /\ []NothingLost => CallsAreAtomic
<1>1. Init => Atomic!Init
  BY NotVaults, SameVaults, FirstValidIs DEF Init, Atomic!Init, Durable
<1>2. Init => AtomInv
  BY NotVaults, FirstValidIs
     DEF Init, Durable, AtomInv, BaseInv, EffectInv, Sound, Busy, InPlay, InSave, Pending,
         Replaced, Syncing
<1>3. ASSUME IInv, IInv', AtomInv, losses = 0, losses' = 0, [Next]_vars
      PROVE  Atomic!Next \/ UNCHANGED Atomic!vars
  <2>1. SInv /\ SInv' /\ TInv
    BY <1>3 DEF IInv, TInv
  <2>2. CASE Step
    BY <1>3, <2>1, <2>2, LoadSimulates, ApplySimulates, PendingSimulates, SyncSimulates,
       ReplaceSimulates, RestoreSimulates DEF Step, StoreStep
  <2>3. QED
    BY <1>3, <2>1, <2>2, EnvironmentSimulates DEF Next
<1>4. IInv /\ IInv' /\ AtomInv /\ NothingLost /\ NothingLost' /\ [Next]_vars => AtomInv'
  BY NextAtom DEF NothingLost
<1>5. IInv /\ IInv' /\ AtomInv /\ NothingLost /\ NothingLost' /\ [Next]_vars =>
        [Atomic!Next]_(Atomic!vars)
  BY <1>3 DEF NothingLost
<1>6. QED
  BY <1>1, <1>2, <1>4, <1>5, Inductive, PTL DEF Spec, CallsAreAtomic, Atomic!Spec
=============================================================================
