--------------------------- MODULE CredentialStore ---------------------------
(***************************************************************************)
(* The credential store of the Broker: LocalCredentialStore.cpp.           *)
(*                                                                         *)
(* One store call runs at a time (the Broker is single threaded).  A call  *)
(* loads the vault from the primary file or from its backup, changes it in *)
(* memory and saves it: temporary file, backup of the old primary, policy  *)
(* in the registry, replacement of the primary, and a rollback when the    *)
(* registry cannot be written.  Every file and registry access is a step   *)
(* of its own that may fail; the process may stop between any two of them. *)
(*                                                                         *)
(* The registry values EnforcedSids and enable_filter are read at any time *)
(* by the credential provider and by the filter in LogonUI, so what they   *)
(* and the files hold between two steps matters.                           *)
(***************************************************************************)
EXTENDS Vault

CONSTANTS Absent, Damaged,     \* a file that is missing, or cannot be read
          Requests,            \* bound: the store calls that requests make
          Deletable,           \* bound: the accounts that may be deleted
          MaxCallFaults,       \* bound: failing accesses during one call
          MaxLosses            \* bound: losses of stored bytes in a behaviour

Contents == Vaults \cup {Absent, Damaged}

PCs == {"down", "stopped", "idle", "load", "apply", "save", "write", "backup",
        "copy", "sids", "filter", "move", "restore", "rollback"}

Purposes == {"none", "refresh", "publish", "retract", "undo"}

ASSUME StoreAssumption ==
  /\ Requests \subseteq Calls /\ Deletable \subseteq Sids
  /\ MaxCallFaults \in Nat /\ MaxLosses \in Nat
  /\ Absent # Damaged
  /\ Absent \notin Vaults /\ Damaged \notin Vaults

VARIABLES
  primary, bak, tmp, rollback,  \* credentials.dat and its three companions
  regSids, filterOn,            \* registry: EnforcedSids and enable_filter
  live,                         \* SIDs the local SAM still resolves
  pc, call,                     \* next step and the call that is running
  creating,                     \* LoadOrCreate is saving a vault it created
  vault,                        \* the vault loaded, then changed, by the call
  previous,                     \* Save's previousVault
  purpose,                      \* which SynchronizeEnforcedRegistry call runs
  result,                       \* what the last call returned
  callFaults, losses,           \* what has gone wrong so far
  base,                         \* history: durable vault when the call began
  acked,                        \* history: SIDs whose enforcement the Broker
                                \* has confirmed, and not been asked to lift
  rpId                          \* history: the machine id of the first vault
                                \* that was durable; see Damage

files == <<primary, bak, tmp, rollback>>
registry == <<regSids, filterOn>>
control == <<pc, call, creating, vault, previous, purpose, result>>
limits == <<callFaults, losses>>
history == <<base, acked>>
vars == <<files, registry, live, control, limits, history, rpId>>

\* What Load would return now: the primary file, else its backup.
FirstValid(p, b) ==
  IF p \in Vaults THEN p ELSE IF b \in Vaults THEN b ELSE NoVault
Durable == FirstValid(primary, bak)

\* Reading a file returns its contents, or fails: a read that fails although
\* the bytes are there counts as a loss.
Reads(file) == {file, Damaged}
Lost(file, read) == IF read = file THEN 0 ELSE 1

Init ==
  /\ primary = Absent /\ bak = Absent /\ tmp = Absent /\ rollback = Absent
  /\ regSids = {} /\ filterOn = FALSE /\ live = Sids
  /\ pc = "down" /\ call = StartupCall /\ creating = FALSE
  /\ vault = NoVault /\ previous = NoVault /\ purpose = "none"
  /\ result = "none"
  /\ callFaults = 0 /\ losses = 0
  /\ base = NoVault /\ acked = {} /\ rpId = None

-----------------------------------------------------------------------------
(* Returning from a call.  A failing startup refresh ends Run, and with it  *)
(* the service.                                                             *)

Return(outcome) ==
  /\ result' = outcome
  /\ pc' = IF call.op = "startup" /\ outcome = "error" THEN "stopped" ELSE "idle"
  /\ acked' = IF outcome = "ok" /\ call.op = "enable"
                THEN acked \cup ({call.sid} \cap live) ELSE acked
  /\ call' = StartupCall /\ creating' = FALSE
  /\ previous' = NoVault /\ purpose' = "none"
  /\ UNCHANGED <<vault, base, live>>

\* One more access of this call fails.
Fault == callFaults < MaxCallFaults /\ callFaults' = callFaults + 1
NoFault == UNCHANGED callFaults

Goto(label) ==
  /\ pc' = label
  /\ UNCHANGED <<call, result, history, live>>

\* Save has succeeded: for LoadOrCreate the call goes on with the new vault.
SaveReturns ==
  IF creating
    THEN /\ Goto("apply")
         /\ creating' = FALSE /\ previous' = NoVault /\ purpose' = "none"
         /\ UNCHANGED vault
    ELSE Return("ok")

-----------------------------------------------------------------------------
(* Service start, requests, and what happens around the process.            *)

\* The service control manager starts the service; Run first refreshes.
Restart ==
  /\ pc = "down"
  /\ pc' = "load" /\ call' = StartupCall /\ callFaults' = 0 /\ base' = Durable
  /\ result' = "none" /\ vault' = NoVault
  /\ UNCHANGED <<files, registry, live, creating, previous, purpose, losses,
                 acked, rpId>>

\* A request makes a store call.  A request that lifts enforcement gives up
\* the promise to this account from here on, whatever becomes of the call.
Begin(c) ==
  /\ pc = "idle" /\ c.op # "startup"
  /\ pc' = "load" /\ call' = c /\ callFaults' = 0 /\ base' = Durable
  /\ acked' = IF c.op = "disable" THEN acked \ {c.sid} ELSE acked
  /\ result' = "none" /\ vault' = NoVault
  /\ UNCHANGED <<files, registry, live, creating, previous, purpose, losses, rpId>>

\* The process dies between two steps; its memory is gone.
Crash ==
  /\ pc \notin {"down", "stopped"}
  /\ pc' = "down" /\ call' = StartupCall /\ creating' = FALSE
  /\ vault' = NoVault /\ previous' = NoVault /\ purpose' = "none"
  /\ result' = "none"
  /\ UNCHANGED <<files, registry, live, callFaults, losses, history, rpId>>

\* A reboot, or an administrator, starts a service that has stopped itself.
Reboot ==
  /\ pc = "stopped"
  /\ pc' = "down"
  /\ UNCHANGED <<files, registry, live, call, creating, vault, previous,
                 purpose, result, limits, history, rpId>>

\* Bytes at rest are lost: a file is corrupted or removed from outside.  When
\* the primary is removed and no backup can be read, nothing of the old
\* installation is left: whatever id comes next is its id.
Damage ==
  /\ pc \in {"down", "stopped", "idle"} /\ losses < MaxLosses
  /\ losses' = losses + 1
  /\ \E what \in {Absent, Damaged} :
       \/ primary' = what /\ UNCHANGED bak
       \/ bak' = what /\ UNCHANGED primary
  /\ rpId' = IF primary' = Absent /\ Durable' = NoVault THEN None ELSE rpId
  /\ UNCHANGED <<tmp, rollback, registry, live, control, callFaults, history>>

\* An administrator deletes a local account; Windows never reuses its SID.
DeleteAccount(s) ==
  /\ s \in live
  /\ live' = live \ {s} /\ acked' = acked \ {s}
  /\ UNCHANGED <<files, registry, control, limits, base, rpId>>

-----------------------------------------------------------------------------
(* Load and LoadOrCreate.                                                   *)

\* The two files are read as p and b.
Reading(p, b) ==
  /\ losses' = losses + Lost(primary, p) + Lost(bak, b)
  /\ losses' <= MaxLosses

NewVaultWhenUnreadable(p, b) ==  \* mutant: any unreadable vault is replaced
  \/ /\ FirstValid(p, b) # NoVault
     /\ vault' = FirstValid(p, b) /\ Goto("apply")
     /\ UNCHANGED <<creating, previous, purpose>> /\ NoFault
  \/ /\ FirstValid(p, b) = NoVault
     /\ \E m \in Machines : vault' = EmptyVault(m)
     /\ creating' = TRUE /\ Goto("save")
     /\ UNCHANGED <<previous, purpose>> /\ NoFault

LoadWaitsForFiles(p, b) ==  \* mutant: an unreadable vault is read again
  \/ /\ FirstValid(p, b) # NoVault
     /\ vault' = FirstValid(p, b) /\ Goto("apply")
     /\ UNCHANGED <<creating, previous, purpose>> /\ NoFault
  \/ /\ FirstValid(p, b) = NoVault /\ p = Absent
     /\ \E m \in Machines : vault' = EmptyVault(m)
     /\ creating' = TRUE /\ Goto("save")
     /\ UNCHANGED <<previous, purpose>> /\ NoFault
  \/ /\ FirstValid(p, b) = NoVault /\ p # Absent /\ Goto("load")
     /\ UNCHANGED <<vault, creating, previous, purpose>> /\ NoFault

\* The backup answers for a primary that is missing or unreadable; a new
\* vault is made only when the primary's error is "not found".
LoadOutcome(p, b) ==
  \/ /\ FirstValid(p, b) # NoVault
     /\ vault' = FirstValid(p, b) /\ Goto("apply")
     /\ UNCHANGED <<creating, previous, purpose>> /\ NoFault
  \/ /\ FirstValid(p, b) = NoVault /\ p = Absent
     /\ \E m \in Machines : vault' = EmptyVault(m)
     /\ creating' = TRUE /\ Goto("save")
     /\ UNCHANGED <<previous, purpose>> /\ NoFault
  \/ /\ FirstValid(p, b) = NoVault
     /\ IF p = Absent THEN Fault      \* no random machine id
                      ELSE NoFault
     /\ Return("error")

Load ==
  /\ pc = "load"
  /\ \E p \in Reads(primary), b \in Reads(bak) : Reading(p, b) /\ LoadOutcome(p, b)
  /\ UNCHANGED <<files, registry>>

-----------------------------------------------------------------------------
(* What each operation does with the vault it loaded.                       *)

SaveVault(v) ==
  /\ vault' = v /\ Goto("save")
  /\ UNCHANGED <<creating, previous, purpose>> /\ NoFault

Refuse == Return("error") /\ NoFault

RefreshErasesUnresolved ==  \* mutant: a resolver error counts as "deleted"
  /\ call.op \in {"startup", "refresh"}
  /\ \E known \in SUBSET live : SaveVault(Keep(vault, known))

\* Accounts Windows no longer resolves are erased; any other resolver error
\* aborts before anything is written.  A renamed account also needs a save.
RefreshLocalAccounts ==
  /\ call.op \in {"startup", "refresh"}
  /\ \/ vault.accounts # {} /\ Fault /\ Return("error")
     \/ \E renamed \in SUBSET (vault.accounts \cap live) :
          IF renamed # {} \/ ~ (vault.accounts \subseteq live)
            THEN SaveVault(Keep(vault, live))
            ELSE /\ purpose' = "refresh" /\ Goto("sids")
                 /\ UNCHANGED <<vault, creating, previous>> /\ NoFault

UpsertAccount ==
  /\ call.op = "upsert"
  /\ IF call.sid \in vault.accounts THEN SaveVault(vault) ELSE Refuse

CommitRegistration ==
  /\ call.op = "register"
  /\ IF \/ \E s \in Sids : <<s, call.key>> \in vault.keys
        \/ Cardinality(KeysOf(vault, call.sid)) >= MaxKeysPerAccount
       THEN Refuse
       ELSE SaveVault([vault EXCEPT !.accounts = @ \cup {call.sid},
                                    !.keys = @ \cup {<<call.sid, call.key>>}])

RemoveCredential ==
  /\ call.op = "remove"
  /\ IF \/ <<call.sid, call.key>> \notin vault.keys
        \/ /\ call.sid \in vault.enforced
           /\ Cardinality(KeysOf(vault, call.sid)) <= 1
       THEN Refuse
       ELSE SaveVault([vault EXCEPT !.keys = @ \ {<<call.sid, call.key>>}])

SetEnforced ==
  /\ call.op \in {"enable", "disable"}
  /\ IF \/ call.sid \notin vault.accounts
        \/ call.op = "enable" /\ KeysOf(vault, call.sid) = {}
       THEN Refuse
       ELSE SaveVault([vault EXCEPT !.enforced =
                         IF call.op = "enable" THEN @ \cup {call.sid}
                                               ELSE @ \ {call.sid}])

Apply ==
  /\ pc = "apply"
  /\ \/ RefreshLocalAccounts \/ UpsertAccount \/ CommitRegistration
     \/ RemoveCredential \/ SetEnforced
  /\ UNCHANGED <<files, registry, losses>>

-----------------------------------------------------------------------------
(* Save.                                                                    *)

\* Validation and the directory come first; opening the temporary file
\* truncates it.
SaveBegins ==
  /\ pc = "save"
  /\ \/ ~ IsVaultValid(vault) /\ Refuse /\ UNCHANGED tmp
     \/ /\ IsVaultValid(vault)
        /\ tmp' = Damaged /\ Goto("write")
        /\ UNCHANGED <<creating, vault, previous, purpose>> /\ NoFault
     \/ IsVaultValid(vault) /\ Fault /\ Return("error") /\ UNCHANGED tmp
  /\ UNCHANGED <<primary, bak, rollback, registry, losses>>

\* The bytes are written and flushed; a failure leaves a torn file behind.
WriteProtectedFile ==
  /\ pc = "write"
  /\ \/ /\ tmp' = vault /\ Goto("backup")
        /\ UNCHANGED <<creating, vault, previous, purpose>> /\ NoFault
     \/ Fault /\ Return("error") /\ UNCHANGED tmp
  /\ UNCHANGED <<primary, bak, rollback, registry, losses>>

HasEnforcedAccounts == vault.enforced # {}

ReplaceBeforePublishing ==  \* mutant: the policy is not published first
  /\ Goto("move") /\ purpose' = "none" /\ UNCHANGED <<creating, vault>>

\* After the backup: an enforcing policy is published before the replacement.
AfterBackup ==
  /\ Goto(IF HasEnforcedAccounts THEN "sids" ELSE "move")
  /\ purpose' = IF HasEnforcedAccounts THEN "publish" ELSE "none"
  /\ UNCHANGED <<creating, vault>>

CopyUnchecked(p, b) ==  \* mutant: a corrupt primary overwrites the backup
  \/ /\ p # Absent
     /\ previous' = FirstValid(p, b) /\ bak' = Damaged /\ Goto("copy")
     /\ UNCHANGED <<tmp, creating, vault, purpose>> /\ NoFault
  \/ /\ p = Absent
     /\ previous' = FirstValid(p, b) /\ AfterBackup
     /\ UNCHANGED <<bak, tmp>> /\ NoFault

\* Only a valid primary is copied over the backup; CopyFile truncates its
\* target first.  Otherwise a valid backup is kept as the previous vault.
BackupOutcome(p, b) ==
  \/ /\ p \in Vaults
     /\ previous' = p /\ bak' = Damaged /\ Goto("copy")
     /\ UNCHANGED <<tmp, creating, vault, purpose>> /\ NoFault
  \/ /\ p \in Vaults
     /\ Fault /\ Return("error") /\ tmp' = Absent /\ UNCHANGED bak
  \/ /\ p \notin Vaults
     /\ previous' = FirstValid(p, b) /\ AfterBackup
     /\ UNCHANGED <<bak, tmp>> /\ NoFault

BackupPrevious ==
  /\ pc = "backup"
  /\ \E p \in Reads(primary), b \in Reads(bak) : Reading(p, b) /\ BackupOutcome(p, b)
  /\ UNCHANGED <<primary, rollback, registry>>

\* A copy that fails half way leaves no usable backup.
CopyToBackup ==
  /\ pc = "copy"
  /\ \/ /\ bak' = primary /\ AfterBackup
        /\ UNCHANGED <<tmp, previous>> /\ NoFault
     \/ /\ Fault /\ Return("error") /\ tmp' = Absent
        /\ bak' \in {Absent, Damaged}
  /\ UNCHANGED <<primary, rollback, registry, losses>>

-----------------------------------------------------------------------------
(* SynchronizeEnforcedRegistry: two values, written one after the other.    *)

Policy == IF purpose = "undo" THEN previous.enforced ELSE vault.enforced

\* previousVault's policy is written back if there is one; whatever comes of
\* it, Save then fails.
UndoPolicy ==
  IF previous # NoVault
    THEN /\ purpose' = "undo" /\ Goto("sids")
         /\ UNCHANGED <<creating, vault, previous>>
    ELSE Return("error")

RetractFailureIgnored ==  \* mutant: a refresh or a retraction that fails is "ok"
  /\ Fault
  /\ CASE purpose = "refresh" -> Return("ok") /\ UNCHANGED tmp
       [] purpose = "publish" -> UndoPolicy /\ tmp' = Absent
       [] purpose = "retract" -> SaveReturns /\ UNCHANGED tmp
       [] purpose = "undo" -> Return("error") /\ UNCHANGED tmp

RetractWithoutRestore ==  \* mutant: the previous file is not put back
  /\ Fault
  /\ CASE purpose = "refresh" -> Return("error") /\ UNCHANGED tmp
       [] purpose = "publish" -> UndoPolicy /\ tmp' = Absent
       [] purpose = "retract" -> UndoPolicy /\ UNCHANGED tmp
       [] purpose = "undo" -> Return("error") /\ UNCHANGED tmp

SyncFails ==
  /\ Fault
  /\ CASE purpose = "refresh" -> Return("error") /\ UNCHANGED tmp
       [] purpose = "publish" -> UndoPolicy /\ tmp' = Absent
       [] purpose = "retract" ->
            /\ IF previous = NoVault
                 THEN Return("error")
                 ELSE /\ Goto("restore")
                      /\ UNCHANGED <<creating, vault, previous, purpose>>
            /\ UNCHANGED tmp
       [] purpose = "undo" -> Return("error") /\ UNCHANGED tmp

WriteEnforcedSids ==
  /\ pc = "sids"
  /\ \/ /\ regSids' = Policy /\ Goto("filter")
        /\ UNCHANGED <<tmp, creating, vault, previous, purpose>> /\ NoFault
     \/ SyncFails /\ UNCHANGED regSids
  /\ UNCHANGED <<primary, bak, rollback, filterOn, losses>>

SyncSucceeds ==
  /\ NoFault
  /\ CASE purpose = "refresh" -> Return("ok")
       [] purpose = "publish" ->
            /\ Goto("move") /\ UNCHANGED <<creating, vault, previous, purpose>>
       [] purpose = "retract" -> SaveReturns
       [] purpose = "undo" -> Return("error")

WriteEnableFilter ==
  /\ pc = "filter"
  /\ \/ filterOn' = (Policy # {}) /\ SyncSucceeds /\ UNCHANGED tmp
     \/ SyncFails /\ UNCHANGED filterOn
  /\ UNCHANGED <<primary, bak, rollback, regSids, losses>>

-----------------------------------------------------------------------------
(* The replacement of the primary, and the way back.                        *)

\* A vault that enforces nobody is made durable first; only then is the
\* registry told.
ReplacePrimary ==
  /\ pc = "move"
  /\ tmp' = Absent
  /\ \/ /\ primary' = tmp /\ NoFault
        /\ IF HasEnforcedAccounts
             THEN SaveReturns
             ELSE /\ purpose' = "retract" /\ Goto("sids")
                  /\ UNCHANGED <<creating, vault, previous>>
     \/ /\ UNCHANGED primary /\ Fault
        /\ IF HasEnforcedAccounts THEN UndoPolicy ELSE Return("error")
  /\ UNCHANGED <<bak, rollback, registry, losses>>

\* restorePreviousFile: the backup is copied, then moved over the primary.
RestoreCopiesBackup ==
  /\ pc = "restore"
  /\ \/ rollback' = bak /\ Goto("rollback") /\ NoFault /\ UNCHANGED purpose
     \/ /\ rollback' \in {rollback, Damaged} /\ Fault
        /\ purpose' = "undo" /\ Goto("sids")
  /\ UNCHANGED <<primary, bak, tmp, registry, losses, creating, vault,
                 previous>>

RestoreReplacesPrimary ==
  /\ pc = "rollback"
  /\ \/ primary' = rollback /\ NoFault
     \/ UNCHANGED primary /\ Fault
  /\ rollback' = Absent
  /\ purpose' = "undo" /\ Goto("sids")
  /\ UNCHANGED <<bak, tmp, registry, losses, creating, vault, previous>>

-----------------------------------------------------------------------------

StoreStep ==
  \/ Load \/ Apply \/ SaveBegins \/ WriteProtectedFile \/ BackupPrevious
  \/ CopyToBackup \/ WriteEnforcedSids \/ WriteEnableFilter
  \/ ReplacePrimary \/ RestoreCopiesBackup \/ RestoreReplacesPrimary

RecordRpId ==
  rpId' = IF rpId = None /\ Durable' # NoVault THEN Durable'.machine ELSE rpId

Step == StoreStep /\ RecordRpId

Next ==
  \/ Step \/ Restart \/ Crash \/ Reboot \/ Damage
  \/ \E c \in Requests : Begin(c)
  \/ \E s \in Deletable : DeleteAccount(s)

Spec == Init /\ [][Next]_vars

\* The Broker thread runs, the service control manager restarts a process
\* that died, and the process does not die for ever.  Nobody has to reboot, to
\* make a request or to damage a file.
FairSpec == Spec /\ WF_vars(Step) /\ WF_vars(Restart) /\ <>[][~ Crash]_vars

-----------------------------------------------------------------------------
(* Properties.                                                              *)

FilesType == /\ primary \in Contents /\ bak \in Contents
             /\ tmp \in Contents /\ rollback \in Contents
WorldType == regSids \subseteq Sids /\ filterOn \in BOOLEAN /\ live \subseteq Sids
ControlType ==
  /\ pc \in PCs /\ call \in Calls /\ creating \in BOOLEAN
  /\ vault \in Vaults \cup {NoVault} /\ previous \in Vaults \cup {NoVault}
  /\ purpose \in Purposes /\ result \in {"none", "ok", "error"}
LimitsType == callFaults \in 0 .. MaxCallFaults /\ losses \in 0 .. MaxLosses
HistoryType == base \in Vaults \cup {NoVault} /\ acked \subseteq Sids

TypeOK == /\ FilesType /\ WorldType /\ ControlType /\ LimitsType /\ HistoryType
          /\ rpId \in Machines \cup {None}

\* While no stored bytes are lost, a durable vault that enforces anybody finds
\* the filter on: the filter policy is written before the vault that depends
\* on it and removed only after one that does not (LocalCredentialStore.cpp,
\* 383-386 and 402-405), whatever fails and wherever the process dies.
FilterCoversPolicy ==
  losses = 0 => (Enforcing(Durable) # {} => filterOn)

\* While no stored bytes are lost, an account whose enforcement the Broker has
\* confirmed stays enforced in the durable vault and in the registry that the
\* provider cross-checks, at every step of later calls for other accounts,
\* through their failures, rollbacks and crashes.
AckedPolicyHolds ==
  losses = 0 => /\ acked \subseteq Enforcing(Durable)
                /\ acked \subseteq regSids
                /\ acked # {} => filterOn

\* "An enforced SID fails closed if the ... vault ... is unavailable"
\* (security-model.md): after one loss of stored bytes, an account whose
\* enforcement was confirmed is still named in the registry, with the filter on.
EnforcedSidFailsClosed ==
  acked \subseteq regSids /\ (acked # {} => filterOn)

RegistryAgrees == /\ regSids = Enforcing(Durable)
                  /\ filterOn = (Enforcing(Durable) # {})

\* A store call that returns success has its vault on disk and that vault's
\* policy, both values of it, in the registry.
SuccessMeansPublished ==
  (losses = 0 /\ pc = "idle" /\ result = "ok") =>
     Durable = vault /\ RegistryAgrees

\* The last readable copy is never taken away: no step of the store, crash
\* included, makes a vault that Load could return unavailable, even with one of the two
\* files corrupted.
StepsKeepVaultReadable ==
  [][Durable # NoVault /\ losses' = losses => Durable' # NoVault]_vars

\* "One stable RP ID per installation" (architecture.md): after no more than one
\* loss of stored bytes, or one failing read, every vault that is ever durable
\* bears the machine id of the first, also one that is created after no vault
\* could be loaded for a while (LoadOrCreate, LocalCredentialStore.cpp 416-434).
\* The one exception is in Damage: the primary is removed while no backup can be
\* read, that is before the second save has made one, or after a crash or a
\* failed copy has torn it.  A corrupted only copy is never replaced.
RpIdStable ==
  (losses <= 1 /\ Durable # NoVault) => Durable.machine = rpId

\* What the calls of the store promise, without its files and steps: see
\* AtomicVault.
Atomic == INSTANCE AtomicVault WITH
  durable <- Durable, before <- base, outcome <- result, faults <- callFaults,
  phase <- IF pc \in {"down", "stopped", "idle"} THEN pc ELSE "busy"

\* Without losses every call is atomic: at each step the vault that Load would
\* find is the one from before the call or the one the call asks for, and an
\* error leaves the former, unless undoing one failure met another ("if
\* registry publication fails, restore both resources to the previous enforcing
\* state", LocalCredentialStore.cpp:403).
CallsAreAtomic == Atomic!Spec

\* A service that dies in the middle of a call serves requests again: the files
\* that it left can be loaded and its startup refresh succeeds, unless an access
\* of that refresh fails or stored bytes have been lost.
CrashedServiceReturns ==
  (pc = "down") ~> \/ pc = "idle"
                   \/ pc = "stopped" /\ (callFaults > 0 \/ losses > 0)

\* "Restart the Broker after service failure" (Changelog.md): a service whose
\* startup refresh failed serves again.
StoppedServiceReturns == (pc = "stopped") ~> (pc = "idle")

=============================================================================
