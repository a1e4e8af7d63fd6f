# Windows FIDO Logon in TLA+

Windows FIDO Logon adds a FIDO2 security key to the password sign-in of local
Windows accounts. The decisions it takes (who needs a key, whether a key was
shown, which password reaches LSA) are spread over a service, a credential
provider loaded into LogonUI, a filter and a configuration program, and over
three files and two registry values that these read at any time. This directory
models those parts in TLA+, checks them with TLC and proves some of the results
with TLAPS. Paths below are relative to the repository.

## 1. The system

| component | code | state | operations | hard because |
|---|---|---|---|---|
| credential store | `src/CppClient/CppClient/LocalCredentialStore.cpp` | `credentials.dat`, `.bak`, `.tmp`, `.rollback`; registry `EnforcedSids`, `enable_filter` | Load, Save, LoadOrCreate, RefreshLocalAccounts, UpsertAccount, RemoveCredential, SetEnforced | no transaction spans the files and the registry; any access fails; the process dies anywhere; others read in between |
| Broker requests | `src/BrokerService/BrokerService.cpp` (`Handle`) | the session table, the store | status, begin/finish auth, test, registration, removal, password removal, enforcement | two-request ceremonies of several callers interleave, expire, are repeated or abandoned |
| Broker pipe and client | `BrokerService.cpp` (`Run`), `BrokerClient.cpp`, `BrokerPipeIo.h` | one pipe instance, one connection | connect, read, write, acknowledge, deadlines on both sides | a client gives up while the Broker commits |
| service lifecycle | `src/BrokerService/main.cpp`, `WiXSetup/Product.wxs` | service status, stop event | start, stop, fail, restart | control handler and service run on two threads |
| sign-in tile | `src/CredentialProvider/core/CCredential.cpp` | mode, secrets, challenge, device, `_mfaComplete`, `_passwordChangeAuthorized` | the calls of LogonUI on a tile | LogonUI picks the order, cancels anywhere, reports results late; accounts and policy move during Connect |
| provider | `core/CProvider.cpp` | list of tiles, user array | SetUsageScenario, SetUserArray, enumeration | old tiles are still called; an enumeration fails half way |
| provider filter | `CredentialProviderFilter/`, `CredentialProviderFilters.h` | none (reads `enable_filter`) | Filter | other filters in the chain, on one shared array |
| FIDO verification | `FidoVerifier.cpp` | none | attestation and assertion checks, COSE keys | boundary values, counters, what is accepted at enrolment but not at sign-in |
| FIDO devices | `FIDODevice.cpp` | open keys | enumeration, SelectByTouch, Sign, Register | several keys, touched, failing, cancelled |
| Manager | `src/Manager/main.cpp` | last status, one worker | add, test, remove, policy, refresh | worker and UI thread wait for each other; stale status |
| accounts, registry | `LocalAccount.cpp`, `RegistryReader.cpp` | none (SAM, registry) | resolve, validate password | |
| encodings | `Convert.cpp`, `helpers.cpp` | none | base64url, Kerberos packing | canonical form, 16-bit lengths |
| localization, logging, installer, tests | | | | no decision depends on them |

How they interact. The Manager and every tile send the Broker one request at a
time over a named pipe; the Broker serves one connection at a time on one thread,
so requests are serial and the two halves of a ceremony are what interleaves. The
Broker alone writes the store. The provider reads `EnforcedSids` and the filter
reads `enable_filter` straight from the registry, between any two steps of a
store call. Accounts are renamed and deleted, and keys move from hand to hand,
without the system being told.

What makes each part correct:

- store: nothing enforced without the filter, nothing confirmed is forgotten, a
  call happens or does not, one loss does not change the RP ID unless it removes
  the primary when there is no readable backup, success means published;
- Broker: a session grants once, at the first attempt, to its opener (or to
  LocalSystem), for the account it was opened for and a key that account has now;
  an enforced account keeps a key; a key has one account; counters advance; limits
  hold;
- tile: nothing reaches Windows that was not approved, for this user name, with
  nothing voiding it since; a tile put away keeps nothing; a PIN is short-lived;
- provider and filter: retired tiles are inert, no partial list, the filter only
  takes away, and only while switched on; nobody is left out but by a session
  that is taken over between two looks at it;
- pipe and lifecycle: no request is half served, a silent client holds the pipe
  for a bounded time, the stop is heard, and a service that served reports STOPPED
  last (one whose startup failed may report STOP_PENDING after it);
- Manager: at most one worker, no call on a window that is gone, no deadlock;
- touch selection: the winner was touched, every other key is cancelled unless a
  call on it has failed, it ends;
- encodings: one text per byte string, lengths never wrap.

`PROJECT.json` lists the hazards one by one, each at its line, with the property
that would catch it or the reason why none does yet.

## 2. The modules

| module | of | what it is |
|---|---|---|
| `Vault` | `LocalFidoTypes.h`, `IsVaultValid` | vaults, calls on them, `Keep` |
| `CredentialStore` | `LocalCredentialStore.cpp` | one step per access to a file or the registry |
| `AtomicVault` | | what a call of the store promises; `CredentialStore` implements it |
| `Broker` | `BrokerService.cpp` (`Handle`) | one action per successful request; the store as atomic |
| `Convert`, `FidoVerifier` | `Convert.cpp`, `FidoVerifier.cpp` | base64url, and every check of an assertion, a registration and a COSE key |
| `Verification` | `FIDODevice.cpp` (Sign, Register) | `Broker` with `FidoVerifier`: what keys can make, put to the verifier |
| `RemoteCall` | | what a call of the Broker promises its caller |
| `BrokerPipe` | `BrokerService.cpp` (`Run`), service `main.cpp`, `BrokerClient.cpp`, `BrokerPipeIo.h` | main thread, control handler and clients; implements `RemoteCall` |
| `Credential` | `CCredential.cpp` | one tile; Connect split at its blocking calls |
| `TouchSelection` | `FIDODevice.cpp` (`SelectByTouch`) | opening, polling and cancelling several keys |
| `Packing` | `helpers.cpp` | the packed buffers for LSA |
| `SignIn` | | `Credential` with `TouchSelection` and `Packing` |
| `LocalAccounts` | `LocalAccount.cpp` | which account a typed name means |
| `Provider` | `CProvider.cpp` | the list of tiles, as LogonUI sees it |
| `LogonUi` | `CCredentialProviderFilter.cpp` | `Provider` with this filter and another one |
| `ManagerUi` | `Manager/main.cpp` | window, worker, dialogs, and others who change the account |
| `...Proofs` | | inductive invariants and theorems of `CredentialStore`, `Broker`, `Credential`, `BrokerPipe`, `LogonUi`, `SignIn`, `Verification`, `ManagerUi` |
| `MC...` | | TLC instances |

### CredentialStore, AtomicVault

`pc` is the place in the call that runs: `load` (Load, LoadOrCreate), `apply`
(the change of the operation), `save`, `write`, `backup`, `copy` (the first half
of Save: protected temporary file, copy of the old primary to `.bak`), `sids`,
`filter` (SynchronizeEnforcedRegistry, whose `purpose` says who called it),
`move` (the replacement), `restore`, `rollback` (restorePreviousFile). `vault` and
`previous` are Save's locals. A file is a vault, `Absent` or `Damaged`; truncating
or half writing makes it `Damaged`. Every access can fail (`callFaults`), the
process can die between any two (`Crash`), bytes at rest can be lost (`Damage`, or
a read that fails once; `losses`), accounts are deleted (`DeleteAccount`). `base`,
`acked` and `rpId` are history: the durable vault when the call began, the accounts
whose enforcement the Broker has confirmed and not been asked to lift, and the
machine id of the first vault. `rpId` starts anew in one case, the one in which
the code cannot know that there was a vault: a loss removes the primary (`Absent`,
not `Damaged`) while no backup can be read, because the second save has not made
one yet, or a crash or a failed copy has torn it. LoadOrCreate then makes a new
vault, and the keys enrolled for the old RP ID are orphaned.

`AtomicVault` says what the Broker may rely on: a call changes the durable vault
in one step, exactly as it asks, or not at all, and a call that reports an error
has changed nothing unless a second access failed while the first failure was
being undone (`faults`). The refinement maps the durable vault to what a Load
would return now.

Left out: user names, public keys, labels and counters (no decision of the store
reads them); encryption (a blob that does not decrypt is `Damaged`); the loss of
registry writes in a power failure (they are not flushed, see the hazards). A
copy over an existing hidden backup is taken to behave as any copy.

### Broker

State: `vault` and `signCount` (the store between requests), `sessions` (by
number; ids are random and never repeat, so `issued` stands for both the id and
its challenge), `horizon` (sessions up to it are older than 120 seconds), `live`
(the SAM), `device` and `signed` (the counters inside the keys and every assertion
ever made: anyone may present any of them at any time). `proven`, `trials` and
`last` are history. An action is a request that comes through, with everything it
does: the refresh `Handle` starts with, the purge of expired sessions, the
consumption before validation, the two store calls of finish_remove. Requests
that fail are `Refused` (before a session is taken), `Wasted` (after) and
`FinishRemoveHalfDone` (between the two store calls). A request is one step because
the Broker is one thread on one pipe instance, and the store is atomic because
`CallsAreAlwaysAtomic` says so; `RequestsUseTheStore` is the other side of that
interface: a request changes the vault only as calls of the store promise to. A refresh that fails changes nothing and ends
the request, a stuttering step. begin_auth's check of the registry is not a
guard here: after a refresh that succeeded, the registry is the vault's policy
(`SuccessMeansPublished`). Other filters being installed only ever refuses. A
registration that is committed after its account was deleted records the
account again, until the next refresh; the model keeps that.

### FidoVerifier, Convert, Verification

`FidoVerifier` translates the checks of VerifyAssertion and VerifyRegistration one
by one, on records in place of JSON and authenticator data. A COSE key is the
sequence of pairs the CBOR reader yields, integers with their sign, and a
cast to `int` wraps (`IntSpan`). A signature is who made it and what it covers:
nobody makes one but a key, and keys sign for whoever asks. `Convert` has the two
directions of base64url on sequences of 6-bit values. `Verification` puts every
response the keys of `Broker` can make (`Asked`), and each of these with one thing
wrong (`Others`), to the verifier in each state of the Broker, with every way a
key may write down its public key at enrolment. `Broker` itself keeps the short
form `Verified`, which `VerifierIsExact` justifies. `VerificationAssumption` is that
different keys make different credential ids, and that ids are not empty (an empty
one is refused at registration).

### RemoteCall, BrokerPipe

Three kinds of threads. The service's main thread (`pc`): ServiceMain, Run's
startup, then the loop of connect, read, process, write, wait for the
acknowledgement, disconnect. The dispatcher thread (`handler`): ControlHandler
reports STOP_PENDING, sets the event and connects to the pipe to wake the main
thread. The clients, each at its own place of BrokerClient::Call (`cpc`). A
deadline may pass at any moment of the wait it limits; any system call may fail;
a client or the service may die anywhere and the service may be started again.
What arrives together with a deadline or the stop event is lost, as in
AwaitOverlapped. An unread reply is discarded when the server disconnects.

`RemoteCall` is the abstract specification: a call is handled at most once; it
reports success only if this very request was handled and accepted; after a
failure the caller knows nothing, and the request may even be handled later,
though never after a later call of the same caller.

### Credential, TouchSelection, Packing, SignIn

`pc` of `Credential` is the blocking call Connect is in: `ask`
(BeginAuthentication), `answered` (its answer is there; IsSidEnforced, or
enumeration and selection, follow), `sign`, `finish` (FinishAuthentication). All
other calls are one step. `held` says which secrets are typed in, `challenge` is
the account of the pending challenge, `approved` and `expired` record what the
last ceremony vouches for and are voided by every reset. The world (`owner`, the
SAM by user name, and `enforced`) changes at any step. LogonUI calls in any
order it can: Connect only for the selected tile, typing not while Connect or a
submission is under way, results at any time, selection and retirement at any
time outside Connect. Names are resolved as in `LocalAccounts`.

`TouchSelection` opens the keys one by one, begins a touch on each, and polls them
in turn, several rounds within the time limit; the user touches a key, a key
fails or is unplugged, between any two calls. `SignIn` replaces the abstract
choice of a key in `Credential` by those steps, and packs the password change as
`Packing` describes, where a field nobody writes has whatever the memory held.
`SignIn` implements `Credential` (`ImplementsTile`): what holds of the tile holds
of the composition.

`Packing` computes sizes and offsets of the logon and the password change buffer
over the lengths of the strings; a length that does not fit 16 bits is refused.

IsSidEnforced answers "not enforced" also when it cannot read the registry
(`PublishedAsEnforced`). Connect relies on it only after the Broker has answered the
same; but that answer can be old by then. `OpenSignInIsCurrent` says what is
left of "must never become password-only authentication" (the comment in Connect):
an account is let through without a key only if it was not enforced at some
moment of that Connect, and, with a readable registry, is not at the moment of
the reading. An account for which MFA is enabled after the Broker's answer, while
the registry cannot be read, is let through; the model has these steps.

A key that is given up because one of its calls failed is not cancelled
(FIDODevice.cpp:159-163, 183-188) and may go on waiting for a touch when the
selection is over: `lit` keeps it, also a key whose fido_dev_get_touch_begin
failed after the request was sent. `doc/test-plan.md` asks that cancelling or
timing out cancels every pending request; `HealthyKeysGoDark` says it of the keys
whose calls all succeeded, which is what the code does.

Assumptions: calls on one tile are serial (the class is registered with
ThreadingModel Apartment); the two new passwords are equal or as good as missing; the field strings kept for
LogonUI are cleared with the secrets they show. `_selectedDevice` is always set
when a challenge is pending, so Connect's check of it never fires; `TypeOK` says so.

### Provider, LogonUi

`Provider` makes the list of tiles entry by entry (`index`, `building`), so that
accounts come and go, and calls fail, in the middle of it. `tiles` is what was
published, `ready` that it is complete. A user array or a scenario that is
replaced retires the tiles (`retired`), but LogonUI may keep references and go on
typing into them and submitting them. `always` and `ever` are history: the users
that were there during the whole, and at some moment of, the making of the list.
`LogonUi` adds the filters: they share the array `allowed`, are asked in either
order, read a registry value that changes or cannot be read, and the session may
be taken over from remote in between. That last case is a weakness of the code:
when the filter has looked at a local session and the provider is made in a remote
one, the filter leaves in the one provider that shows nothing.
`NobodyOnlyAfterTakeover` says that there is no other way to leave out everybody.

### ManagerUi

An operation of the worker is the sequence of its steps (`Program`, the rest of it
`todo`): Broker calls and the security key are the worker's own, everything shown
is a call to the window's thread (`call`, `answer`), for which the worker waits in
SendMessage. The window's thread takes clicks, selections, WM_CLOSE and the
posted messages, runs one dialog at a time and joins the worker when it is done.
A Broker call that fails may have been carried out. Another manager changes the
account, and a filter is installed or removed, at any moment (`Elsewhere`).
`clicked`, `confirmed` and `last` are history: the key shown in the row that was
clicked, the consents the user gave in this operation, the change made with what
held of the account at that moment (another filter, a single key, keys other than
those the manager read). The Broker looks at the filters again when it enables
MFA, so that warning cannot be missed; it does not count the keys again, so that
enabling after somebody else removed the second key needs no warning.
`ChangesAreConfirmed` says both.

## 3. Runs

| run | bounds | shows |
|---|---|---|
| `store_policy` | two accounts with a key each, two failing accesses per call, any number of calls and crashes | the policy holds at every step: filter before vault, confirmed stays confirmed, success is published; calls are atomic |
| `store_losses` | one account, two machine ids, one failing access, two losses | the last readable copy is never taken away; the RP ID is kept through one loss (but the one named above); liveness: a crashed service is back, or has stopped itself because an access failed or bytes were lost |
| `store_stale_backup` | one account, no failing access, one loss | finding 1 |
| `store_stopped` | one account, one failing access | finding 2 |
| `broker_owners` | two accounts sharing one key, three sessions issued, two open, one per caller, counters up to 2 | who may change and sign in to an account, from which caller, single use, genuineness, session limits, counters |
| `broker_removals` | one account, two keys (one never counts), three sessions issued, two open; every response the keys can make, every spelling of a short id, the COSE keys of `MCVerification` | an enforced account keeps a key; the verifier accepts what it should and nothing else |
| `pipe_calls` | two clients, one of which calls twice, two starts of the service | calls are as in `RemoteCall`; answers are read; a stop is reported, signalled and carried out in order unless Run returned early; liveness: the pipe is freed and a stop is carried out |
| `sign_in` | a named and an anonymous tile, two accounts, names typed in several ways, two states of the SAM, two keys | approval before submission, no key only where none is asked for, reset, PIN, touch, buffers; liveness: Connect returns |
| `credential_stale` | the same | finding 3 |
| `packed_change` | the same | finding 4 |
| `logonui` | one account beside the empty SID, two user arrays, two lists made, this filter and another, one other provider | lists are complete or absent, old tiles are dead, the filter only denies |
| `manager_window` | two keys, one change by others | what is changed is what was clicked and confirmed; the window outlives its worker; liveness: a window told to close goes |

Why the bounds are enough. Two accounts are needed for "another account's" policy,
key or session, and a third adds no new relation between two of them. A call of
the store touches one account, and what it does depends on whether the vault
enforces somebody before and after it, which two accounts cover. Two failures in
one call are the failure and a failing recovery, and every path of Save ends
after those. `MaxSessions` 2 with three sessions issued reaches a full table, a
purge and a refusal, and two removals at the same time with a third session that
outlives them. Counters up to 2 are enough for equal, smaller and greater, with
0 apart. In the tile, "a" and ".\a" test that a name that is rewritten by
resolution counts as another name only when typed, and the second state of the
SAM gives a tile's name to another SID.

`IntSpan` is 16 where an `int` has 2^32 values: the COSE constants are 1, 2, 3, -1,
-2, -3 and -7, and values beyond the span wrap in the same way. `UShortMax` is 7
where a length field holds 65535: the strings are small enough to fit, just fit, or
do not fit, alone and together with the structure. `MaxDevices` is 2 (the code
takes up to 32): one key that is touched and one that is not. A second call of
one client meets the leftovers of its first, beside another client's call; a
second start meets clients of the first. Two lists are one and its replacement.
One change from elsewhere can fall between any two steps of an operation, and
two keys are the fewest for which the row can mean another key.

Symmetry: `broker_owners` permutes the accounts, which neither the Broker nor a
property tells apart. It checks no liveness.

Deadlock is checked in every run but two. In `pipe_calls` the clients have used up
their calls and the service its starts; in `manager_window` a destroyed window
does nothing more. Both are ends of a run of the real system too.

Fairness, and why the code justifies it:

- `store_losses`, `store_stopped`: weak fairness of the Broker's own steps (one
  running thread), of Restart (the recovery actions of the service, `Product.wxs`),
  and an end to crashes. Nobody has to reboot, send a request or damage a file,
  so nothing is promised for a service that has stopped itself.
- `pipe_calls`: weak fairness of the service's main thread and of its control
  handler, each a running thread all of whose waits have deadlines or an event.
  No client has to do anything, which is what `PipeIsFreed` is about.
- `sign_in`: weak fairness of Connect's own steps (each waits for the Broker, or
  for a key, with a time limit) and of the clock. Nobody has to touch a key.
- `manager_window`: weak fairness of the window's thread and of the worker, and a
  user who answers a dialog that is open: `CloseEnds` promises nothing while the
  user leaves a question unanswered.

Several earlier questions share a run now, where one instance is large enough for
both. Type invariants are conjuncts of the inductive invariants that are proved.

## 4. Findings

1. `store_stale_backup`: Load uses the backup for an unreadable primary, and the
   backup is the vault from before the last save. If that save enabled
   enforcement, the next refresh publishes "nobody is enforced": the account fails
   open, where `doc/security-model.md` promises that it fails closed.
2. `store_stopped`: a startup refresh that fails ends Run with a clean stop,
   which the recovery actions do not restart, where the changelog says the Broker
   is restarted after failure.
3. `credential_stale`: Connect does not clear `_mfaComplete`. When the sign-in
   it was set for was not packed, a second Connect that only asks for the PIN is
   followed by a packed logon, where `doc/architecture.md` says "only after
   success".
4. `packed_change`: KerbChangePasswordPack copies every field of the request but
   `Impersonating` into memory it has not cleared. PackPasswordChange sets the
   field to FALSE; the buffer handed to LSA has whatever was there before.

## 5. Proofs

Each proof module EXTENDS the module it is about, defines its inductive invariant,
has a lemma per action, and ends with the theorems. They hold for every value of
the constants that satisfies the assumptions named in the modules (special values
differ from ordinary ones, bounds and lengths are naturals, a resolved name
resolves to itself and to the same account, a user array has entries of the right
type, ids of different keys differ).

**CredentialStoreProofs**, for any number of failing accesses, crashes and losses:
`TypeCorrect`, `Inductive`, and the other invariants of `store_policy` as
`FilterAlwaysCoversPolicy`, `AckedPolicyAlwaysHolds`, `SuccessAlwaysMeansPublished`.
`IInv` is `TypeOK /\ ControlInv /\ (losses = 0 => FilesInv /\ PolicyInv)`. None of
the three invariants is inductive: what is in the registry at a step is right
because of what the rest of the call will do. `ControlInv` says which purposes go
with which steps, that a vault which is being created enforces nobody, and that
a call that lifts an account's enforcement has taken its promise back. `FilesInv`
says what the earlier steps of Save left for the later ones: the temporary file
and the backup are the vault and the previous vault until the replacement, the
primary is the new vault from then on, and in the undoing that follows a failed
publication or restoration the durable vault is the previous one or enforces
nobody. `PolicyInv` relates the registry to those vaults: on every path
that still leads to an enforcing vault the filter is on, `regSids` is between the
confirmed accounts and the vault to come, and both values are one vault's when a
call has returned success. The proof has one lemma per action and per half of the
invariant (`...TInv`, `...SInv`); the lemmas about Return, SyncFails, UndoPolicy
and SaveReturns are shared by the actions that end in them. These three theorems
stop at the first loss of stored bytes, as finding 1 shows they must.

Two others need an invariant that survives losses. `KeptInv` (`FilesAreKept`) says
that at each step of Save and of its undoing the file the step is about to copy or
move is intact, however many bytes were lost before; with it no step but a loss
takes away the last vault a Load could return (`VaultStaysReadable`).
`MachineInv` adds that with at most one loss the two files and the vault in hand
are of one installation. `RpIdInv` adds that this is the installation of the first
vault ever durable, also across a time in which no vault could be loaded, since
LoadOrCreate makes a new one only for a missing primary, not for a corrupted one:
`RpIdAlwaysStable`.

`CallsAreAlwaysAtomic` is the refinement of `AtomicVault`, under `[]NothingLost`:
a step that changes what a Load would return is the one durable step of its call,
and every other step stutters. `BaseInv` of `AtomInv` says of each step of a call
whether the durable vault is still the one from before it (or, on the way back,
what one more failure can make of it), `EffectInv` that the vault in hand is the
one the call asks for. `NothingLost` is needed since a loss changes the durable
vault between two calls; `store_policy`, which checks the refinement, allows no
losses.

**BrokerProofs**, for any number of sessions: `TypeCorrect`, `Inductive`,
`SessionsAreLimited`, `EnforcedAlwaysHasKey`, `KeysHaveOneOwner`,
`SessionsAreTriedOnce`, and the action properties `GrantsAlwaysGenuine`,
`OnlyOwnersChangeAccounts`, `CountersAlwaysAdvance`, `RequestsUseTheStore`. `IInv` collects a vault that is
`Sound` (enforced accounts have a record and a key, keys belong to accounts with a
record and to one only), the types, `Untried` (an open session has been given out
and never presented: what makes `OneTrial` inductive), `Proven` (a session that may
change an account was opened with its password) and the limits. `Sound` is kept
because removal and enforcement are checked against the vault as it is at that
moment, and the limits because at most one session is added to a table that was
strictly below both. The action properties follow from `IInv` and the step.
`RequestsUseTheStore` instantiates `AtomicVault` with the Broker's vault: each
request is a refresh and at most one more call, with exactly the effects that
`CallsAreAlwaysAtomic` proves of the store's steps.

**VerificationProofs**: `Base64URLIsStrict` (decoding and encoding are inverse to each
other on accepted texts, for byte sequences and texts of any length, so no second
text decodes to the same bytes) and by it `IdsAlwaysHaveOneSpelling`. Nothing here is
an induction: a text and its bytes correspond digit by digit, three bytes to four
digits, and the place where the padding starts is the least number from which on
everything is padding (the well-foundedness of the naturals).
`OnlyTheKeyIsAccepted` is about any response, not only those in `Others`: what is
accepted for a key's record has the key's id and a signature by that key over
this challenge, origin and RP ID, with the user present and verified and a newer
counter. `VerifierAlwaysExact` adds the other half, that what the keys can make for
the purpose is accepted, in every state of the Broker and for every spelling of
the COSE integers; its invariant is `IInv` of `BrokerProofs`.

**BrokerPipeProofs**, for any clients, calls and starts: `TypeCorrect`, `Inductive`,
`StopAlwaysOrderly`, `AnswersAlwaysRead`, and `CallsAreAlwaysServed`, the refinement
`Spec => RemoteCall`: every step of the threads is a step of a call, or a stutter.
The invariant has four parts. `EventInv` says what the two service threads know of
each other: as long as the handler may still report or signal, the event is open
and the status pending, unless Run has returned early. That exception is real: after
an early return STOP_PENDING can be reported after STOPPED, and a closed event set
(`early` in `StopIsOrderly`). `PipeInv` says who may be connected at which step of the
main thread, and what is in the pipe then. `FlightInv` follows a
request: the one the server holds is its connected client's present or earlier
call, and is handled at one step only. `ClientInv` says what a client at each of its
steps has written and may have received; a reply it holds is the reply to its
present call. The last two are what makes "handled at most once" and "success means
this one" survive a client that gives up, dies and calls again.

**CredentialProofs**, for any names, accounts and tiles: `TypeCorrect`, `Inductive`,
`PutAwayAlwaysHoldsNothing`, `PinIsShortLived`, and the action properties
`LogonsAreApproved`, `ChangesAreApproved`, `OpenSignInsAreCurrent`. `ControlInv` says
what Connect has resolved and checked by each of its blocking calls; `FlagsInv`
what the flags mean: `_mfaComplete` that the present user name, already in its
resolved form, was approved; `_passwordChangeAuthorized`, in the password change
mode and only there, that an approved sign-in of this name met an expired
password. `AnswerInv` says that the Broker's "no key" was true at some moment of this
Connect. (A failed change leaves the second flag set with the mode left, so
the flag alone means nothing.) `NamesAreAccounts` discharges the assumption on
names: `LocalAccounts`, for any users, typed names and SAM, has the two properties of
resolution that `CredentialAssumption` asks for.

**SignInProofs**, for any number of keys: `TouchInductive` (`TouchInv`: which keys are
open and asked at each stage of the selection, and that a chosen one was touched),
`HealthyKeysAlwaysGoDark`, `WinnersWereTouched`, the refinement `ImplementsTile` (`SignInSpec`
implies `Spec` of the tile) and, by it, `SignInTypeCorrect` and `TileKeepsItsPromises`:
all invariants and action properties of the tile, for the composition.
`LogonsAreTight`, `ChangesAreTight` and by them `BuffersAlwaysTight`: for strings of any
length, what is accepted fits 16 bits, and the strings follow the structure without
gap or overlap.

**LogonUiProofs**, for any users, arrays, providers and number of lists:
`TypeCorrect`, `Inductive`, `ListsAreComplete`, `SubmittedAlwaysCurrent`,
`ReplacedTilesAlwaysHoldNothing`, `FilterAlwaysOnlyDenies`, `NobodyLeftMeansTakeover`.
`ListInv` says of the list being made that it is faithful to the entries read so
far, neither more nor less; `TileInv` that a tile LogonUI still has is in the
published list or retired; `FilterInv` what the filters already asked have made of
the array.

**ManagerUiProofs**, for any keys and changes by others: `TypeCorrect`, `Inductive`,
`AlwaysRemovesTheKeyClicked`, `ChangesAreAlwaysConfirmed`,
`WorkerAlwaysHasItsWindow`, `ClosingNeverAsks`. `ThreadInv` says where each thread is;
`CallInv` that the call and its answer belong to the next step of the program;
`PasswordInv`, `RowInv` and `OneKeyInv` what precedes a change in what is left of the
program: a password that is still to be asked for or was entered, no reading of
the status between the row and its removal, a warning about the only key after
the last reading of the status. One lemma (`OneStepLess`) shows that taking a step
keeps them, so that each kind of step need only say which one it is.

Only model-checked: the liveness properties `CrashedServiceReturns`, `PipeIsFreed`,
`StopsWhenAsked`, `ConnectReturns` and `CloseEnds`, which are out of the prover's reach.
Every invariant, every action property and every refinement of a passing run is a
theorem; the properties of the runs that find a violation are false.

## 6. Plan

Done: the store, the Broker, its pipe and service, the verifier, the tile with
touch selection and packing, the provider with the filter, the Manager; each with
proofs, and the interface of store and Broker proved from both sides.

What is left, in this order:

1. A composition of tile, Broker and policy whose abstract specification is "an
   enforced account signs in only with one of its keys". The parts meet today in
   their interfaces: `Credential` takes the Broker's answers from any state of
   the policy, `Broker` any order of requests.
2. The flush of registry writes (a hazard without a property).

## 7. Not modelled

- Cryptography (signatures, attestation, DPAPI) is taken to work.
- The byte cursors of the CBOR reader and the parsing of JSON and authenticator
  data: a record that parses is given, and one that does not is `Unparsed`.
- `FIDODevice` beyond selection, Sign and Register: it sets parameters of libfido2
  and keeps no state over a call. `SetPin` only notes that the key now has one.
- The helpers of `helpers.cpp` that nothing calls (unpacking and repacking,
  credential protection), and the conversions between UTF-8 and UTF-16.
- The wrappers of SAM, LSA and the registry that return what Windows says: their
  answers are inputs of the modules that use them.
- Painting, layout, texts, localization and logging: no decision depends on them.
- The installer and the scripts, but for the recovery settings of the service. The
  vendored JSON library is used as documented.

## 8. Running

    tlc -workers 2 -config store_policy.cfg MCCredentialStore.tla
    tlapm BrokerProofs.tla

`PROJECT.json` says which configuration belongs to which module, which mutation of
the model each property catches, and which lines each definition stands for. It
lists the hazards of the code with the properties about each; two have none: the
unflushed registry writes, and a ConnectNamedPipe that keeps failing because
nothing calls DisconnectNamedPipe for a client that came and went (`Connect` of
`BrokerPipe` has the step; whether the loop ends is up to the system call).
