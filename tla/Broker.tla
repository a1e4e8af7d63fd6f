-------------------------------- MODULE Broker --------------------------------
(***************************************************************************)
(* The requests of the Broker: BrokerService.cpp.                          *)
(*                                                                         *)
(* The Broker has one thread and one pipe instance, so a request is served *)
(* from its refresh of the local accounts to its answer before the next    *)
(* one: a request is one step here.  What interleaves is the ceremonies,   *)
(* each made of two requests with a session in between: other requests,    *)
(* expiry, account deletion, a restart of the Broker and late, repeated or *)
(* misdirected second halves come between the two.                         *)
(*                                                                         *)
(* The store is taken at its word (AtomicVault): a call changes the vault  *)
(* as asked, or fails and leaves it.                                       *)
(***************************************************************************)
EXTENDS Vault

CONSTANTS System,                \* the caller LocalSystem: LogonUI's provider
          Administrators,        \* callers with an elevated administrator token
          MaxSessions,           \* 256, kMaximumSessions
          MaxSessionsPerCaller,  \* 32, kMaximumSessionsPerCaller
          Countless,             \* keys that always report counter 0
          MaxIssued,             \* bound: sessions opened in a behaviour
          MaxCount               \* bound: signatures made by one key

Callers == Sids \cup {System}
\* Session ids and challenges are random and never repeat: their number stands
\* for both.
Ids == 1 .. MaxIssued
Kinds == {"authentication", "registration", "removal"}
NoSession == [kind |-> "none", caller |-> None, target |-> None, key |-> None]
Session == [kind : Kinds, caller : Callers, target : Sids, key : Keys \cup {None}]

\* What a security key signs: the challenge and its own counter.
Assertions == [key : Keys, challenge : Ids, count : 0 .. MaxCount]

ASSUME BrokerAssumption ==
  /\ System \notin Sids /\ System # None /\ Administrators \subseteq Callers
  /\ MaxSessions \in Nat /\ MaxSessionsPerCaller \in Nat
  /\ MaxIssued \in Nat /\ MaxCount \in Nat /\ Countless \subseteq Keys

VARIABLES
  vault, signCount,   \* what the store holds; a counter for each credential
  live,               \* SIDs the local SAM resolves
  sessions, issued,   \* open sessions by id; ids given out so far
  horizon,            \* the sessions up to this id are older than 120 s
  device, signed,     \* counters inside the keys; assertions ever made
  proven,             \* history: sessions whose opener typed the password
  trials,             \* history: what became of the first use of each id
  last                \* history: what the last request was granted, and why

world == <<live, horizon, device, signed>>
vars == <<vault, signCount, sessions, issued, world, proven, trials, last>>

\* caller and proof: who changed something with whose Windows password; id and
\* key: the session and the security key that vouched for it.
Nothing == [caller |-> None, proof |-> None, id |-> 0, key |-> None]

Init ==
  /\ \E m \in Machines : vault = EmptyVault(m)
  /\ signCount = [p \in Sids \X Keys |-> 0]
  /\ live = Sids
  /\ sessions = [i \in Ids |-> NoSession] /\ issued = 0 /\ horizon = 0
  /\ device = [k \in Keys |-> 0] /\ signed = {}
  /\ proven = {} /\ trials = [i \in Ids |-> "none"] /\ last = Nothing

-----------------------------------------------------------------------------
(* The world around the Broker.                                             *)

\* A user touches a key for a challenge, which may be stale by then.
Sign(k, id) ==
  /\ id <= issued /\ device[k] < MaxCount
  /\ device' = [device EXCEPT ![k] = IF k \in Countless THEN 0 ELSE @ + 1]
  /\ signed' = signed \cup {[key |-> k, challenge |-> id, count |-> device'[k]]}
  /\ last' = Nothing
  /\ UNCHANGED <<vault, signCount, live, sessions, issued, horizon, proven, trials>>

\* 120 seconds pass for the oldest session.
Expire ==
  /\ horizon < issued /\ horizon' = horizon + 1
  /\ last' = Nothing
  /\ UNCHANGED <<vault, signCount, live, sessions, issued, device, signed, proven,
                 trials>>

DeleteAccount(s) ==
  /\ s \in live /\ live' = live \ {s}
  /\ last' = Nothing
  /\ UNCHANGED <<vault, signCount, sessions, issued, horizon, device, signed,
                 proven, trials>>

-----------------------------------------------------------------------------
(* Parts of requests.                                                       *)

\* Handle begins with RefreshLocalAccounts.
Refreshed == Keep(vault, live)

\* The vault of the store after a request: counters go with their credentials.
Store(v, counts) ==
  /\ vault' = v
  /\ signCount' = [p \in Sids \X Keys |-> IF p \in v.keys THEN counts[p] ELSE 0]

\* A request whose check or store call fails, and one that only reports.
\* Handlers fail by an exception, which ProcessRequest answers: the actions
\* below are the requests that come through.
Refused ==
  /\ Store(Refreshed, signCount)
  /\ last' = Nothing
  /\ UNCHANGED <<sessions, issued, world, proven, trials>>

\* The service starts again: sessions were in memory.
Restart ==
  /\ Store(Refreshed, signCount)
  /\ sessions' = [i \in Ids |-> NoSession]
  /\ last' = Nothing
  /\ UNCHANGED <<issued, world, proven, trials>>

Expired(id) == id <= horizon
Purged == [i \in Ids |-> IF Expired(i) THEN NoSession ELSE sessions[i]]
OpenIn(table) == {i \in Ids : table[i] # NoSession}
OfCaller(table, c) == {i \in OpenIn(table) : table[i].caller = c}

CountedTooLate(kind, c, s, k, proof) ==  \* mutant: the table is checked with >
  /\ Store(Refreshed, signCount) /\ issued < MaxIssued
  /\ Cardinality(OpenIn(Purged)) <= MaxSessions
  /\ Cardinality(OfCaller(Purged, c)) <= MaxSessionsPerCaller
  /\ issued' = issued + 1
  /\ sessions' = [Purged EXCEPT ![issued + 1] =
       [kind |-> kind, caller |-> c, target |-> s, key |-> k]]
  /\ last' = Nothing
  /\ UNCHANGED <<world, trials, proven>>

\* Expired sessions make room first; a full table is refused.
PutSession(kind, c, s, k, proof) ==
  /\ Store(Refreshed, signCount)
  /\ IF \/ Cardinality(OpenIn(Purged)) >= MaxSessions
        \/ Cardinality(OfCaller(Purged, c)) >= MaxSessionsPerCaller
       THEN sessions' = Purged /\ UNCHANGED <<issued, proven>>
       ELSE /\ issued < MaxIssued
            /\ issued' = issued + 1
            /\ sessions' = [Purged EXCEPT ![issued + 1] =
                 [kind |-> kind, caller |-> c, target |-> s, key |-> k]]
            /\ proven' = IF proof = s /\ c = s THEN proven \cup {issued + 1}
                                               ELSE proven
  /\ last' = Nothing
  /\ UNCHANGED <<world, trials>>

CallerUnchecked(id, c, kind) ==  \* mutant: whoever presents a session may use it
  sessions[id] # NoSession /\ ~ Expired(id) /\ sessions[id].kind = kind

\* TakeSession's checks.  LocalSystem may finish anybody's session.
Usable(id, c, kind) ==
  /\ sessions[id] # NoSession /\ ~ Expired(id)
  /\ sessions[id].kind = kind
  /\ c = System \/ c = sessions[id].caller

ValidatedFirst(id, c, kind) ==  \* mutant: only a valid use consumes
  IF Usable(id, c, kind) THEN [sessions EXCEPT ![id] = NoSession] ELSE sessions

\* "Consume before validation to prevent replay."
TakenBy(id, c, kind) == [sessions EXCEPT ![id] = NoSession]

\* How the second half of a ceremony ended, for the record.
Tried(id, granted) ==
  trials' = [trials EXCEPT ![id] =
    IF @ = "none" THEN (IF granted THEN "granted" ELSE "refused")
                  ELSE (IF granted THEN "replayed" ELSE @)]

\* A session that is presented and comes to nothing (a check of TakeSession,
\* the assertion or attestation, the store) is gone all the same.
Wasted(id, c, kind) ==
  /\ Store(Refreshed, signCount)
  /\ sessions' = TakenBy(id, c, kind) /\ Tried(id, FALSE)
  /\ last' = Nothing
  /\ UNCHANGED <<issued, world, proven>>

\* IsSameSid, ResolveLocalAccount and ValidateLocalPassword: the caller names
\* the account it runs as and knows its password.  A caller that does not is
\* Refused.
OwnPassword(c, s) == c = s /\ s \in live

AnyOwner(id, a) ==  \* mutant: the credential of another account will do
  /\ a \in signed /\ a.challenge = id
  /\ \E s \in Sids : /\ a.key \in KeysOf(Refreshed, s)
                     /\ signCount[<<s, a.key>>] = 0 \/ a.count > signCount[<<s, a.key>>]

\* VerifySessionAssertion, up to the counter update.  The account is read
\* again: its keys may have changed since the session was opened.
Verified(id, a) ==
  LET s == sessions[id].target IN
    /\ a \in signed /\ a.challenge = id
    /\ a.key \in KeysOf(Refreshed, s)
    /\ signCount[<<s, a.key>>] = 0 \/ a.count > signCount[<<s, a.key>>]

NotCounted(id, a) == signCount  \* mutant: the new counter is not stored

\* The counters after an assertion for session id.
Counted(id, a) == [signCount EXCEPT ![<<sessions[id].target, a.key>>] = a.count]

-----------------------------------------------------------------------------
(* The operations.                                                          *)

BeginAuth(c, s) ==
  /\ c \in {System, s} /\ s \in Refreshed.enforced /\ KeysOf(Refreshed, s) # {}
  /\ PutSession("authentication", c, s, None, None)

BeginTest(c, s) ==
  /\ c \in {System, s} /\ KeysOf(Refreshed, s) # {}
  /\ PutSession("authentication", c, s, None, None)

\* finish_auth.  A counter that cannot be saved fails the authentication.
FinishAuth(c, id, a) ==
  /\ Usable(id, c, "authentication") /\ Verified(id, a)
  /\ Store(Refreshed, Counted(id, a))
  /\ sessions' = TakenBy(id, c, "authentication") /\ Tried(id, TRUE)
  /\ last' = [caller |-> c, proof |-> None, id |-> id, key |-> a.key]
  /\ UNCHANGED <<issued, world, proven>>

BeginRegistration(c, s) ==
  /\ OwnPassword(c, s)
  /\ Cardinality(KeysOf(Refreshed, s)) < MaxKeysPerAccount
  /\ PutSession("registration", c, s, None, s)

Registered(id, k) ==
  LET s == sessions[id].target IN
    [Refreshed EXCEPT !.accounts = @ \cup {s}, !.keys = @ \cup {<<s, k>>}]

NewToAccount(id, k) == k \notin KeysOf(Refreshed, sessions[id].target)  \* mutant

\* A credential belongs to one account of the machine.
NewCredential(id, k) == \A s \in Sids : k \notin KeysOf(Refreshed, s)

\* commit_registration: any credential may be presented over the session's
\* challenge.  An account that Windows has forgotten is recorded again.
CommitRegistration(c, id, k, count) ==
  /\ Usable(id, c, "registration")
  /\ NewCredential(id, k) /\ count <= device[k]
  /\ Cardinality(KeysOf(Refreshed, sessions[id].target)) < MaxKeysPerAccount
  /\ IsVaultValid(Registered(id, k))
  /\ Store(Registered(id, k),
           [signCount EXCEPT ![<<sessions[id].target, k>>] = count])
  /\ sessions' = TakenBy(id, c, "registration") /\ Tried(id, TRUE)
  /\ last' = [caller |-> c, proof |-> None, id |-> id, key |-> k]
  /\ UNCHANGED <<issued, world, proven>>

\* An enforced account keeps one credential.
Removable(v, s, k) ==
  /\ k \in KeysOf(v, s)
  /\ s \in v.enforced => Cardinality(KeysOf(v, s)) > 1

Removed(s, k) == [Refreshed EXCEPT !.keys = @ \ {<<s, k>>}]

BeginRemove(c, s, k) ==
  /\ OwnPassword(c, s) /\ Removable(Refreshed, s, k)
  /\ PutSession("removal", c, s, k, s)

StaleCheck(s, k) == k \in Keys  \* mutant: what begin_remove saw is trusted

\* RemoveCredential's own checks, on the vault as it is now.
RemoveCredential(s, k) ==
  Removable(Refreshed, s, k) /\ IsVaultValid(Removed(s, k))

\* finish_remove saves the counter first and removes the credential then.
FinishRemove(c, id, a) ==
  LET s == sessions[id].target  k == sessions[id].key IN
  /\ Usable(id, c, "removal") /\ Verified(id, a)
  /\ RemoveCredential(s, k)
  /\ Store(Removed(s, k), Counted(id, a))
  /\ sessions' = TakenBy(id, c, "removal") /\ Tried(id, TRUE)
  /\ last' = [caller |-> c, proof |-> None, id |-> id, key |-> a.key]
  /\ UNCHANGED <<issued, world, proven>>

\* The second call may fail, or be refused, after the first.
FinishRemoveHalfDone(c, id, a) ==
  /\ Usable(id, c, "removal") /\ Verified(id, a)
  /\ Store(Refreshed, Counted(id, a))
  /\ sessions' = TakenBy(id, c, "removal") /\ Tried(id, FALSE)
  /\ last' = Nothing
  /\ UNCHANGED <<issued, world, proven>>

RemoveWithPassword(c, s, k) ==
  /\ OwnPassword(c, s) /\ RemoveCredential(s, k)
  /\ Store(Removed(s, k), signCount)
  /\ last' = [caller |-> c, proof |-> s, id |-> 0, key |-> None]
  /\ UNCHANGED <<sessions, issued, world, proven, trials>>

Enforce(s, on) ==
  [Refreshed EXCEPT !.enforced = IF on THEN @ \cup {s} ELSE @ \ {s}]

\* Whether another credential provider filter is installed, and accepted by the
\* caller, decides nothing but the refusal.
SetEnforcement(c, s, on) ==
  /\ c \in Administrators /\ OwnPassword(c, s)
  /\ s \in Refreshed.accounts /\ (on => KeysOf(Refreshed, s) # {})
  /\ IsVaultValid(Enforce(s, on))
  /\ Store(Enforce(s, on), signCount)
  /\ last' = [caller |-> c, proof |-> s, id |-> 0, key |-> None]
  /\ UNCHANGED <<sessions, issued, world, proven, trials>>

-----------------------------------------------------------------------------

\* The first half of a ceremony, or a request without one.
Request(c, s) ==
  \/ BeginAuth(c, s) \/ BeginTest(c, s) \/ BeginRegistration(c, s)
  \/ \E k \in Keys : BeginRemove(c, s, k) \/ RemoveWithPassword(c, s, k)
  \/ \E on \in BOOLEAN : SetEnforcement(c, s, on)

\* The second half.
Completion(c, id) ==
  \/ \E k \in Keys, count \in 0 .. MaxCount : CommitRegistration(c, id, k, count)
  \/ \E a \in signed : \/ FinishAuth(c, id, a)
                      \/ FinishRemove(c, id, a) \/ FinishRemoveHalfDone(c, id, a)
  \/ \E kind \in Kinds : Wasted(id, c, kind)

Next ==
  \/ \E c \in Callers, s \in Sids : Request(c, s)
  \/ \E c \in Callers, id \in 1 .. issued : Completion(c, id)
  \/ \E k \in Keys, id \in Ids : Sign(k, id)
  \/ \E s \in Sids : DeleteAccount(s)
  \/ Refused \/ Expire \/ Restart

Spec == Init /\ [][Next]_vars

-----------------------------------------------------------------------------
(* Properties.                                                              *)

TypeOK ==
  /\ vault \in Vaults /\ signCount \in [Sids \X Keys -> 0 .. MaxCount]
  /\ vault.enforced \subseteq vault.accounts
  /\ vault.keys \subseteq vault.accounts \X Keys
  /\ live \subseteq Sids
  /\ sessions \in [Ids -> Session \cup {NoSession}]
  /\ issued \in 0 .. MaxIssued /\ horizon \in 0 .. issued
  /\ device \in [Keys -> 0 .. MaxCount] /\ signed \subseteq Assertions
  /\ proven \subseteq Ids
  /\ trials \in [Ids -> {"none", "granted", "refused", "replayed"}]
  /\ last \in [caller : Callers \cup {None}, proof : Sids \cup {None},
               id : 0 .. MaxIssued, key : Keys \cup {None}]

\* The limits on open sessions hold whatever callers open, abandon and let
\* expire (PutSession).
SessionCaps ==
  /\ Cardinality(OpenIn(sessions)) <= MaxSessions
  /\ \A c \in Callers : Cardinality(OfCaller(sessions, c)) <= MaxSessionsPerCaller

\* "Enforced accounts must retain at least one credential": also when two
\* removals were begun while there were two keys, or when enforcement came
\* between the two halves of a removal.
EnforcedHasKey == \A s \in vault.enforced : KeysOf(vault, s) # {}

\* No credential vouches for two accounts, even when two accounts enrol it at
\* the same time or a removed credential changes hands.
KeyHasOneOwner ==
  \A s, t \in Sids : s # t => KeysOf(vault, s) \cap KeysOf(vault, t) = {}

\* "Consumed before validation to prevent replay": a session grants something
\* only at the first attempt to use it.  Once an attempt has been refused (a
\* wrong caller, kind, assertion or a failing store), or granted, the session
\* never grants anything again.
OneTrial == \A id \in Ids : trials[id] # "replayed"

\* The keys and the policy of a local account are changed by a request of that
\* account with its Windows password, or by completing an unexpired session that
\* the account has opened with its password.  Only the account itself or
\* LocalSystem completes it (TakeSession, BrokerService.cpp:373).
OnlyTheOwnerChangesAccounts ==
  [][\A s \in live :
       \/ KeysOf(vault', s) = KeysOf(vault, s)
            /\ (s \in vault'.enforced <=> s \in vault.enforced)
       \/ last'.caller = s /\ last'.proof = s
       \/ /\ last'.id \in proven /\ ~ Expired(last'.id)
          /\ sessions[last'.id].target = s /\ last'.caller \in {System, s}]_vars

\* What a session grants (a sign-in, a test, a removal) rests on a signature
\* over the challenge of that very session, within its lifetime, by a key that
\* is registered to the session's account when it completes, not only when it
\* began; the account still exists, and what is granted is granted to the opener
\* of the session or to LocalSystem.
GrantsAreGenuine ==
  [][(last'.id # 0 /\ sessions[last'.id].kind # "registration") =>
       /\ ~ Expired(last'.id)
       /\ last'.caller \in {System, sessions[last'.id].caller}
       /\ sessions[last'.id].target \in live
       /\ last'.key \in KeysOf(vault, sessions[last'.id].target)
       /\ \E a \in signed : a.key = last'.key /\ a.challenge = last'.id]_vars

\* "A non-zero signature counter that does not increase is rejected": while a
\* credential of a local account stays registered its stored counter never falls,
\* and each sign-in with a counting key raises it.
CountersAdvance ==
  [][/\ \A p \in Refreshed.keys \cap vault'.keys : signCount'[p] >= signCount[p]
     /\ (last'.id # 0 /\ sessions[last'.id].kind = "authentication") =>
          LET p == <<sessions[last'.id].target, last'.key>> IN
            signCount[p] # 0 => signCount'[p] > signCount[p]]_vars

=============================================================================
