----------------------------- MODULE BrokerProofs -----------------------------
(***************************************************************************)
(* Proofs about the Broker, for any accounts, keys, callers and limits, and*)
(* any number of sessions.                                                 *)
(***************************************************************************)
EXTENDS Broker, FiniteSetTheorems, TLAPS

\* What the store holds between requests.
Sound(v) ==
  /\ v \in Vaults
  /\ v.enforced \subseteq v.accounts /\ v.keys \subseteq v.accounts \X Keys
  /\ \A s \in v.enforced : KeysOf(v, s) # {}
  /\ \A s, t \in Sids : s # t => KeysOf(v, s) \cap KeysOf(v, t) = {}

Counters == [Sids \X Keys -> 0 .. MaxCount]

WorldType ==
  /\ live \subseteq Sids /\ horizon \in 0 .. issued
  /\ device \in [Keys -> 0 .. MaxCount] /\ signed \subseteq Assertions
SessionsType ==
  /\ sessions \in [Ids -> Session \cup {NoSession}] /\ issued \in 0 .. MaxIssued
RecordType ==
  /\ proven \subseteq Ids
  /\ trials \in [Ids -> {"none", "granted", "refused", "replayed"}]
  /\ last \in [caller : Callers \cup {None}, proof : Sids \cup {None},
               id : 0 .. MaxIssued, key : Keys \cup {None}]

\* An open session has been given out and never presented.
Untried ==
  \A i \in Ids : /\ sessions[i] # NoSession => i <= issued /\ trials[i] = "none"
                 /\ i > issued => trials[i] = "none"

\* Sessions that change an account were opened by it, with its password.
Proven ==
  \A i \in Ids : sessions[i] # NoSession /\ sessions[i].kind # "authentication" =>
                   i \in proven /\ sessions[i].caller = sessions[i].target

IInv == /\ Sound(vault) /\ signCount \in Counters
        /\ WorldType /\ SessionsType /\ RecordType
        /\ Untried /\ OneTrial /\ Proven /\ SessionCaps

-----------------------------------------------------------------------------
(* The vaults the operations make.                                          *)

\* A new vault is sound.
LEMMA EmptySound == \A m \in Machines : Sound(EmptyVault(m))
BY DEF Sound, EmptyVault, Vaults, KeysOf

\* The fields of a vault.
LEMMA VaultFields ==
  ASSUME NEW v \in Vaults
  PROVE  v.machine \in Machines /\ v.accounts \subseteq Sids /\ v.enforced \subseteq Sids
           /\ v.keys \subseteq Sids \X Keys
BY DEF Vaults

\* Erasing accounts leaves a sound vault, with the keys of those that stay.
LEMMA KeepSound ==
  ASSUME NEW v, Sound(v), NEW S \in SUBSET Sids
  PROVE  /\ Sound(Keep(v, S))
         /\ \A s \in Sids : KeysOf(Keep(v, S), s) = IF s \in S THEN KeysOf(v, s) ELSE {}
<1>1. /\ Keep(v, S) \in Vaults
      /\ Keep(v, S).accounts = v.accounts \cap S
      /\ Keep(v, S).enforced = v.enforced \cap S
      /\ Keep(v, S).keys = v.keys \cap (S \X Keys)
  BY DEF Sound, Keep, Vaults
<1>2. \A s \in Sids : KeysOf(Keep(v, S), s) = IF s \in S THEN KeysOf(v, s) ELSE {}
  BY <1>1 DEF KeysOf
<1>3. Keep(v, S).keys \subseteq Keep(v, S).accounts \X Keys
  BY <1>1 DEF Sound
<1>4. Keep(v, S).enforced \subseteq Sids
  BY <1>1, VaultFields DEF Sound
<1>5. \A s \in Keep(v, S).enforced : KeysOf(Keep(v, S), s) # {}
  BY <1>1, <1>2, <1>4 DEF Sound
<1>6. \A s, t \in Sids : s # t => KeysOf(Keep(v, S), s) \cap KeysOf(Keep(v, S), t) = {}
  BY <1>2 DEF Sound
<1>7. QED  BY <1>1, <1>2, <1>3, <1>5, <1>6 DEF Sound

\* Adding a key that no account has.
LEMMA RegisteredSound ==
  ASSUME NEW v, Sound(v), NEW s \in Sids, NEW k \in Keys,
         \A t \in Sids : k \notin KeysOf(v, t),
         NEW w, w = [v EXCEPT !.accounts = @ \cup {s}, !.keys = @ \cup {<<s, k>>}]
  PROVE  Sound(w)
<1>1. /\ w \in Vaults /\ w.accounts = v.accounts \cup {s} /\ w.enforced = v.enforced
      /\ w.keys = v.keys \cup {<<s, k>>}
  <2>1. v.accounts \cup {s} \subseteq Sids /\ v.keys \cup {<<s, k>>} \subseteq Sids \X Keys
    BY VaultFields DEF Sound
  <2>2. QED  BY <2>1 DEF Sound, Vaults
<1>2. \A t \in Sids : KeysOf(w, t) = IF t = s THEN KeysOf(v, s) \cup {k} ELSE KeysOf(v, t)
  BY <1>1 DEF KeysOf
<1>3. w.keys \subseteq w.accounts \X Keys
  BY <1>1 DEF Sound
<1>4. w.enforced \subseteq Sids
  BY <1>1, VaultFields DEF Sound
<1>5. \A t \in w.enforced : KeysOf(w, t) # {}
  BY <1>1, <1>2, <1>4 DEF Sound
<1>6. \A t, u \in Sids : t # u => KeysOf(w, t) \cap KeysOf(w, u) = {}
  BY <1>2 DEF Sound
<1>7. QED  BY <1>1, <1>3, <1>5, <1>6 DEF Sound

\* Removing a key, when the result passes IsVaultValid.
LEMMA RemovedSound ==
  ASSUME NEW v, Sound(v), NEW s \in Sids, NEW k \in Keys,
         NEW w, w = [v EXCEPT !.keys = @ \ {<<s, k>>}], IsVaultValid(w)
  PROVE  Sound(w)
<1>1. /\ w \in Vaults /\ w.accounts = v.accounts /\ w.enforced = v.enforced
      /\ w.keys = v.keys \ {<<s, k>>}
  <2>1. v.keys \ {<<s, k>>} \subseteq Sids \X Keys
    BY VaultFields DEF Sound
  <2>2. QED  BY <2>1 DEF Sound, Vaults
<1>2. \A t \in Sids : KeysOf(w, t) \subseteq KeysOf(v, t)
  BY <1>1 DEF KeysOf
<1>3. \A t \in w.enforced : KeysOf(w, t) # {}
  BY <1>1 DEF IsVaultValid, Sound
<1>4. \A t, u \in Sids : t # u => KeysOf(w, t) \cap KeysOf(w, u) = {}
  BY <1>2 DEF Sound
<1>5. QED  BY <1>1, <1>3, <1>4 DEF Sound

\* Switching the enforcement of an account on or off.
LEMMA EnforceSound ==
  ASSUME NEW v, Sound(v), NEW s \in v.accounts, NEW on \in BOOLEAN,
         on => KeysOf(v, s) # {},
         NEW w, w = [v EXCEPT !.enforced = IF on THEN @ \cup {s} ELSE @ \ {s}]
  PROVE  Sound(w)
<1>1. /\ w \in Vaults /\ w.accounts = v.accounts /\ w.keys = v.keys
      /\ w.enforced = IF on THEN v.enforced \cup {s} ELSE v.enforced \ {s}
  <2>1. (IF on THEN v.enforced \cup {s} ELSE v.enforced \ {s}) \subseteq Sids
    BY VaultFields DEF Sound
  <2>2. QED  BY <2>1 DEF Sound, Vaults
<1>2. \A t \in Sids : KeysOf(w, t) = KeysOf(v, t)
  BY <1>1 DEF KeysOf
<1>3. w.enforced \subseteq Sids
  BY <1>1, VaultFields DEF Sound
<1>4. ASSUME NEW t \in w.enforced PROVE KeysOf(w, t) # {}
  <2>1. KeysOf(w, t) = KeysOf(v, t)
    BY <1>2, <1>3
  <2>2. CASE t \in v.enforced
    BY <2>1, <2>2 DEF Sound
  <2>3. CASE t = s /\ on
    BY <2>1, <2>3
  <2>4. QED  BY <1>1, <2>2, <2>3
<1>5. \A t, u \in Sids : t # u => KeysOf(w, t) \cap KeysOf(w, u) = {}
  BY <1>2 DEF Sound
<1>6. w.enforced \subseteq w.accounts /\ w.keys \subseteq w.accounts \X Keys
  BY <1>1 DEF Sound
<1>7. QED  BY <1>1, <1>4, <1>5, <1>6 DEF Sound

\* Every request starts from a sound vault.
LEMMA RefreshedSound == IInv => Sound(Refreshed)
BY KeepSound DEF IInv, WorldType, Refreshed

-----------------------------------------------------------------------------
(* The session table.                                                       *)

Tables == [Ids -> Session \cup {NoSession}]

\* The limits, for any table.
WithinLimits(table) ==
  /\ Cardinality(OpenIn(table)) <= MaxSessions
  /\ \A c \in Callers : Cardinality(OfCaller(table, c)) <= MaxSessionsPerCaller

\* There are finitely many ids.
LEMMA IdsFinite ==
  /\ IsFiniteSet(Ids) /\ Ids \subseteq Nat
  /\ \A S \in SUBSET Ids : IsFiniteSet(S) /\ Cardinality(S) \in Nat
<1>1. IsFiniteSet(Ids)
  BY FS_Interval, BrokerAssumption DEF Ids
<1>2. Ids \subseteq Nat
  BY BrokerAssumption DEF Ids
<1>3. ASSUME NEW S \in SUBSET Ids PROVE IsFiniteSet(S) /\ Cardinality(S) \in Nat
  <2>1. IsFiniteSet(S)
    BY <1>1, FS_Subset
  <2>2. QED  BY <2>1, FS_CardinalityType
<1>4. QED  BY <1>1, <1>2, <1>3

\* One more id.
LEMMA OneMoreId ==
  ASSUME NEW S \in SUBSET Ids, NEW i
  PROVE  Cardinality(S \cup {i}) <= Cardinality(S) + 1
<1>1. IsFiniteSet(S) /\ Cardinality(S) \in Nat
  BY IdsFinite
<1>2. Cardinality(S \cup {i}) = IF i \in S THEN Cardinality(S) ELSE Cardinality(S) + 1
  BY <1>1, FS_AddElement
<1>3. QED  BY <1>1, <1>2

\* A session is not the absence of one.
LEMMA SessionIsOpen == NoSession \notin Session
BY DEF NoSession, Session, Kinds

\* Closing sessions keeps the limits.
LEMMA FewerSessions ==
  ASSUME NEW T, WithinLimits(T), NEW U,
         \A i \in Ids : U[i] = NoSession \/ U[i] = T[i]
  PROVE  WithinLimits(U)
<1>1. OpenIn(U) \subseteq OpenIn(T) /\ OpenIn(T) \subseteq Ids
  BY DEF OpenIn
<1>2. Cardinality(OpenIn(U)) <= MaxSessions
  <2>1. Cardinality(OpenIn(U)) <= Cardinality(OpenIn(T))
    BY <1>1, IdsFinite, FS_Subset
  <2>2. QED
    BY <1>1, <2>1, IdsFinite, BrokerAssumption DEF WithinLimits
<1>3. ASSUME NEW c \in Callers
      PROVE  Cardinality(OfCaller(U, c)) <= MaxSessionsPerCaller
  <2>1. OfCaller(U, c) \subseteq OfCaller(T, c) /\ OfCaller(T, c) \subseteq Ids
    BY DEF OfCaller, OpenIn
  <2>2. Cardinality(OfCaller(U, c)) <= Cardinality(OfCaller(T, c))
    BY <2>1, IdsFinite, FS_Subset
  <2>3. OfCaller(U, c) \subseteq Ids
    BY <2>1
  <2>4. QED
    BY <2>1, <2>2, <2>3, IdsFinite, BrokerAssumption DEF WithinLimits
<1>4. QED  BY <1>2, <1>3 DEF WithinLimits

\* Opening one session when there is room for it.
LEMMA OneMoreSession ==
  ASSUME NEW T \in Tables, NEW i \in Ids, NEW e \in Session, WithinLimits(T),
         Cardinality(OpenIn(T)) < MaxSessions,
         Cardinality(OfCaller(T, e.caller)) < MaxSessionsPerCaller
  PROVE  WithinLimits([T EXCEPT ![i] = e])
<1> DEFINE U == [T EXCEPT ![i] = e]
<1>0. e.caller \in Callers /\ e # NoSession
  BY SessionIsOpen DEF Session
<1>1. \A j \in Ids : U[j] = IF j = i THEN e ELSE T[j]
  BY DEF Tables
<1>2. Cardinality(OpenIn(U)) <= MaxSessions
  <2>1. OpenIn(U) \subseteq OpenIn(T) \cup {i} /\ OpenIn(T) \cup {i} \subseteq Ids
    BY <1>1 DEF OpenIn
  <2>2. IsFiniteSet(OpenIn(T)) /\ Cardinality(OpenIn(T)) \in Nat
    BY <2>1, IdsFinite
  <2>3. Cardinality(OpenIn(T) \cup {i}) <= Cardinality(OpenIn(T)) + 1
    BY <2>1, OneMoreId
  <2>4. Cardinality(OpenIn(U)) <= Cardinality(OpenIn(T) \cup {i})
    BY <2>1, IdsFinite, FS_Subset
  <2>5. Cardinality(OpenIn(U)) \in Nat /\ Cardinality(OpenIn(T) \cup {i}) \in Nat
    BY <2>1, IdsFinite
  <2>6. QED
    BY <2>2, <2>3, <2>4, <2>5, BrokerAssumption
<1>3. ASSUME NEW c \in Callers
      PROVE  Cardinality(OfCaller(U, c)) <= MaxSessionsPerCaller
  <2>0. OfCaller(T, c) \subseteq Ids /\ OfCaller(U, c) \subseteq Ids
    BY DEF OfCaller, OpenIn
  <2>1. CASE c = e.caller
    <3>1. OfCaller(U, c) \subseteq OfCaller(T, c) \cup {i}
            /\ OfCaller(T, c) \cup {i} \subseteq Ids
      BY <1>1 DEF OfCaller, OpenIn
    <3>2. Cardinality(OfCaller(T, c) \cup {i}) <= Cardinality(OfCaller(T, c)) + 1
      BY <2>0, OneMoreId
    <3>3. Cardinality(OfCaller(U, c)) <= Cardinality(OfCaller(T, c) \cup {i})
      BY <3>1, IdsFinite, FS_Subset
    <3>4. /\ Cardinality(OfCaller(U, c)) \in Nat /\ Cardinality(OfCaller(T, c)) \in Nat
          /\ Cardinality(OfCaller(T, c) \cup {i}) \in Nat
      BY <2>0, <3>1, IdsFinite
    <3>5. QED
      BY <2>1, <3>2, <3>3, <3>4, BrokerAssumption
  <2>2. CASE c # e.caller
    <3>1. OfCaller(U, c) \subseteq OfCaller(T, c)
      BY <1>0, <1>1, <2>2 DEF OfCaller, OpenIn
    <3>2. Cardinality(OfCaller(U, c)) <= Cardinality(OfCaller(T, c))
      BY <2>0, <3>1, IdsFinite, FS_Subset
    <3>3. Cardinality(OfCaller(U, c)) \in Nat /\ Cardinality(OfCaller(T, c)) \in Nat
      BY <2>0, IdsFinite
    <3>4. QED
      BY <3>2, <3>3, BrokerAssumption DEF WithinLimits
  <2>3. QED  BY <2>1, <2>2
<1>4. QED  BY <1>2, <1>3 DEF WithinLimits

-----------------------------------------------------------------------------
(* The actions.                                                             *)

\* What a request leaves in the store.
LEMMA StoreInv ==
  ASSUME NEW v, Sound(v), NEW counts \in Counters, Store(v, counts)
  PROVE  Sound(vault') /\ signCount' \in Counters
<1>1. \A p \in Sids \X Keys : (IF p \in v.keys THEN counts[p] ELSE 0) \in 0 .. MaxCount
  BY BrokerAssumption DEF Counters
<1>2. QED  BY <1>1 DEF Store, Counters

\* Nothing has been granted.
LEMMA NothingType ==
  Nothing \in [caller : Callers \cup {None}, proof : Sids \cup {None},
               id : 0 .. MaxIssued, key : Keys \cup {None}]
BY BrokerAssumption DEF Nothing

\* The types of the initial state.
LEMMA InitInv == Init => IInv
<1> SUFFICES ASSUME Init PROVE IInv
  OBVIOUS
<1>1. Sound(vault)
  BY EmptySound DEF Init
<1>2. signCount \in Counters /\ WorldType /\ SessionsType /\ RecordType
  BY BrokerAssumption, NothingType DEF Init, Counters, WorldType, SessionsType, RecordType
<1>3. Untried /\ OneTrial /\ Proven
  BY DEF Init, Untried, OneTrial, Proven
<1>4. SessionCaps
  <2>1. OpenIn(sessions) = {} /\ \A c \in Callers : OfCaller(sessions, c) = {}
    BY DEF Init, OpenIn, OfCaller
  <2>2. QED
    BY <2>1, FS_EmptySet, BrokerAssumption DEF SessionCaps
<1>5. QED  BY <1>1, <1>2, <1>3, <1>4 DEF IInv

\* Users, keys and time.
LEMMA WorldInv ==
  ASSUME IInv, \/ \E k \in Keys, id \in Ids : Sign(k, id)
               \/ \E s \in Sids : DeleteAccount(s)
               \/ Expire
  PROVE  IInv'
<1>1. UNCHANGED <<vault, signCount, sessions, issued, proven, trials>> /\ last' = Nothing
  BY DEF Sign, DeleteAccount, Expire
<1>2. WorldType'
  <2>1. ASSUME NEW k \in Keys, NEW id \in Ids, Sign(k, id) PROVE WorldType'
    <3>1. device[k] + 1 \in 0 .. MaxCount /\ 0 \in 0 .. MaxCount
      BY <2>1, BrokerAssumption DEF IInv, WorldType, Sign
    <3>2. device' \in [Keys -> 0 .. MaxCount]
      BY <2>1, <3>1 DEF IInv, WorldType, Sign
    <3>3. [key |-> k, challenge |-> id, count |-> device'[k]] \in Assertions
      BY <3>2 DEF Assertions
    <3>4. QED
      BY <2>1, <3>2, <3>3 DEF IInv, WorldType, Sign
  <2>2. CASE \E s \in Sids : DeleteAccount(s)
    BY <2>2 DEF IInv, WorldType, DeleteAccount
  <2>3. CASE Expire
    BY <2>3 DEF IInv, WorldType, SessionsType, Expire
  <2>4. QED  BY <2>1, <2>2, <2>3
<1>3. QED
  BY <1>1, <1>2, NothingType DEF IInv, SessionsType, RecordType, Untried, OneTrial, Proven,
     SessionCaps, Counters, OpenIn, OfCaller

\* A request that changes no session.
LEMMA StoreOnlyInv ==
  ASSUME IInv, NEW v, Sound(v), Store(v, signCount),
         UNCHANGED <<sessions, issued, world, proven, trials>>,
         last' \in [caller : Callers \cup {None}, proof : Sids \cup {None},
                    id : 0 .. MaxIssued, key : Keys \cup {None}]
  PROVE  IInv'
<1>1. Sound(vault') /\ signCount' \in Counters
  BY StoreInv DEF IInv
<1>2. QED
  BY <1>1 DEF IInv, world, WorldType, SessionsType, RecordType, Untried, OneTrial, Proven,
     SessionCaps, Counters, OpenIn, OfCaller

\* A start of the service.
LEMMA RestartInv ==
  ASSUME IInv, Restart
  PROVE  IInv'
<1>1. Sound(vault') /\ signCount' \in Counters
  BY StoreInv, RefreshedSound DEF IInv, Restart
<1>2. SessionCaps'
  <2>1. WithinLimits(sessions)
    BY DEF IInv, SessionCaps, WithinLimits
  <2>2. \A i \in Ids : sessions'[i] = NoSession
    BY DEF Restart
  <2>3. WithinLimits(sessions')
    BY <2>1, <2>2, FewerSessions
  <2>4. QED
    BY <2>3 DEF SessionCaps, WithinLimits, OpenIn, OfCaller
<1>3. QED
  BY <1>1, <1>2, NothingType DEF IInv, Restart, world, WorldType, SessionsType, RecordType,
     Untried, OneTrial, Proven, Counters

\* What the last request may have been granted.
Grants == [caller : Callers \cup {None}, proof : Sids \cup {None},
           id : 0 .. MaxIssued, key : Keys \cup {None}]

\* The first half of a ceremony.
LEMMA PutInv ==
  ASSUME IInv, NEW kind \in Kinds, NEW c \in Callers, NEW s \in Sids,
         NEW k \in Keys \cup {None}, NEW proof, PutSession(kind, c, s, k, proof),
         kind # "authentication" => c = s /\ proof = s
  PROVE  IInv'
<1> DEFINE e == [kind |-> kind, caller |-> c, target |-> s, key |-> k]
<1>0. e \in Session /\ e # NoSession /\ e.kind = kind /\ e.caller = c
  BY SessionIsOpen DEF Session
<1>1. Sound(vault') /\ signCount' \in Counters
  BY StoreInv, RefreshedSound DEF IInv, PutSession
<1>2. last' \in Grants
  BY NothingType DEF PutSession, Grants
<1>3. /\ Purged \in Tables /\ WithinLimits(Purged)
      /\ \A i \in Ids : Purged[i] = NoSession \/ Purged[i] = sessions[i]
  <2>1. \A i \in Ids : Purged[i] = NoSession \/ Purged[i] = sessions[i]
    BY DEF Purged
  <2>2. Purged \in Tables
    BY DEF IInv, SessionsType, Purged, Tables
  <2>3. WithinLimits(sessions)
    BY DEF IInv, SessionCaps, WithinLimits
  <2>4. QED  BY <2>1, <2>2, <2>3, FewerSessions
<1>4. CASE sessions' = Purged /\ UNCHANGED <<issued, proven>>
  <2>1. SessionCaps'
    BY <1>3, <1>4 DEF WithinLimits, SessionCaps, OpenIn, OfCaller
  <2>2. QED
    BY <1>1, <1>2, <1>3, <1>4, <2>1 DEF IInv, PutSession, world, WorldType, SessionsType,
       RecordType, Untried, OneTrial, Proven, Tables, Grants
<1>5. CASE /\ Cardinality(OpenIn(Purged)) < MaxSessions
           /\ Cardinality(OfCaller(Purged, c)) < MaxSessionsPerCaller
           /\ issued < MaxIssued /\ issued' = issued + 1
           /\ sessions' = [Purged EXCEPT ![issued + 1] = e]
           /\ proven' = IF proof = s /\ c = s THEN proven \cup {issued + 1} ELSE proven
  <2>1. issued + 1 \in Ids /\ issued \in Nat
    BY <1>5, BrokerAssumption DEF IInv, SessionsType, Ids
  <2>2. SessionCaps'
    BY <1>0, <1>3, <1>5, <2>1, OneMoreSession
       DEF WithinLimits, SessionCaps, OpenIn, OfCaller
  <2>3. \A i \in Ids : sessions'[i] = IF i = issued + 1 THEN e ELSE Purged[i]
    BY <1>3, <1>5 DEF Tables
  <2>4. SessionsType'
    BY <1>0, <1>3, <1>5, <2>1 DEF SessionsType, Tables, Ids
  <2>5. WorldType'
    BY <1>5, <2>1 DEF IInv, PutSession, world, WorldType
  <2>6. RecordType'
    BY <1>2, <1>5, <2>1 DEF IInv, PutSession, RecordType, Grants
  <2>7. Untried'
    BY <1>3, <1>5, <2>1, <2>3 DEF IInv, PutSession, Untried, Ids
  <2>8. Proven'
    BY <1>0, <1>3, <1>5, <2>3 DEF IInv, Proven
  <2>9. QED
    BY <1>1, <2>2, <2>4, <2>5, <2>6, <2>7, <2>8 DEF IInv, PutSession, OneTrial
<1>6. QED
  <2>1. /\ Cardinality(OpenIn(Purged)) \in Nat /\ Cardinality(OfCaller(Purged, c)) \in Nat
    BY IdsFinite DEF OpenIn, OfCaller
  <2>2. QED
    BY <1>4, <1>5, <2>1, BrokerAssumption DEF PutSession

\* The second half: the session is gone, and granted at most this once.
LEMMA TakenInv ==
  ASSUME IInv, NEW id \in 1 .. issued, NEW c, NEW kind, NEW granted \in BOOLEAN,
         granted => sessions[id] # NoSession,
         sessions' = TakenBy(id, c, kind), Tried(id, granted),
         NEW v, Sound(v), NEW counts \in Counters, Store(v, counts),
         UNCHANGED <<issued, world, proven>>, last' \in Grants
  PROVE  IInv'
<1>0. id \in Ids
  BY BrokerAssumption DEF IInv, SessionsType, Ids
<1>1. Sound(vault') /\ signCount' \in Counters
  BY StoreInv
<1>2. \A i \in Ids : sessions'[i] = IF i = id THEN NoSession ELSE sessions[i]
  BY DEF IInv, SessionsType, TakenBy
<1>3. SessionCaps'
  <2>1. WithinLimits(sessions)
    BY DEF IInv, SessionCaps, WithinLimits
  <2>2. WithinLimits(sessions')
    BY <1>2, <2>1, FewerSessions
  <2>3. QED
    BY <2>2 DEF SessionCaps, WithinLimits, OpenIn, OfCaller
<1>4. SessionsType' /\ WorldType'
  BY DEF IInv, SessionsType, TakenBy, world, WorldType
<1>5. /\ trials' \in [Ids -> {"none", "granted", "refused", "replayed"}]
      /\ \A i \in Ids : i # id => trials'[i] = trials[i]
      /\ trials'[id] # "replayed"
  BY <1>0 DEF IInv, RecordType, Tried, Untried, OneTrial
<1>6. RecordType'
  BY <1>5 DEF IInv, RecordType, Grants
<1>7. Untried' /\ OneTrial' /\ Proven'
  BY <1>0, <1>2, <1>5 DEF IInv, SessionsType, Untried, OneTrial, Proven, Ids
<1>8. QED  BY <1>1, <1>3, <1>4, <1>6, <1>7 DEF IInv

\* An account whose password was given.
LEMMA RequestInv ==
  ASSUME IInv, NEW c \in Callers, NEW s \in Sids, Request(c, s)
  PROVE  IInv'
<1>0. Sound(Refreshed) /\ None \in Keys \cup {None}
  BY RefreshedSound
<1>1. CASE BeginAuth(c, s) \/ BeginTest(c, s)
  BY <1>0, <1>1, PutInv DEF BeginAuth, BeginTest, Kinds
<1>2. CASE BeginRegistration(c, s)
  BY <1>0, <1>2, PutInv DEF BeginRegistration, OwnPassword, Kinds
<1>3. ASSUME NEW k \in Keys, BeginRemove(c, s, k) PROVE IInv'
  BY <1>3, PutInv DEF BeginRemove, OwnPassword, Kinds
<1>4. ASSUME NEW k \in Keys, RemoveWithPassword(c, s, k) PROVE IInv'
  <2>1. Sound(Removed(s, k))
    BY <1>0, <1>4, RemovedSound DEF RemoveWithPassword, RemoveCredential, Removed
  <2>2. last' \in Grants
    BY <1>4, BrokerAssumption DEF RemoveWithPassword, Grants
  <2>3. QED
    BY <1>4, <2>1, <2>2, StoreOnlyInv DEF RemoveWithPassword, Grants
<1>5. ASSUME NEW on \in BOOLEAN, SetEnforcement(c, s, on) PROVE IInv'
  <2>1. Sound(Enforce(s, on))
    BY <1>0, <1>5, EnforceSound DEF SetEnforcement, Enforce
  <2>2. last' \in Grants
    BY <1>5, BrokerAssumption DEF SetEnforcement, Grants
  <2>3. QED
    BY <1>5, <2>1, <2>2, StoreOnlyInv DEF SetEnforcement, Grants
<1>6. QED  BY <1>1, <1>2, <1>3, <1>4, <1>5 DEF Request

\* A session that is used is open, and its parts have their types.
LEMMA UsedSession ==
  ASSUME IInv, NEW id \in 1 .. issued, NEW c, NEW kind, Usable(id, c, kind)
  PROVE  /\ id \in Ids /\ sessions[id] \in Session /\ sessions[id] # NoSession
         /\ sessions[id].target \in Sids /\ sessions[id].kind = kind
         /\ sessions[id].key \in Keys \cup {None}
<1>1. id \in Ids
  BY BrokerAssumption DEF IInv, SessionsType, Ids
<1>2. QED
  BY <1>1 DEF IInv, SessionsType, Usable, Session

\* The counters after a verified assertion.
LEMMA CountedType ==
  ASSUME IInv, NEW id \in Ids, sessions[id].target \in Sids, NEW a \in signed
  PROVE  Counted(id, a) \in Counters /\ a.key \in Keys
<1>1. a.key \in Keys /\ a.count \in 0 .. MaxCount
  BY DEF IInv, WorldType, Assertions
<1>2. QED
  BY <1>1 DEF IInv, Counted, Counters

\* Any second half.
LEMMA CompletionInv ==
  ASSUME IInv, NEW c \in Callers, NEW id \in 1 .. issued, Completion(c, id)
  PROVE  IInv'
<1>0. Sound(Refreshed) /\ signCount \in Counters /\ id \in 0 .. MaxIssued
  BY RefreshedSound, BrokerAssumption DEF IInv, SessionsType
<1>1. ASSUME NEW k \in Keys, NEW count \in 0 .. MaxCount,
             CommitRegistration(c, id, k, count)
      PROVE  IInv'
  <2>1. sessions[id].target \in Sids /\ sessions[id] # NoSession
    BY <1>1, UsedSession DEF CommitRegistration
  <2>2. Sound(Registered(id, k))
    BY <1>0, <1>1, <2>1, RegisteredSound DEF CommitRegistration, NewCredential, Registered
  <2>3. [signCount EXCEPT ![<<sessions[id].target, k>>] = count] \in Counters
    BY <1>0, <2>1 DEF Counters
  <2>4. last' \in Grants
    BY <1>0, <1>1 DEF CommitRegistration, Grants
  <2>5. QED
    BY <1>1, <2>1, <2>2, <2>3, <2>4, TakenInv DEF CommitRegistration
<1>2. ASSUME NEW a \in signed, FinishAuth(c, id, a) PROVE IInv'
  <2>1. sessions[id].target \in Sids /\ sessions[id] # NoSession /\ id \in Ids
    BY <1>2, UsedSession DEF FinishAuth
  <2>2. Counted(id, a) \in Counters /\ a.key \in Keys
    BY <2>1, CountedType
  <2>3. last' \in Grants
    BY <1>0, <1>2, <2>2 DEF FinishAuth, Grants
  <2>4. QED
    BY <1>0, <1>2, <2>1, <2>2, <2>3, TakenInv DEF FinishAuth
<1>3. ASSUME NEW a \in signed, FinishRemove(c, id, a) PROVE IInv'
  <2>1. /\ sessions[id].target \in Sids /\ sessions[id] # NoSession /\ id \in Ids
    BY <1>3, UsedSession DEF FinishRemove
  <2>2. Counted(id, a) \in Counters /\ a.key \in Keys
    BY <2>1, CountedType
  <2>3. sessions[id].key \in Keys
    BY <1>3 DEF FinishRemove, RemoveCredential, Removable, KeysOf
  <2>4. Sound(Removed(sessions[id].target, sessions[id].key))
    BY <1>0, <1>3, <2>1, <2>3, RemovedSound DEF FinishRemove, RemoveCredential, Removed
  <2>5. last' \in Grants
    BY <1>0, <1>3, <2>2 DEF FinishRemove, Grants
  <2>6. QED
    BY <1>3, <2>1, <2>2, <2>4, <2>5, TakenInv DEF FinishRemove
<1>4. ASSUME NEW a \in signed, FinishRemoveHalfDone(c, id, a) PROVE IInv'
  <2>1. sessions[id].target \in Sids /\ id \in Ids
    BY <1>4, UsedSession DEF FinishRemoveHalfDone
  <2>2. Counted(id, a) \in Counters
    BY <2>1, CountedType
  <2>3. last' \in Grants
    BY <1>4, NothingType DEF FinishRemoveHalfDone, Grants
  <2>4. QED
    BY <1>0, <1>4, <2>2, <2>3, TakenInv DEF FinishRemoveHalfDone
<1>5. ASSUME NEW kind \in Kinds, Wasted(id, c, kind) PROVE IInv'
  <2>1. last' \in Grants
    BY <1>5, NothingType DEF Wasted, Grants
  <2>2. QED
    BY <1>0, <1>5, <2>1, TakenInv DEF Wasted
<1>6. QED  BY <1>1, <1>2, <1>3, <1>4, <1>5 DEF Completion

\* Every step of the Broker and of its world.
LEMMA NextInv == IInv /\ [Next]_vars => IInv'
<1> SUFFICES ASSUME IInv, [Next]_vars PROVE IInv'
  OBVIOUS
<1>1. CASE \E c \in Callers, s \in Sids : Request(c, s)
  BY <1>1, RequestInv
<1>2. CASE \E c \in Callers, id \in 1 .. issued : Completion(c, id)
  BY <1>2, CompletionInv
<1>3. CASE \/ \E k \in Keys, id \in Ids : Sign(k, id)
           \/ \E s \in Sids : DeleteAccount(s)
           \/ Expire
  BY <1>3, WorldInv
<1>4. CASE Refused
  BY <1>4, RefreshedSound, StoreOnlyInv, NothingType DEF Refused
<1>5. CASE Restart
  BY <1>5, RestartInv
<1>6. CASE UNCHANGED vars
  BY <1>6 DEF vars, world, IInv, WorldType, SessionsType, RecordType, Untried, OneTrial,
     Proven, SessionCaps, OpenIn, OfCaller
<1>7. QED  BY <1>1, <1>2, <1>3, <1>4, <1>5, <1>6 DEF Next

\* The inductive invariant of the Broker.
THEOREM Inductive == Spec => []IInv
BY InitInv, NextInv, PTL DEF Spec

\* The types of the Broker's state.
THEOREM TypeCorrect == Spec => []TypeOK
<1>1. IInv => TypeOK
  BY DEF IInv, Sound, Counters, WorldType, SessionsType, RecordType, TypeOK
<1>2. QED  BY <1>1, Inductive, PTL

\* The limits of the session table (PutSession).
THEOREM SessionsAreLimited == Spec => []SessionCaps
<1>1. IInv => SessionCaps
  BY DEF IInv
<1>2. QED  BY <1>1, Inductive, PTL

\* An enforced account keeps a key (RemoveCredential, SetEnforced).
THEOREM EnforcedAlwaysHasKey == Spec => []EnforcedHasKey
<1>1. IInv => EnforcedHasKey
  BY DEF IInv, Sound, EnforcedHasKey
<1>2. QED  BY <1>1, Inductive, PTL

\* A key vouches for one account (commit_registration).
THEOREM KeysHaveOneOwner == Spec => []KeyHasOneOwner
<1>1. IInv => KeyHasOneOwner
  BY DEF IInv, Sound, KeyHasOneOwner
<1>2. QED  BY <1>1, Inductive, PTL

\* A session grants at most once, and only at the first attempt (TakeSession).
THEOREM SessionsAreTriedOnce == Spec => []OneTrial
<1>1. IInv => OneTrial
  BY DEF IInv
<1>2. QED  BY <1>1, Inductive, PTL

-----------------------------------------------------------------------------
(* Action properties.                                                       *)

\* A step that grants something completes a ceremony.
LEMMA GrantStep ==
  ASSUME Next, last' # Nothing
  PROVE  \/ \E c \in Callers, s \in Sids, k \in Keys : RemoveWithPassword(c, s, k)
         \/ \E c \in Callers, s \in Sids, on \in BOOLEAN : SetEnforcement(c, s, on)
         \/ \E c \in Callers, id \in 1 .. issued :
              \/ \E k \in Keys, count \in 0 .. MaxCount : CommitRegistration(c, id, k, count)
              \/ \E a \in signed : FinishAuth(c, id, a) \/ FinishRemove(c, id, a)
<1>1. ~ (Refused \/ Expire \/ Restart)
  BY DEF Refused, Expire, Restart
<1>2. ~ ((\E k \in Keys, id \in Ids : Sign(k, id)) \/ \E s \in Sids : DeleteAccount(s))
  BY DEF Sign, DeleteAccount
<1>3. ASSUME NEW c \in Callers, NEW s \in Sids, Request(c, s)
      PROVE  \/ \E k \in Keys : RemoveWithPassword(c, s, k)
             \/ \E on \in BOOLEAN : SetEnforcement(c, s, on)
  <2>1. ~ (BeginAuth(c, s) \/ BeginTest(c, s) \/ BeginRegistration(c, s))
    BY DEF BeginAuth, BeginTest, BeginRegistration, PutSession
  <2>2. ~ \E k \in Keys : BeginRemove(c, s, k)
    BY DEF BeginRemove, PutSession
  <2>3. QED  BY <1>3, <2>1, <2>2 DEF Request
<1>4. ASSUME NEW c \in Callers, NEW id \in 1 .. issued, Completion(c, id)
      PROVE  \/ \E k \in Keys, count \in 0 .. MaxCount : CommitRegistration(c, id, k, count)
             \/ \E a \in signed : FinishAuth(c, id, a) \/ FinishRemove(c, id, a)
  <2>1. ~ \E a \in signed : FinishRemoveHalfDone(c, id, a)
    BY DEF FinishRemoveHalfDone
  <2>2. ~ \E kind \in Kinds : Wasted(id, c, kind)
    BY DEF Wasted
  <2>3. QED  BY <1>4, <2>1, <2>2 DEF Completion
<1>5. QED  BY <1>1, <1>2, <1>3, <1>4 DEF Next

\* What a refreshed vault says of a local account, and of no other.
LEMMA RefreshedKeys ==
  ASSUME IInv, NEW s \in Sids
  PROVE  /\ KeysOf(Refreshed, s) = IF s \in live THEN KeysOf(vault, s) ELSE {}
         /\ s \in Refreshed.enforced <=> s \in vault.enforced /\ s \in live
<1>1. live \in SUBSET Sids
  BY DEF IInv, WorldType
<1>2. Refreshed.enforced = vault.enforced \cap live
  BY DEF IInv, Sound, Vaults, Refreshed, Keep
<1>3. QED
  BY <1>1, <1>2, KeepSound DEF IInv, Refreshed

\* A sign-in, test or removal rests on a signature over the challenge of its own
\* unexpired session by a key the account has when it completes
\* (VerifySessionAssertion), and goes to who opened the session or LocalSystem.
THEOREM GrantsAlwaysGenuine == Spec => GrantsAreGenuine
<1> DEFINE Genuine ==
      /\ ~ Expired(last'.id)
      /\ last'.caller \in {System, sessions[last'.id].caller}
      /\ sessions[last'.id].target \in live
      /\ last'.key \in KeysOf(vault, sessions[last'.id].target)
      /\ \E a \in signed : a.key = last'.key /\ a.challenge = last'.id
<1>1. ASSUME IInv, Next, last'.id # 0, sessions[last'.id].kind # "registration"
      PROVE  Genuine
  <2>1. last' # Nothing
    BY <1>1 DEF Nothing
  <2>2. ASSUME NEW c \in Callers, NEW id \in 1 .. issued, NEW a \in signed,
               \/ FinishAuth(c, id, a) \/ FinishRemove(c, id, a)
        PROVE  Genuine
    <3>1. last'.id = id /\ last'.key = a.key /\ last'.caller = c
      <4>1. CASE FinishAuth(c, id, a)
        BY <4>1 DEF FinishAuth
      <4>2. CASE FinishRemove(c, id, a)
        BY <4>2 DEF FinishRemove
      <4>3. QED  BY <2>2, <4>1, <4>2
    <3>2. /\ ~ Expired(id) /\ c \in {System, sessions[id].caller}
          /\ Verified(id, a) /\ sessions[id].target \in Sids
      BY <1>1, <2>2, UsedSession DEF FinishAuth, FinishRemove, Usable
    <3>3. a.key \in KeysOf(Refreshed, sessions[id].target) /\ a.challenge = id
      BY <3>2 DEF Verified
    <3>4. sessions[id].target \in live /\ a.key \in KeysOf(vault, sessions[id].target)
      BY <1>1, <3>2, <3>3, RefreshedKeys
    <3>5. QED  BY <3>1, <3>2, <3>3, <3>4
  <2>3. ASSUME NEW c \in Callers, NEW id \in 1 .. issued, NEW k \in Keys,
               NEW count \in 0 .. MaxCount, CommitRegistration(c, id, k, count)
        PROVE  FALSE
    <3>1. last'.id = id /\ sessions[id].kind = "registration"
      BY <2>3 DEF CommitRegistration, Usable
    <3>2. QED  BY <1>1, <3>1
  <2>4. ASSUME NEW c \in Callers, NEW s \in Sids, \/ \E k \in Keys : RemoveWithPassword(c, s, k)
                                                  \/ \E on \in BOOLEAN : SetEnforcement(c, s, on)
        PROVE  FALSE
    BY <1>1, <2>4 DEF RemoveWithPassword, SetEnforcement
  <2>5. QED
    BY <1>1, <2>1, <2>2, <2>3, <2>4, GrantStep
<1>2. QED  BY <1>1, Inductive, PTL DEF Spec, GrantsAreGenuine

\* What a request that only refreshes leaves of a local account's keys and policy.
LEMMA RefreshKeepsLocal ==
  ASSUME IInv, NEW counts, Store(Refreshed, counts), NEW s \in live
  PROVE  /\ KeysOf(vault', s) = KeysOf(vault, s)
         /\ s \in vault'.enforced <=> s \in vault.enforced
<1>1. vault' = Refreshed /\ s \in Sids
  BY DEF Store, IInv, WorldType
<1>2. QED  BY <1>1, RefreshedKeys

\* A local account's keys and policy change only by its own request with its
\* password (remove_with_password, set_enforcement), or when it or LocalSystem
\* completes a session that it opened with its password (begin_registration,
\* begin_remove).
THEOREM OnlyOwnersChangeAccounts == Spec => OnlyTheOwnerChangesAccounts
<1> DEFINE Same(s) == /\ KeysOf(vault', s) = KeysOf(vault, s)
                      /\ s \in vault'.enforced <=> s \in vault.enforced
           BySession(s) == /\ last'.id \in proven /\ ~ Expired(last'.id)
                          /\ sessions[last'.id].target = s
                          /\ last'.caller \in {System, s}
           ByPassword(s) == last'.caller = s /\ last'.proof = s
<1>1. ASSUME IInv, Next, NEW s \in live
      PROVE  Same(s) \/ ByPassword(s) \/ BySession(s)
  <2>0. s \in Sids /\ KeysOf(Refreshed, s) = KeysOf(vault, s)
          /\ (s \in Refreshed.enforced <=> s \in vault.enforced)
    BY <1>1, RefreshedKeys DEF IInv, WorldType
  <2>1. CASE UNCHANGED vault
    BY <2>1
  <2>2. ASSUME NEW counts, Store(Refreshed, counts) PROVE Same(s)
    BY <1>1, <2>2, RefreshKeepsLocal
  <2>3. ASSUME NEW c \in Callers, NEW t \in Sids, Request(c, t)
        PROVE  Same(s) \/ ByPassword(s)
    <3>1. CASE \/ BeginAuth(c, t) \/ BeginTest(c, t) \/ BeginRegistration(c, t)
               \/ \E k \in Keys : BeginRemove(c, t, k)
      BY <3>1, <2>2 DEF BeginAuth, BeginTest, BeginRegistration, BeginRemove, PutSession
    <3>2. ASSUME NEW k \in Keys, RemoveWithPassword(c, t, k) PROVE Same(s) \/ ByPassword(s)
      <4>1. vault' = Removed(t, k) /\ last'.caller = t /\ last'.proof = t
        BY <3>2 DEF RemoveWithPassword, Store, OwnPassword
      <4>2. CASE t # s
        <5>1. KeysOf(vault', s) = KeysOf(Refreshed, s) /\ vault'.enforced = Refreshed.enforced
          BY <1>1, <2>0, <4>1, <4>2, RefreshedSound DEF Removed, KeysOf, Sound, Vaults
        <5>2. QED  BY <2>0, <5>1
      <4>3. QED  BY <4>1, <4>2
    <3>3. ASSUME NEW on \in BOOLEAN, SetEnforcement(c, t, on) PROVE Same(s) \/ ByPassword(s)
      <4>1. vault' = Enforce(t, on) /\ last'.caller = t /\ last'.proof = t
        BY <3>3 DEF SetEnforcement, Store, OwnPassword
      <4>2. CASE t # s
        <5>1. KeysOf(vault', s) = KeysOf(Refreshed, s)
                /\ (s \in vault'.enforced <=> s \in Refreshed.enforced)
          BY <1>1, <2>0, <4>1, <4>2, RefreshedSound DEF Enforce, KeysOf, Sound, Vaults
        <5>2. QED  BY <2>0, <5>1
      <4>3. QED  BY <4>1, <4>2
    <3>4. QED  BY <2>3, <3>1, <3>2, <3>3 DEF Request
  <2>4. ASSUME NEW c \in Callers, NEW id \in 1 .. issued, Completion(c, id)
        PROVE  Same(s) \/ BySession(s)
    <3>1. CASE \/ \E a \in signed : FinishAuth(c, id, a) \/ FinishRemoveHalfDone(c, id, a)
               \/ \E kind \in Kinds : Wasted(id, c, kind)
      BY <3>1, <2>2 DEF FinishAuth, FinishRemoveHalfDone, Wasted
    <3>2. ASSUME NEW k \in Keys, NEW count \in 0 .. MaxCount,
                 CommitRegistration(c, id, k, count)
          PROVE  Same(s) \/ BySession(s)
      <4>1. /\ id \in Ids /\ sessions[id] # NoSession /\ sessions[id].kind = "registration"
            /\ sessions[id].target \in Sids
        BY <1>1, <3>2, UsedSession DEF CommitRegistration
      <4>2. /\ last'.id = id /\ id \in proven /\ ~ Expired(id)
            /\ last'.caller \in {System, sessions[id].target}
        BY <1>1, <3>2, <4>1 DEF CommitRegistration, Usable, IInv, Proven
      <4>3. vault' = Registered(id, k)
        BY <3>2 DEF CommitRegistration, Store
      <4>4. CASE sessions[id].target # s
        <5>1. KeysOf(vault', s) = KeysOf(Refreshed, s) /\ vault'.enforced = Refreshed.enforced
          BY <1>1, <2>0, <4>1, <4>3, <4>4, RefreshedSound
             DEF Registered, KeysOf, Sound, Vaults
        <5>2. QED  BY <2>0, <5>1
      <4>5. QED  BY <4>2, <4>4
    <3>3. ASSUME NEW a \in signed, FinishRemove(c, id, a)
          PROVE  Same(s) \/ BySession(s)
      <4>1. /\ id \in Ids /\ sessions[id] # NoSession /\ sessions[id].kind = "removal"
            /\ sessions[id].target \in Sids
        BY <1>1, <3>3, UsedSession DEF FinishRemove
      <4>2. /\ last'.id = id /\ id \in proven /\ ~ Expired(id)
            /\ last'.caller \in {System, sessions[id].target}
        BY <1>1, <3>3, <4>1 DEF FinishRemove, Usable, IInv, Proven
      <4>3. vault' = Removed(sessions[id].target, sessions[id].key)
        BY <3>3 DEF FinishRemove, Store
      <4>4. CASE sessions[id].target # s
        <5>1. KeysOf(vault', s) = KeysOf(Refreshed, s) /\ vault'.enforced = Refreshed.enforced
          BY <1>1, <2>0, <4>1, <4>3, <4>4, RefreshedSound DEF Removed, KeysOf, Sound, Vaults
        <5>2. QED  BY <2>0, <5>1
      <4>5. QED  BY <4>2, <4>4
    <3>4. QED  BY <2>4, <3>1, <3>2, <3>3 DEF Completion
  <2>5. QED
    BY <1>1, <2>1, <2>2, <2>3, <2>4 DEF Next, Sign, DeleteAccount, Expire, Refused, Restart
<1>2. IInv /\ Next => \A s \in live :
        \/ KeysOf(vault', s) = KeysOf(vault, s)
             /\ (s \in vault'.enforced <=> s \in vault.enforced)
        \/ last'.caller = s /\ last'.proof = s
        \/ /\ last'.id \in proven /\ ~ Expired(last'.id)
           /\ sessions[last'.id].target = s /\ last'.caller \in {System, s}
  BY <1>1
<1>3. QED  BY <1>2, Inductive, PTL DEF Spec, OnlyTheOwnerChangesAccounts

\* A verified assertion moves one counter, and moves it forward.
LEMMA CounterStep ==
  ASSUME IInv, NEW c, NEW kind, NEW id \in 1 .. issued, NEW a \in signed,
         Usable(id, c, kind), Verified(id, a), NEW v, Store(v, Counted(id, a))
  PROVE  /\ \A p \in (Sids \X Keys) \cap vault'.keys : signCount'[p] >= signCount[p]
         /\ LET p == <<sessions[id].target, a.key>> IN
              p \in v.keys /\ signCount[p] # 0 => signCount'[p] > signCount[p]
<1> DEFINE q == <<sessions[id].target, a.key>>
<1>1. sessions[id].target \in Sids /\ a.key \in Keys /\ a.count \in Nat
  BY UsedSession, BrokerAssumption DEF IInv, WorldType, Assertions
<1>2. \A p \in Sids \X Keys : signCount[p] \in Nat
  BY BrokerAssumption DEF IInv, Counters
<1>3. signCount[q] = 0 \/ a.count > signCount[q]
  BY DEF Verified
<1>4. \A p \in Sids \X Keys : Counted(id, a)[p] = IF p = q THEN a.count ELSE signCount[p]
  BY <1>1 DEF Counted, IInv, Counters
<1>5. /\ vault' = v
      /\ \A p \in (Sids \X Keys) \cap v.keys : signCount'[p] = Counted(id, a)[p]
  BY DEF Store
<1>6. q \in Sids \X Keys
  BY <1>1
<1>7. \A p \in (Sids \X Keys) \cap v.keys : signCount'[p] >= signCount[p]
  BY <1>1, <1>2, <1>3, <1>4, <1>5
<1>8. q \in v.keys /\ signCount[q] # 0 => signCount'[q] > signCount[q]
  BY <1>1, <1>2, <1>3, <1>4, <1>5, <1>6
<1>9. QED  BY <1>5, <1>7, <1>8

\* A stored counter never falls while its credential stays, and each sign-in
\* with a counting key raises it (VerifyAuthenticatorData).
THEOREM CountersAlwaysAdvance == Spec => CountersAdvance
<1> DEFINE NoneFalls == \A p \in Refreshed.keys \cap vault'.keys : signCount'[p] >= signCount[p]
           SignInRaises == (last'.id # 0 /\ sessions[last'.id].kind = "authentication") =>
             LET p == <<sessions[last'.id].target, last'.key>> IN
               signCount[p] # 0 => signCount'[p] > signCount[p]
<1>1. ASSUME IInv, Next PROVE NoneFalls /\ SignInRaises
  <2>0. /\ signCount \in Counters /\ Refreshed.keys \subseteq Sids \X Keys
        /\ \A p \in Sids \X Keys : signCount[p] \in Nat
    BY <1>1, RefreshedSound, VaultFields, BrokerAssumption DEF IInv, Sound, Counters
  <2>1. ASSUME NEW v, Store(v, signCount) PROVE NoneFalls
    BY <2>0, <2>1 DEF Store
  <2>2. ASSUME last'.id = 0 PROVE SignInRaises
    BY <2>2
  <2>3. Nothing.id = 0
    BY DEF Nothing
  <2>4. ASSUME NEW c \in Callers, NEW s \in Sids, Request(c, s)
        PROVE  NoneFalls /\ SignInRaises
    <3>1. CASE \/ BeginAuth(c, s) \/ BeginTest(c, s) \/ BeginRegistration(c, s)
               \/ \E k \in Keys : BeginRemove(c, s, k)
      <4>1. Store(Refreshed, signCount) /\ last' = Nothing
        BY <3>1 DEF BeginAuth, BeginTest, BeginRegistration, BeginRemove, PutSession
      <4>2. QED  BY <2>1, <2>2, <2>3, <4>1
    <3>2. ASSUME NEW k \in Keys, RemoveWithPassword(c, s, k)
          PROVE  NoneFalls /\ SignInRaises
      <4>1. Store(Removed(s, k), signCount) /\ last'.id = 0
        BY <3>2 DEF RemoveWithPassword
      <4>2. QED  BY <2>1, <2>2, <4>1
    <3>3. ASSUME NEW on \in BOOLEAN, SetEnforcement(c, s, on)
          PROVE  NoneFalls /\ SignInRaises
      <4>1. Store(Enforce(s, on), signCount) /\ last'.id = 0
        BY <3>3 DEF SetEnforcement
      <4>2. QED  BY <2>1, <2>2, <4>1
    <3>4. QED  BY <2>4, <3>1, <3>2, <3>3 DEF Request
  <2>5. ASSUME NEW c \in Callers, NEW id \in 1 .. issued, Completion(c, id)
        PROVE  NoneFalls /\ SignInRaises
    <3>1. ASSUME NEW k \in Keys, NEW count \in 0 .. MaxCount,
                 CommitRegistration(c, id, k, count)
          PROVE  NoneFalls /\ SignInRaises
      <4> DEFINE counts == [signCount EXCEPT ![<<sessions[id].target, k>>] = count]
      <4>1. /\ sessions[id].target \in Sids /\ sessions[id].kind = "registration"
            /\ last'.id = id
        BY <1>1, <3>1, UsedSession DEF CommitRegistration
      <4>2. <<sessions[id].target, k>> \notin Refreshed.keys
        BY <3>1, <4>1 DEF CommitRegistration, NewCredential, KeysOf
      <4>3. \A p \in Refreshed.keys : counts[p] = signCount[p]
        BY <2>0, <4>2 DEF Counters
      <4>4. Store(Registered(id, k), counts)
        BY <3>1 DEF CommitRegistration
      <4>5. NoneFalls
        BY <2>0, <4>3, <4>4 DEF Store
      <4>6. SignInRaises
        BY <4>1
      <4>7. QED  BY <4>5, <4>6
    <3>2. ASSUME NEW a \in signed, FinishAuth(c, id, a)
          PROVE  NoneFalls /\ SignInRaises
      <4>1. /\ last'.id = id /\ last'.key = a.key
            /\ Usable(id, c, "authentication") /\ Verified(id, a)
            /\ Store(Refreshed, Counted(id, a))
        BY <3>2 DEF FinishAuth
      <4>2. <<sessions[id].target, a.key>> \in Refreshed.keys
        BY <4>1 DEF Verified, KeysOf
      <4>3. NoneFalls
        BY <1>1, <2>0, <4>1, CounterStep
      <4>4. SignInRaises
        BY <1>1, <4>1, <4>2, CounterStep
      <4>5. QED  BY <4>3, <4>4
    <3>3. ASSUME NEW a \in signed, FinishRemove(c, id, a)
          PROVE  NoneFalls /\ SignInRaises
      <4>1. /\ last'.id = id /\ sessions[id].kind = "removal"
            /\ Usable(id, c, "removal") /\ Verified(id, a)
            /\ \E v : Store(v, Counted(id, a))
        BY <3>3 DEF FinishRemove, Usable
      <4>2. NoneFalls
        BY <1>1, <2>0, <4>1, CounterStep
      <4>3. SignInRaises
        BY <4>1
      <4>4. QED  BY <4>2, <4>3
    <3>4. ASSUME NEW a \in signed, FinishRemoveHalfDone(c, id, a)
          PROVE  NoneFalls /\ SignInRaises
      <4>1. /\ last' = Nothing /\ Usable(id, c, "removal") /\ Verified(id, a)
            /\ Store(Refreshed, Counted(id, a))
        BY <3>4 DEF FinishRemoveHalfDone
      <4>2. NoneFalls
        BY <1>1, <2>0, <4>1, CounterStep
      <4>3. QED  BY <2>2, <2>3, <4>1, <4>2
    <3>5. ASSUME NEW kind \in Kinds, Wasted(id, c, kind)
          PROVE  NoneFalls /\ SignInRaises
      <4>1. Store(Refreshed, signCount) /\ last' = Nothing
        BY <3>5 DEF Wasted
      <4>2. QED  BY <2>1, <2>2, <2>3, <4>1
    <3>6. QED  BY <2>5, <3>1, <3>2, <3>3, <3>4, <3>5 DEF Completion
  <2>6. CASE Refused \/ Restart
    <3>1. Store(Refreshed, signCount) /\ last' = Nothing
      BY <2>6 DEF Refused, Restart
    <3>2. QED  BY <2>1, <2>2, <2>3, <3>1
  <2>7. CASE \/ \E k \in Keys, id \in Ids : Sign(k, id)
             \/ \E s \in Sids : DeleteAccount(s)
             \/ Expire
    <3>1. UNCHANGED signCount /\ last' = Nothing
      BY <2>7 DEF Sign, DeleteAccount, Expire
    <3>2. NoneFalls
      BY <2>0, <3>1
    <3>3. QED  BY <2>2, <2>3, <3>1, <3>2
  <2>8. QED
    BY <1>1, <2>4, <2>5, <2>6, <2>7 DEF Next
<1>2. QED  BY <1>1, Inductive, PTL DEF Spec, CountersAdvance

-----------------------------------------------------------------------------
(* What the Broker takes the store at its word for.                         *)

\* A call's promise about the vault, when the Broker's vault is the durable one.
Promise == INSTANCE AtomicVault WITH
  durable <- vault, before <- vault, call <- StartupCall, phase <- "idle",
  outcome <- "none", faults <- 0

RefreshCall == [op |-> "refresh", sid |-> None, key |-> None]

\* The vault of the Broker changes as calls of the store change it: by a refresh
\* and, if the request asks for it, one more call.  (The counter that is saved
\* first in finish_auth and finish_remove is not in the vault of Vault.)
RequestsAreCalls ==
  [][vault' # vault =>
       /\ Promise!Effect(RefreshCall, vault, Refreshed)
       /\ \/ vault' = Refreshed
          \/ \E c \in Calls : Promise!Effect(c, Refreshed, vault')]_vars

\* RefreshLocalAccounts, as the Broker has it, is what the store promises of it.
LEMMA RefreshPromised ==
  ASSUME IInv
  PROVE  Promise!Effect(RefreshCall, vault, Refreshed)
<1>1. live \in SUBSET Sids /\ Sound(vault) /\ Sound(Refreshed)
  BY RefreshedSound DEF IInv, WorldType
<1>2. /\ Refreshed.machine = vault.machine
      /\ Refreshed.accounts = vault.accounts \cap live
      /\ Refreshed.enforced = vault.enforced \cap live
  BY <1>1 DEF Sound, Vaults, Refreshed, Keep
<1>3. ASSUME NEW s \in Sids
      PROVE  \/ Promise!SameAccount(vault, Refreshed, s)
             \/ /\ s \notin live \cup Refreshed.accounts \cup Refreshed.enforced
                /\ KeysOf(Refreshed, s) = {}
  <2>1. KeysOf(Refreshed, s) = IF s \in live THEN KeysOf(vault, s) ELSE {}
    BY RefreshedKeys
  <2>2. CASE s \in live
    BY <1>2, <2>1, <2>2 DEF Promise!SameAccount, Promise!KeysOf, KeysOf
  <2>3. CASE s \notin live
    BY <1>2, <2>1, <2>3
  <2>4. QED  BY <2>2, <2>3
<1>4. None \notin Refreshed.accounts
  BY <1>1, VaultFields, VaultAssumption DEF Sound
<1>5. Refreshed.enforced \subseteq {s \in Sids : KeysOf(Refreshed, s) # {}}
  BY <1>1, VaultFields DEF Sound
<1>6. QED
  BY <1>2, <1>3, <1>4, <1>5 DEF Promise!Effect, RefreshCall, Promise!KeysOf, KeysOf

\* The calls that change one account, from one sound vault to another.
LEMMA OneAccountPromised ==
  ASSUME NEW v, Sound(v), NEW w, Sound(w), NEW c \in Calls,
         c.op \notin {"startup", "refresh"}, w.machine = v.machine,
         \A s \in Sids \ {c.sid} : Promise!SameAccount(v, w, s),
         c.op # "register" /\ c.sid \in w.accounts => c.sid \in v.accounts,
         \/ /\ c.op = "register" /\ (c.sid \in v.enforced <=> c.sid \in w.enforced)
            /\ KeysOf(w, c.sid) = KeysOf(v, c.sid) \cup {c.key}
            /\ c.key \notin KeysOf(v, c.sid)
         \/ /\ c.op = "remove" /\ (c.sid \in v.enforced <=> c.sid \in w.enforced)
            /\ KeysOf(w, c.sid) = KeysOf(v, c.sid) \ {c.key}
         \/ /\ c.op \in {"enable", "disable"} /\ KeysOf(w, c.sid) = KeysOf(v, c.sid)
            /\ c.sid \in w.enforced <=> c.op = "enable"
  PROVE  Promise!Effect(c, v, w)
<1>1. w.enforced \subseteq {s \in Sids : KeysOf(w, s) # {}}
  BY VaultFields DEF Sound
<1>2. QED  BY <1>1 DEF Promise!Effect, Promise!KeysOf, KeysOf

\* commit_registration.
LEMMA RegisteredPromised ==
  ASSUME NEW v, Sound(v), NEW s \in Sids, NEW k \in Keys,
         \A t \in Sids : k \notin KeysOf(v, t),
         NEW w, w = [v EXCEPT !.accounts = @ \cup {s}, !.keys = @ \cup {<<s, k>>}]
  PROVE  \E c \in Calls : Promise!Effect(c, v, w)
<1> DEFINE c == [op |-> "register", sid |-> s, key |-> k]
<1>1. c \in Calls
  BY DEF Calls
<1>2. /\ w.machine = v.machine /\ w.accounts = v.accounts \cup {s} /\ w.enforced = v.enforced
      /\ w.keys = v.keys \cup {<<s, k>>}
  BY DEF Sound, Vaults
<1>3. \A t \in Sids : KeysOf(w, t) = IF t = s THEN KeysOf(v, s) \cup {k} ELSE KeysOf(v, t)
  BY <1>2 DEF KeysOf
<1>4. \A t \in Sids \ {s} : Promise!SameAccount(v, w, t)
  BY <1>2, <1>3 DEF Promise!SameAccount, Promise!KeysOf, KeysOf
<1>5. Sound(w)
  BY RegisteredSound
<1>6. c.op = "register" /\ c.sid = s /\ c.key = k
  OBVIOUS
<1> HIDE DEF c
<1>7. Promise!Effect(c, v, w)
  BY <1>1, <1>2, <1>3, <1>4, <1>5, <1>6, OneAccountPromised
<1>8. QED  BY <1>1, <1>7

\* RemoveCredential.
LEMMA RemovedPromised ==
  ASSUME NEW v, Sound(v), NEW s \in Sids, NEW k \in Keys,
         NEW w, w = [v EXCEPT !.keys = @ \ {<<s, k>>}], IsVaultValid(w)
  PROVE  \E c \in Calls : Promise!Effect(c, v, w)
<1> DEFINE c == [op |-> "remove", sid |-> s, key |-> k]
<1>1. c \in Calls
  BY DEF Calls
<1>2. /\ w.machine = v.machine /\ w.accounts = v.accounts /\ w.enforced = v.enforced
      /\ w.keys = v.keys \ {<<s, k>>}
  BY DEF Sound, Vaults
<1>3. \A t \in Sids : KeysOf(w, t) = IF t = s THEN KeysOf(v, s) \ {k} ELSE KeysOf(v, t)
  BY <1>2 DEF KeysOf
<1>4. \A t \in Sids \ {s} : Promise!SameAccount(v, w, t)
  BY <1>2, <1>3 DEF Promise!SameAccount, Promise!KeysOf, KeysOf
<1>5. Sound(w)
  BY RemovedSound
<1>6. c.op = "remove" /\ c.sid = s /\ c.key = k
  OBVIOUS
<1> HIDE DEF c
<1>7. Promise!Effect(c, v, w)
  BY <1>1, <1>2, <1>3, <1>4, <1>5, <1>6, OneAccountPromised
<1>8. QED  BY <1>1, <1>7

\* SetEnforcement.
LEMMA EnforcePromised ==
  ASSUME NEW v, Sound(v), NEW s \in v.accounts, NEW on \in BOOLEAN,
         on => KeysOf(v, s) # {},
         NEW w, w = [v EXCEPT !.enforced = IF on THEN @ \cup {s} ELSE @ \ {s}]
  PROVE  \E c \in Calls : Promise!Effect(c, v, w)
<1> DEFINE c == [op |-> IF on THEN "enable" ELSE "disable", sid |-> s, key |-> None]
<1>0. s \in Sids
  BY VaultFields DEF Sound
<1>1. c \in Calls
  BY <1>0 DEF Calls
<1>2. /\ w.machine = v.machine /\ w.accounts = v.accounts /\ w.keys = v.keys
      /\ w.enforced = IF on THEN v.enforced \cup {s} ELSE v.enforced \ {s}
  BY DEF Sound, Vaults
<1>3. \A t \in Sids : KeysOf(w, t) = KeysOf(v, t)
  BY <1>2 DEF KeysOf
<1>4. \A t \in Sids \ {s} : Promise!SameAccount(v, w, t)
  BY <1>2, <1>3 DEF Promise!SameAccount, Promise!KeysOf, KeysOf
<1>5. Sound(w)
  BY EnforceSound
<1>6. /\ c.op \in {"enable", "disable"} /\ c.sid = s
      /\ c.op = "enable" <=> on
  OBVIOUS
<1> HIDE DEF c
<1>7. /\ c.op \notin {"startup", "refresh"}
      /\ s \in w.enforced <=> c.op = "enable"
  BY <1>2, <1>6
<1>8. Promise!Effect(c, v, w)
  BY <1>0, <1>1, <1>2, <1>3, <1>4, <1>5, <1>6, <1>7, OneAccountPromised
<1>9. QED  BY <1>1, <1>8

\* Every change of the vault that a request of the Broker makes is one that the
\* store promises of its calls (BrokerService.cpp, Handle).
THEOREM RequestsUseTheStore == Spec => RequestsAreCalls
<1> DEFINE Called == vault' = Refreshed \/ \E c \in Calls : Promise!Effect(c, Refreshed, vault')
<1>1. ASSUME IInv, Next, vault' # vault PROVE Called
  <2>0. Sound(Refreshed)
    BY <1>1, RefreshedSound
  <2>1. CASE \/ \E k \in Keys, id \in Ids : Sign(k, id)
             \/ \E s \in Sids : DeleteAccount(s)
             \/ Refused \/ Expire \/ Restart
    BY <1>1, <2>1 DEF Sign, DeleteAccount, Refused, Expire, Restart, Store
  <2>2. ASSUME NEW c \in Callers, NEW s \in Sids, Request(c, s) PROVE Called
    <3>1. CASE \/ BeginAuth(c, s) \/ BeginTest(c, s) \/ BeginRegistration(c, s)
               \/ \E k \in Keys : BeginRemove(c, s, k)
      BY <3>1 DEF BeginAuth, BeginTest, BeginRegistration, BeginRemove, PutSession, Store
    <3>2. ASSUME NEW k \in Keys, RemoveWithPassword(c, s, k) PROVE Called
      <4>1. vault' = Removed(s, k) /\ IsVaultValid(Removed(s, k))
        BY <3>2 DEF RemoveWithPassword, RemoveCredential, Store
      <4>2. QED  BY <2>0, <4>1, RemovedPromised DEF Removed
    <3>3. ASSUME NEW on \in BOOLEAN, SetEnforcement(c, s, on) PROVE Called
      <4>1. /\ vault' = Enforce(s, on) /\ s \in Refreshed.accounts
            /\ on => KeysOf(Refreshed, s) # {}
        BY <3>3 DEF SetEnforcement, Store
      <4>2. QED  BY <2>0, <4>1, EnforcePromised DEF Enforce
    <3>4. QED  BY <2>2, <3>1, <3>2, <3>3 DEF Request
  <2>3. ASSUME NEW c \in Callers, NEW id \in 1 .. issued, Completion(c, id) PROVE Called
    <3>1. ASSUME NEW k \in Keys, NEW count \in 0 .. MaxCount,
                 CommitRegistration(c, id, k, count)
          PROVE  Called
      <4>1. /\ vault' = Registered(id, k) /\ sessions[id].target \in Sids
            /\ \A t \in Sids : k \notin KeysOf(Refreshed, t)
        BY <1>1, <3>1, UsedSession DEF CommitRegistration, NewCredential, Store
      <4>2. QED  BY <2>0, <4>1, RegisteredPromised DEF Registered
    <3>2. ASSUME NEW a \in signed, FinishRemove(c, id, a) PROVE Called
      <4>1. /\ sessions[id].target \in Sids
            /\ vault' = Removed(sessions[id].target, sessions[id].key)
            /\ IsVaultValid(Removed(sessions[id].target, sessions[id].key))
            /\ sessions[id].key \in Keys
        BY <1>1, <3>2, UsedSession
           DEF FinishRemove, RemoveCredential, Removable, KeysOf, Store
      <4>2. QED  BY <2>0, <4>1, RemovedPromised DEF Removed
    <3>3. CASE \/ \E a \in signed : FinishAuth(c, id, a) \/ FinishRemoveHalfDone(c, id, a)
               \/ \E kind \in Kinds : Wasted(id, c, kind)
      BY <3>3 DEF FinishAuth, FinishRemoveHalfDone, Wasted, Store
    <3>4. QED  BY <2>3, <3>1, <3>2, <3>3 DEF Completion
  <2>4. QED  BY <1>1, <2>1, <2>2, <2>3 DEF Next
<1>2. ASSUME IInv, [Next]_vars
      PROVE  vault' # vault => Promise!Effect(RefreshCall, vault, Refreshed) /\ Called
  BY <1>1, <1>2, RefreshPromised DEF vars
<1>3. QED  BY <1>2, Inductive, PTL DEF Spec, RequestsAreCalls
===============================================================================
