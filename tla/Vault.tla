-------------------------------- MODULE Vault --------------------------------
(***************************************************************************)
(* The credential vault (LocalFidoTypes.h) and the calls made on it.       *)
(***************************************************************************)
EXTENDS Naturals, FiniteSets

CONSTANTS Sids, Keys,          \* local accounts, FIDO2 credentials
          Machines,            \* values GenerateHexId can return
          MaxAccounts,         \* 1024 in IsVaultValid
          MaxKeysPerAccount,   \* 64 in IsVaultValid and the Broker
          NoVault, None        \* "no value" of a vault and of an argument

\* A vault.  The username of an account and the public key, label and
\* counter of a credential are left out: no decision of the store reads them
\* (a changed username is a free choice in RefreshLocalAccounts).
Vaults == [machine : Machines, accounts : SUBSET Sids,
           enforced : SUBSET Sids, keys : SUBSET (Sids \X Keys)]

KeysOf(v, s) == {k \in Keys : <<s, k>> \in v.keys}

\* IsVaultValid.  Unique SIDs and unique credentials within an account hold by
\* the shape of Vaults.
IsVaultValid(v) ==
  /\ Cardinality(v.accounts) <= MaxAccounts
  /\ \A s \in v.accounts :
        /\ Cardinality(KeysOf(v, s)) <= MaxKeysPerAccount
        /\ s \in v.enforced => KeysOf(v, s) # {}

EmptyVault(m) == [machine |-> m, accounts |-> {}, enforced |-> {}, keys |-> {}]

\* Erasing the accounts that are not in S.
Keep(v, S) == [v EXCEPT !.accounts = @ \cap S, !.enforced = @ \cap S,
                        !.keys = @ \cap (S \X Keys)]

Enforcing(v) == IF v = NoVault THEN {} ELSE v.enforced

\* "startup" is the RefreshLocalAccounts of BrokerService::Run, "refresh" the
\* one that precedes a request; "upsert" the counter update after an
\* assertion; "register" the append in commit_registration.
StartupCall == [op |-> "startup", sid |-> None, key |-> None]
Calls == [op : {"startup", "refresh"}, sid : {None}, key : {None}]
           \cup [op : {"upsert", "enable", "disable"}, sid : Sids, key : {None}]
           \cup [op : {"register", "remove"}, sid : Sids, key : Keys]

ASSUME VaultAssumption ==
  /\ MaxAccounts \in Nat /\ MaxKeysPerAccount \in Nat
  /\ NoVault \notin Vaults
  /\ None \notin Sids /\ None \notin Keys

=============================================================================
