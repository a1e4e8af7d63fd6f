-------------------------- MODULE MCCredentialStore --------------------------
(* TLC instances of the credential store.                                   *)
EXTENDS CredentialStore

CONSTANTS s1, s2, k1, k2

\* Every call, with every argument.
AllRequests == Calls

\* Each account registers and removes a key of its own: two accounts can be
\* enforced at a time, and no key changes hands.
OwnKeyRequests ==
  {c \in Calls : c.op \in {"register", "remove"} =>
                    <<c.sid, c.key>> \in {<<s1, k1>>, <<s2, k2>>}}
=============================================================================
