------------------------------- MODULE MCBroker -------------------------------
(* TLC instances of the Broker.                                             *)
EXTENDS Broker, TLC

\* No account is special to the Broker.
Accounts == Permutations(Sids)
=============================================================================
