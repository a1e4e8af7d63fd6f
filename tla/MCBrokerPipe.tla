----------------------------- MODULE MCBrokerPipe -----------------------------
(* TLC instances of the pipe and its clients.                               *)
EXTENDS BrokerPipe, TLC

CONSTANTS caller, other

\* One client calls again after a call that failed, another competes with it.
CallsOfEach == caller :> 2 @@ other :> 1
=============================================================================
