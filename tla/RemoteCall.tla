------------------------------ MODULE RemoteCall ------------------------------
(***************************************************************************)
(* What a call of the Broker promises its caller, BrokerClient::Call.      *)
(*                                                                         *)
(* A call is handled at most once.  Success means that this very call was  *)
(* handled and accepted; after a failure it may have been handled or not,  *)
(* and may even be handled later, but not once a later call of the same    *)
(* caller has been.                                                        *)
(***************************************************************************)
EXTENDS Naturals

CONSTANTS Clients,
          MaxCalls   \* bound: calls of each client

VARIABLES calls,     \* how many calls each client began
          outcome,   \* of the last one
          accepted,  \* the calls handled with {"ok":true}
          handled    \* the calls handled

vars == <<calls, outcome, accepted, handled>>

Init ==
  /\ calls = [c \in Clients |-> 0] /\ outcome = [c \in Clients |-> "none"]
  /\ accepted = {} /\ handled = {}

Begin(c) ==
  /\ outcome[c] # "pending" /\ calls[c] < MaxCalls[c]
  /\ calls' = [calls EXCEPT ![c] = calls[c] + 1]
  /\ outcome' = [outcome EXCEPT ![c] = "pending"]
  /\ UNCHANGED <<accepted, handled>>

Handle(c, n) ==
  /\ n <= calls[c] /\ \A m \in n .. calls[c] : <<c, m>> \notin handled
  /\ handled' = handled \cup {<<c, n>>}
  /\ accepted' \in {accepted, accepted \cup {<<c, n>>}}
  /\ UNCHANGED <<calls, outcome>>

Succeed(c) ==
  /\ outcome[c] = "pending" /\ <<c, calls[c]>> \in accepted
  /\ outcome' = [outcome EXCEPT ![c] = "ok"]
  /\ UNCHANGED <<calls, accepted, handled>>

Fail(c) ==
  /\ outcome[c] = "pending"
  /\ outcome' = [outcome EXCEPT ![c] = "failed"]
  /\ UNCHANGED <<calls, accepted, handled>>

Next == \E c \in Clients :
          \/ Begin(c) \/ Succeed(c) \/ Fail(c)
          \/ \E n \in 1 .. MaxCalls[c] : Handle(c, n)

Spec == Init /\ [][Next]_vars
=============================================================================
