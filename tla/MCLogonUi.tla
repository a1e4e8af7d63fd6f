------------------------------ MODULE MCLogonUi ------------------------------
(* TLC instances of LogonUI.                                                *)
EXTENDS LogonUi, TLC

CONSTANT s1

User(s) == [local |-> TRUE, sid |-> s]
Foreign(s) == [local |-> FALSE, sid |-> s]

\* An entry of another provider, one without SID and a user listed twice, with
\* the tile for another user; or just the user.
Arrays ==
  {[entries |-> <<Foreign(s1), User(NoSid), User(s1), User(s1)>>, other |-> TRUE],
   [entries |-> <<User(s1)>>, other |-> FALSE]}
=============================================================================
