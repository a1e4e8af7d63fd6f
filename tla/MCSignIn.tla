------------------------------ MODULE MCSignIn ------------------------------
(* TLC instances of the sign-in tile with its keys and its buffers.         *)
EXTENDS SignIn, TLC

CONSTANTS userA, userB, alice, bob

Accounts == INSTANCE LocalAccounts WITH Users <- {userA, userB}, NoSid <- None

Plain(u) == [domain |-> "none", user |-> u, at |-> FALSE]

\* "a", ".\a", "OTHER\a" and "b".
TypedNames ==
  {Plain(userA), [Plain(userA) EXCEPT !.domain = "dot"],
   [Plain(userA) EXCEPT !.domain = "other"], Plain(userB)}

BareName == [n \in TypedNames |-> Accounts!Candidate(n)]

\* Before and after alice is renamed to "b" and bob deleted.
Contents == {userA :> alice @@ userB :> bob, userA :> None @@ userB :> alice}
Sams == {[n \in TypedNames |-> Accounts!ResolveLocalAccount(sam, n)] : sam \in Contents}
TilesOfBoth == {alice, None}

\* Lengths on both sides of the limit, which is UShortMax / 2 characters.
TextLengths == {0, 3, 4}
=============================================================================
