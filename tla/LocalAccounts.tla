---------------------------- MODULE LocalAccounts ----------------------------
(***************************************************************************)
(* LocalAccount.cpp: which account of this computer a typed name means.    *)
(***************************************************************************)
CONSTANTS Users,  \* user names, as the SAM compares them
          NoSid   \* what a name that is nobody's resolves to

\* "domain\user"; at is a "@" in the user part.
Domains == {"none", "dot", "computer", "other"}
TypedNames == [domain : Domains, user : Users, at : BOOLEAN]

IsLocal(name) == name.domain # "other" /\ ~ name.at

\* What the SAM is asked for: the name without its domain.
Candidate(name) == IF IsLocal(name) THEN [name EXCEPT !.domain = "none"] ELSE name

\* ResolveLocalAccount; sam has the SID of every user name.
ResolveLocalAccount(sam, name) == IF IsLocal(name) THEN sam[name.user] ELSE NoSid

\* ResolveLocalSid: the user name of a SID.
ResolveLocalSid(sam, sid) == {user \in Users : sam[user] = sid}
=============================================================================
