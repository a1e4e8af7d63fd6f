------------------------------ MODULE Credential ------------------------------
(***************************************************************************)
(* One sign-in tile, CCredential.cpp, between LogonUI and the Broker.      *)
(*                                                                         *)
(* LogonUI's calls on a tile come one after the other (the class is        *)
(* registered for an apartment).  Connect is the long one: it talks to the *)
(* Broker, waits for touches and asks LogonUI whether to go on, and the    *)
(* policy, the local accounts and the user's patience change meanwhile.  It*)
(* is split at its blocking calls; every other call is one step.           *)
(***************************************************************************)
EXTENDS Naturals, FiniteSets

CONSTANTS Names, Sids, None,
          Bare,     \* user name without ".\" or the computer's name before it
          Owners,   \* possible contents of the SAM: the SID of each bare name
          Bounds    \* SIDs of tiles; None is the anonymous tile "Other user"

ASSUME CredentialAssumption ==
  /\ None \notin Sids /\ None \notin Names
  /\ Bare \in [Names -> Names] /\ \A n \in Names : Bare[Bare[n]] = Bare[n]
  /\ Owners \subseteq {o \in [Names -> Sids \cup {None}] :
                   \A n \in Names : o[n] = o[Bare[n]]}
  /\ Bounds \subseteq Sids \cup {None}

VARIABLES
  owner, enforced,      \* the SAM; the accounts the Broker enforces
  bound,                \* _userSid
  mode,                 \* Configuration::mode
  name, held,           \* user name; which secrets are typed in
  sid,                  \* _sid, the account resolved by Connect
  challenge, selected,  \* _challenge (its account), _selectedDevice
  mfaComplete, changeAuthorized, retired,
  pc, answer,           \* where Connect is; the Broker's answer
  chosen,               \* LogonUI shows this tile as the selected one
  connected,            \* Connect returned S_OK and GetSerialization follows
  submitted,            \* what LogonUI was given and passed on to Windows
  approved, expired,    \* history: what the ceremony vouches for
  seen                  \* history: "open", sid was not enforced at some moment
                        \* since this Connect resolved it, dropped when a key is
                        \* asked for; "unread", the published policy could not
                        \* be read, kept as long as connected

input == <<name, held>>
ceremony == <<challenge, selected, mfaComplete>>
world == <<owner, enforced, bound>>
vars == <<world, input, ceremony, mode, sid, changeAuthorized, retired, pc, answer,
          chosen, connected, submitted, approved, expired, seen>>

Secrets == {"password", "pin", "new"}
NoApproval == [how |-> "none", name |-> None, sid |-> None]

Init ==
  /\ owner \in Owners /\ enforced = {}
  /\ bound \in {b \in Bounds : b = None \/ \E n \in Names : owner[n] = b}
  /\ name = IF bound = None THEN None ELSE CHOOSE n \in Names : owner[n] = bound
                                                               /\ Bare[n] = n
  /\ mode = "password" /\ held = {} /\ sid = None
  /\ challenge = None /\ selected = FALSE
  /\ mfaComplete = FALSE /\ changeAuthorized = FALSE /\ retired = FALSE
  /\ pc = "idle" /\ answer = "none"
  /\ chosen = FALSE /\ connected = FALSE /\ submitted = "none"
  /\ approved = NoApproval /\ expired = NoApproval /\ seen = {}

-----------------------------------------------------------------------------
(* The world.                                                               *)

\* An account switches its enforcement in another session.
SetEnforcement(s) ==
  /\ enforced' = (enforced \ {s}) \cup ({s} \ enforced)
  /\ seen' = IF (pc = "ask" \/ answer = "open") /\ sid \notin enforced'
               THEN seen \cup {"open"} ELSE seen
  /\ UNCHANGED <<owner, bound, input, ceremony, mode, sid, changeAuthorized, retired,
                 pc, answer, chosen, connected, submitted, approved, expired>>

\* Accounts are renamed, deleted or created.
ChangeAccounts ==
  /\ owner' \in Owners \ {owner}
  /\ UNCHANGED <<enforced, bound, input, ceremony, mode, sid, changeAuthorized,
                 retired, pc, answer, chosen, connected, submitted, approved, expired,
                 seen>>

-----------------------------------------------------------------------------
(* Resets.                                                                  *)

\* ResetMfa, up to ClearPin.
ResetMfa ==
  /\ mfaComplete' = FALSE /\ challenge' = None /\ selected' = FALSE

\* FullReset.  The user name stays.
FullReset ==
  /\ ResetMfa /\ changeAuthorized' = FALSE
  /\ held' = {} /\ sid' = None /\ mode' = "password"

\* A Connect that returned S_OK is used up, or LogonUI gives up on it.
Unconnected == connected' = FALSE /\ seen' = {}

\* What the ceremony vouched for is void from here on.
Void == approved' = NoApproval /\ expired' = NoApproval

-----------------------------------------------------------------------------
(* LogonUI's short calls.                                                   *)

SetSelected ==
  /\ pc = "idle" /\ ~ chosen /\ ~ retired /\ chosen' = TRUE
  /\ UNCHANGED <<world, input, ceremony, mode, sid, changeAuthorized, retired, pc,
                 answer, connected, submitted, approved, expired, seen>>

SetDeselected ==
  /\ pc = "idle" /\ chosen /\ chosen' = FALSE
  /\ FullReset /\ Void /\ Unconnected
  /\ UNCHANGED <<world, name, retired, pc, answer, submitted>>

Disconnect ==
  /\ pc = "idle"
  /\ FullReset /\ Void /\ Unconnected
  /\ UNCHANGED <<world, name, retired, pc, answer, chosen, submitted>>

\* The provider replaced its enumeration; LogonUI may keep the old tile.
Retire ==
  /\ pc = "idle" /\ ~ retired /\ retired' = TRUE
  /\ FullReset /\ Void /\ Unconnected
  /\ UNCHANGED <<world, name, pc, answer, chosen, submitted>>

Typing == pc = "idle" /\ chosen /\ ~ connected

RetiredIgnored == Typing  \* mutant: a retired tile accepts input

Accepts == Typing /\ ~ retired

NameAlone(n) ==  \* mutant: only the name changes
  UNCHANGED <<held, mode, ceremony, sid, changeAuthorized>>

\* SetStringValue for the user name of the anonymous tile; None is the empty one.
AnotherName(n) ==
  IF n # name THEN FullReset
              ELSE UNCHANGED <<held, mode, ceremony, sid, changeAuthorized>>

TypeName(n) ==
  /\ Accepts /\ mode = "password" /\ bound = None
  /\ AnotherName(n) /\ name' = n
  /\ IF n # name THEN Void ELSE UNCHANGED <<approved, expired>>
  /\ UNCHANGED <<world, retired, pc, answer, chosen, connected, submitted, seen>>

\* The password field of the mode.  "new" stands for two equal new passwords;
\* unequal ones are as good as none.
Asks == [password |-> "password", fido |-> "pin", change |-> "new"]

TypeSecret(entered) ==
  /\ Accepts
  /\ held' = IF entered THEN held \cup {Asks[mode]} ELSE held \ {Asks[mode]}
  /\ UNCHANGED <<world, name, ceremony, mode, sid, changeAuthorized, retired, pc,
                 answer, chosen, connected, submitted, approved, expired, seen>>

-----------------------------------------------------------------------------
(* Connect.                                                                 *)

\* Connect returns S_OK or an error.
ReturnSeen(ok, what) ==
  pc' = "idle" /\ answer' = "none" /\ connected' = ok /\ seen' = what

Return(ok) == ReturnSeen(ok, {})

\* Connect goes on to its next blocking call.
Goto(label) ==
  /\ pc' = label /\ UNCHANGED connected
  /\ seen' = IF label = "ask" /\ sid' \notin enforced THEN {"open"}
             ELSE IF label = "answered" /\ answer' = "open" THEN seen ELSE {}

\* LogonUI says stop, wherever Connect asks.
Cancelled == Return(FALSE) /\ FullReset /\ Void

\* A failure that starts the ceremony over.
StartOver ==
  /\ Return(FALSE) /\ ResetMfa
  /\ held' = held \ {"pin"} /\ mode' = "password"
  /\ UNCHANGED <<sid, changeAuthorized, approved, expired>>

\* A failure that changes nothing but the status line.
Fail == /\ Return(FALSE)
        /\ UNCHANGED <<ceremony, held, mode, sid, changeAuthorized, approved, expired>>

OwnAccount(s) == bound = None \/ s = bound

\* Until the request to the Broker, or the signature of a pending challenge.
Connect ==
  /\ pc = "idle" /\ chosen /\ ~ retired /\ ~ connected /\ submitted = "none"
  /\ UNCHANGED <<world, retired, chosen, submitted>>
  /\ \/ Cancelled /\ UNCHANGED name
     \/ /\ mode = "change"
        /\ Return(changeAuthorized)
        /\ UNCHANGED <<input, ceremony, mode, sid, changeAuthorized, approved, expired>>
     \/ /\ mode # "change" /\ (name = None \/ "password" \notin held)
        /\ Fail /\ UNCHANGED name
     \/ /\ mode # "change" /\ name # None /\ "password" \in held
        /\ IF challenge # None
             THEN /\ Goto("sign")
                  /\ UNCHANGED <<input, ceremony, mode, sid, answer, changeAuthorized,
                                 approved, expired>>
           ELSE IF owner[name] = None THEN Fail /\ UNCHANGED name
           ELSE IF ~ OwnAccount(owner[name])
             THEN Return(FALSE) /\ FullReset /\ Void /\ UNCHANGED name
           ELSE /\ name' = Bare[name] /\ sid' = owner[name]
                /\ Goto("ask")
                /\ UNCHANGED <<held, ceremony, mode, answer, changeAuthorized,
                               approved, expired>>

\* BeginAuthentication.  Any failure of the Broker is a failure of Connect.
BeginAuthentication ==
  /\ pc = "ask"
  /\ UNCHANGED <<world, name, retired, chosen, submitted>>
  /\ \/ Fail
     \/ /\ answer' = IF sid \in enforced THEN "challenge" ELSE "open"
        /\ Goto("answered")
        /\ UNCHANGED <<held, ceremony, mode, sid, changeAuthorized, approved, expired>>

BrokerTrusted(readable) == FALSE  \* mutant: the registry is not consulted

\* IsSidEnforced: the published policy, read after the Broker's answer.  A value
\* that cannot be read names nobody.
PublishedAsEnforced(readable) == readable /\ sid \in enforced

\* The account has no key to ask for.
SignInOpen ==
  /\ pc = "answered" /\ answer = "open"
  /\ UNCHANGED <<world, name, retired, chosen, submitted>>
  /\ \/ Cancelled
     \/ \E readable \in BOOLEAN :
          \/ PublishedAsEnforced(readable) /\ Fail
          \/ /\ ~ PublishedAsEnforced(readable)
             /\ ReturnSeen(TRUE, IF readable THEN {} ELSE {"unread"})
             /\ mfaComplete' = TRUE
             /\ approved' = [how |-> "open", name |-> name, sid |-> sid]
             /\ expired' = NoApproval
             /\ UNCHANGED <<held, challenge, selected, mode, sid, changeAuthorized>>

Choosing == pc = "answered" /\ answer = "challenge"

\* GetDevices finds no key.
NoKeyFound ==
  /\ Return(FALSE) /\ ResetMfa /\ held' = held \ {"pin"}
  /\ UNCHANGED <<mode, sid, changeAuthorized, approved, expired>>

\* A key with a PIN shows the PIN field first.
KeySelected ==
  /\ challenge' = sid /\ selected' = TRUE
  /\ \/ Return(TRUE) /\ mode' = "fido"
     \/ Goto("sign") /\ answer' = "none" /\ UNCHANGED mode
  /\ UNCHANGED <<held, sid, mfaComplete, changeAuthorized, approved, expired>>

\* Find the keys, have one selected by touch if there are several, and ask for
\* its PIN if it has one.  StartOver if none is touched.
SelectDevice ==
  /\ Choosing
  /\ UNCHANGED <<world, name, retired, chosen, submitted>>
  /\ Cancelled \/ NoKeyFound \/ StartOver \/ KeySelected

PinKept == held  \* mutant: the PIN stays for the next attempt

PinUsed == held \ {"pin"}

\* The key signs the challenge, and the PIN is forgotten.
Sign ==
  /\ pc = "sign"
  /\ UNCHANGED <<world, name, retired, chosen, submitted>>
  /\ \/ ~ selected /\ StartOver
     \/ selected /\ (Cancelled \/ StartOver)
     \/ /\ selected /\ Goto("finish") /\ held' = PinUsed
        /\ UNCHANGED <<ceremony, mode, sid, answer, changeAuthorized, approved, expired>>

\* FinishAuthentication, and a last chance to cancel.
FinishAuthentication ==
  /\ pc = "finish"
  /\ UNCHANGED <<world, name, retired, chosen, submitted>>
  /\ \/ StartOver
     \/ Cancelled
     \/ /\ Return(TRUE) /\ mfaComplete' = TRUE /\ challenge' = None
        /\ approved' = [how |-> "key", name |-> name, sid |-> challenge]
        /\ expired' = NoApproval
        /\ UNCHANGED <<held, selected, mode, sid, changeAuthorized>>

-----------------------------------------------------------------------------
(* GetSerialization and ReportResult.                                       *)

\* A call that finds nothing to hand over, or fails to pack it.
NothingPacked ==
  /\ pc = "idle" /\ chosen /\ submitted = "none" /\ Unconnected
  /\ UNCHANGED <<world, input, ceremony, mode, sid, changeAuthorized, retired, pc,
                 answer, chosen, submitted, approved, expired>>

PackLogon ==
  /\ pc = "idle" /\ chosen /\ submitted = "none"
  /\ ~ retired /\ mode # "change" /\ mfaComplete
  /\ submitted' = "logon" /\ Unconnected
  /\ UNCHANGED <<world, input, ceremony, mode, sid, changeAuthorized, retired, pc,
                 answer, chosen, approved, expired>>

PackPasswordChange ==
  /\ pc = "idle" /\ chosen /\ submitted = "none"
  /\ ~ retired /\ mode = "change" /\ changeAuthorized /\ "new" \in held
  /\ submitted' = "change" /\ Unconnected
  /\ UNCHANGED <<world, input, ceremony, mode, sid, changeAuthorized, retired, pc,
                 answer, chosen, approved, expired>>

ResultOutside == UNCHANGED <<world, name, sid, retired, pc, answer, chosen>>
                   /\ submitted' = "none" /\ Unconnected

ReportSuccess ==
  /\ pc = "idle" /\ ResultOutside
  /\ ResetMfa /\ changeAuthorized' = FALSE /\ held' = {} /\ Void
  /\ UNCHANGED mode

OldChangeStands == changeAuthorized \/ mfaComplete  \* mutant

\* What an expired password leaves of the sign-in's authorization.
ChangeAllowed == mfaComplete

\* STATUS_PASSWORD_EXPIRED and STATUS_PASSWORD_MUST_CHANGE.
ReportExpired ==
  /\ pc = "idle" /\ ResultOutside
  /\ changeAuthorized' = ChangeAllowed /\ mfaComplete' = FALSE
  /\ mode' = "change" /\ held' = held \ {"pin"}
  /\ expired' = approved /\ approved' = NoApproval
  /\ UNCHANGED <<challenge, selected>>

\* Every other status.
ReportFailure ==
  /\ pc = "idle" /\ ResultOutside
  /\ ResetMfa /\ mode' = "password" /\ held' = {} /\ Void
  /\ UNCHANGED changeAuthorized

-----------------------------------------------------------------------------

\* Everything but the choice of a key.
TileNext ==
  \/ SetSelected \/ SetDeselected \/ Disconnect \/ Retire
  \/ \E n \in Names \cup {None} : TypeName(n)
  \/ \E entered \in BOOLEAN : TypeSecret(entered)
  \/ Connect \/ BeginAuthentication \/ SignInOpen \/ Sign
  \/ FinishAuthentication
  \/ NothingPacked \/ PackLogon \/ PackPasswordChange
  \/ ReportSuccess \/ ReportExpired \/ ReportFailure
  \/ ChangeAccounts \/ \E s \in Sids : SetEnforcement(s)

Next == TileNext \/ SelectDevice

Spec == Init /\ [][Next]_vars

-----------------------------------------------------------------------------
(* Properties.                                                              *)

Approvals == [how : {"none", "key", "open"}, name : Names \cup {None},
              sid : Sids \cup {None}]

TypeOK ==
  /\ owner \in Owners /\ enforced \subseteq Sids /\ bound \in Bounds
  /\ mode \in {"password", "fido", "change"}
  /\ name \in Names \cup {None} /\ held \subseteq Secrets
  /\ sid \in Sids \cup {None} /\ challenge \in Sids \cup {None}
  /\ selected \in BOOLEAN /\ mfaComplete \in BOOLEAN
  /\ changeAuthorized \in BOOLEAN /\ retired \in BOOLEAN
  /\ chosen \in BOOLEAN /\ connected \in BOOLEAN
  /\ pc \in {"idle", "ask", "answered", "sign", "finish"}
  /\ answer \in {"none", "open", "challenge"} /\ (answer # "none" <=> pc = "answered")
  /\ (challenge # None => selected)
  /\ submitted \in {"none", "logon", "change"}
  /\ approved \in Approvals /\ expired \in Approvals /\ seen \subseteq {"open", "unread"}

\* "Cancellation or switching users cannot serialize an earlier user's
\* credentials" (doc/test-plan.md): a sign-in handed to Windows was approved for
\* that user name, and on a named tile for that tile's account, and nothing has
\* voided the approval since: no deselection, disconnection, cancellation,
\* reported result, other user name, or new enumeration.
LogonIsApproved ==
  [][(submitted # "logon" /\ submitted' = "logon") =>
       /\ approved.how # "none" /\ approved.name = name
       /\ OwnAccount(approved.sid)]_vars

\* A password change handed to Windows follows a sign-in of that very user name
\* which was approved, and answered by Windows with an expired password, with
\* nothing voiding it in between: an expiry that answers an unapproved sign-in,
\* or the second expiry in a row, allows none.
ChangeIsApproved ==
  [][(submitted # "change" /\ submitted' = "change") =>
       expired.how # "none" /\ expired.name = name]_vars

\* "A transport or policy-read failure must never become password-only
\* authentication" (Connect): a sign-in without a key is let through only if the
\* account was not enforced at some moment of this very Connect, and, when the
\* registry could be read, is not enforced at the moment of that reading, also if
\* enforcement was enabled after the Broker's answer.  With an unreadable
\* registry (CCredential.cpp:340 takes it for "not enforced") the Broker's answer
\* stands alone, and enforcement enabled since then is missed.
OpenSignInIsCurrent ==
  [][(answer = "open" /\ connected') =>
       "open" \in seen /\ (sid \in enforced => "unread" \in seen')]_vars

\* A tile that was put away (deselected, or replaced by a new enumeration while
\* LogonUI still holds it) keeps no secret and no part of a ceremony, whatever
\* is called on it.
PutAwayHoldsNothing ==
  (~ chosen \/ retired) =>
    held = {} /\ challenge = None /\ ~ mfaComplete /\ ~ changeAuthorized

\* The security key's PIN is not kept longer than the request for it: with the
\* PIN field gone, or the signature made, there is no PIN.
PinOnlyWhileAsked ==
  (mode # "fido" \/ pc = "finish") => "pin" \notin held

\* "Only after success does the provider serialize the original password to
\* LSA" (doc/architecture.md): a Connect that returns to ask for the PIN is not
\* followed by a sign-in.
PinComesFirst ==
  [][(connected /\ challenge # None) => submitted' # "logon"]_vars

=============================================================================
