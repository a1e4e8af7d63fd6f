--------------------------- MODULE CredentialProofs ---------------------------
(***************************************************************************)
(* Proofs about the sign-in tile, for any names, accounts and tiles.       *)
(***************************************************************************)
EXTENDS Credential, TLAPS

\* Where Connect can be, and what it has resolved by then.
ControlInv ==
  /\ pc # "idle" => chosen /\ ~ retired /\ mode # "change" /\ name # None
  /\ pc \in {"ask", "answered"} => sid # None /\ OwnAccount(sid)
  /\ pc \in {"sign", "finish"} => challenge # None
  /\ pc \in {"ask", "answered"} \/ challenge # None => name # None /\ Bare[name] = name
  /\ challenge # None => OwnAccount(challenge)
  /\ pc # "idle" => ~ connected

\* The Broker's answer that no key is asked for was true at some moment since.
AnswerInv ==
  /\ pc = "ask" /\ sid \notin enforced => "open" \in seen
  /\ answer = "open" => "open" \in seen

\* What the two flags of the tile stand for.  A name that was approved is the
\* resolved one, so resolving it again does not change it.
FlagsInv ==
  /\ mfaComplete => /\ approved.how # "none" /\ approved.name = name
                    /\ name # None /\ Bare[name] = name
                    /\ OwnAccount(approved.sid)
  /\ mode = "change" /\ changeAuthorized =>
       expired.how # "none" /\ expired.name = name

IInv == /\ TypeOK /\ ControlInv /\ AnswerInv /\ FlagsInv
        /\ PutAwayHoldsNothing /\ PinOnlyWhileAsked

\* The ways to reset keep the types.
LEMMA ResetType ==
  /\ NoApproval \in Approvals
  /\ TypeOK /\ FullReset => /\ held' \subseteq Secrets /\ sid' \in Sids \cup {None}
                           /\ mode' \in {"password", "fido", "change"}
                           /\ changeAuthorized' \in BOOLEAN
  /\ TypeOK /\ ResetMfa => /\ challenge' \in Sids \cup {None}
                          /\ selected' \in BOOLEAN /\ mfaComplete' \in BOOLEAN
                          /\ challenge' = None
BY DEF NoApproval, Approvals, TypeOK, FullReset, ResetMfa

\* The user name of a tile exists.
LEMMA InitInv == Init => IInv
<1> SUFFICES ASSUME Init PROVE IInv
  OBVIOUS
<1>1. name \in Names \cup {None}
  <2>1. CASE bound = None
    BY <2>1 DEF Init
  <2>2. CASE bound # None
    <3>1. PICK n \in Names : owner[n] = bound
      BY <2>2 DEF Init
    <3>2. Bare[n] \in Names /\ owner[Bare[n]] = bound /\ Bare[Bare[n]] = Bare[n]
      BY <3>1, CredentialAssumption DEF Init
    <3>3. QED  BY <2>2, <3>2 DEF Init
  <2>3. QED  BY <2>1, <2>2
<1>2. TypeOK
  BY <1>1, CredentialAssumption DEF Init, TypeOK, Approvals, NoApproval
<1>3. ControlInv /\ AnswerInv /\ FlagsInv /\ PutAwayHoldsNothing /\ PinOnlyWhileAsked
  BY DEF Init, ControlInv, AnswerInv, FlagsInv, PutAwayHoldsNothing, PinOnlyWhileAsked
<1>4. QED  BY <1>2, <1>3 DEF IInv

\* A name that is resolved is a name, and resolving it again changes nothing.
LEMMA BareName ==
  ASSUME NEW n \in Names
  PROVE  Bare[n] \in Names /\ Bare[n] # None /\ Bare[Bare[n]] = Bare[n]
BY CredentialAssumption

\* The world's own steps.
LEMMA WorldInv ==
  ASSUME IInv, ChangeAccounts \/ \E s \in Sids : SetEnforcement(s)
  PROVE  IInv'
<1>1. CASE ChangeAccounts
  <2>1. TypeOK'
    BY <1>1 DEF IInv, TypeOK, ChangeAccounts, input, ceremony
  <2>2. QED
    BY <1>1, <2>1 DEF IInv, ChangeAccounts, input, ceremony, ControlInv, AnswerInv,
         FlagsInv, PutAwayHoldsNothing, PinOnlyWhileAsked, OwnAccount
<1>2. ASSUME NEW s \in Sids, SetEnforcement(s) PROVE IInv'
  <2>1. seen' \subseteq {"open", "unread"}
    BY <1>2 DEF IInv, TypeOK, SetEnforcement
  <2>2. enforced' \subseteq Sids
    BY <1>2 DEF IInv, TypeOK, SetEnforcement
  <2>3. TypeOK'
    BY <1>2, <2>1, <2>2 DEF IInv, TypeOK, SetEnforcement, input, ceremony
  <2>4. AnswerInv'
    BY <1>2 DEF IInv, SetEnforcement, AnswerInv
  <2>5. QED
    BY <1>2, <2>3, <2>4 DEF IInv, SetEnforcement, input, ceremony, ControlInv,
         FlagsInv, PutAwayHoldsNothing, PinOnlyWhileAsked, OwnAccount
<1>3. QED  BY <1>1, <1>2

\* Calls that put the tile away, or take it out.
LEMMA PutAwayInv ==
  ASSUME IInv, SetSelected \/ SetDeselected \/ Disconnect \/ Retire
  PROVE  IInv'
<1>1. CASE SetSelected
  BY <1>1 DEF IInv, SetSelected, input, ceremony, world, TypeOK, ControlInv, AnswerInv, FlagsInv,
       PutAwayHoldsNothing, PinOnlyWhileAsked, OwnAccount
<1>2. CASE SetDeselected \/ Disconnect \/ Retire
  <2>1. FullReset /\ ResetMfa /\ Void
    BY <1>2 DEF SetDeselected, Disconnect, Retire, FullReset
  <2>2. TypeOK'
    BY <1>2, <2>1, ResetType DEF IInv, TypeOK, SetDeselected, Disconnect, Retire, Void,
         Unconnected, world
  <2>3. AnswerInv'
    BY <1>2 DEF IInv, TypeOK, SetDeselected, Disconnect, Retire, Unconnected, AnswerInv
  <2>4. QED
    BY <1>2, <2>1, <2>2, <2>3 DEF IInv, SetDeselected, Disconnect, Retire, FullReset,
         ResetMfa, Unconnected, world, ControlInv, FlagsInv, PutAwayHoldsNothing,
         PinOnlyWhileAsked, OwnAccount
<1>3. QED  BY <1>1, <1>2

\* Typing.
LEMMA TypingInv ==
  ASSUME IInv, \/ \E n \in Names \cup {None} : TypeName(n)
               \/ \E entered \in BOOLEAN : TypeSecret(entered)
  PROVE  IInv'
<1>1. ASSUME NEW n \in Names \cup {None}, TypeName(n) PROVE IInv'
  <2>1. TypeOK'
    <3>1. CASE n # name
      <4>1. FullReset /\ ResetMfa /\ Void
        BY <1>1, <3>1 DEF TypeName, AnotherName, FullReset
      <4>2. QED
        BY <1>1, <4>1, ResetType DEF IInv, TypeOK, TypeName, Void, world
    <3>2. CASE n = name
      BY <1>1, <3>2 DEF IInv, TypeOK, TypeName, AnotherName, ceremony, world
    <3>3. QED  BY <3>1, <3>2
  <2>2. QED
    BY <1>1, <2>1 DEF IInv, TypeName, Accepts, Typing, AnotherName, FullReset, ResetMfa,
         Void, NoApproval, ceremony, world, ControlInv, AnswerInv, FlagsInv,
         PutAwayHoldsNothing, PinOnlyWhileAsked, OwnAccount
<1>2. ASSUME NEW entered \in BOOLEAN, TypeSecret(entered) PROVE IInv'
  <2>1. Asks[mode] \in Secrets /\ (Asks[mode] = "pin" <=> mode = "fido")
    BY DEF IInv, TypeOK, Asks, Secrets
  <2>2. TypeOK'
    BY <1>2, <2>1 DEF IInv, TypeOK, TypeSecret, ceremony, world
  <2>3. PinOnlyWhileAsked'
    BY <1>2, <2>1 DEF IInv, TypeSecret, Accepts, Typing, PinOnlyWhileAsked
  <2>4. QED
    BY <1>2, <2>2, <2>3 DEF IInv, TypeSecret, Accepts, Typing, ceremony, world,
         ControlInv, AnswerInv, FlagsInv, PutAwayHoldsNothing, OwnAccount
<1>3. QED  BY <1>1, <1>2

-----------------------------------------------------------------------------
(* Connect.                                                                 *)

\* What every step of Connect leaves alone.
Outside == UNCHANGED <<world, retired, chosen, submitted>>

\* A Connect that is cancelled.
LEMMA CancelledInv ==
  ASSUME IInv, Cancelled, Outside, UNCHANGED name
  PROVE  IInv'
<1>1. FullReset /\ ResetMfa
  BY DEF Cancelled, FullReset
<1>2. TypeOK'
  BY <1>1, ResetType DEF IInv, TypeOK, Cancelled, Return, ReturnSeen, Void, Outside, world
<1>3. QED
  BY <1>1, <1>2 DEF IInv, Cancelled, Return, ReturnSeen, FullReset, ResetMfa, Outside, world,
       ControlInv, AnswerInv, FlagsInv, PutAwayHoldsNothing, PinOnlyWhileAsked, OwnAccount

\* A Connect that fails and says so.
LEMMA FailInv ==
  ASSUME IInv, Fail, Outside, UNCHANGED name, pc # "finish"
  PROVE  IInv'
<1>1. TypeOK'
  BY DEF IInv, TypeOK, Fail, Return, ReturnSeen, Outside, world, ceremony
<1>2. QED
  BY <1>1 DEF IInv, Fail, Return, ReturnSeen, Outside, world, ceremony,
       ControlInv, AnswerInv, FlagsInv, PutAwayHoldsNothing, PinOnlyWhileAsked, OwnAccount

\* A Connect that starts the ceremony over.
LEMMA StartOverInv ==
  ASSUME IInv, StartOver, Outside, UNCHANGED name
  PROVE  IInv'
<1>1. TypeOK'
  BY ResetType DEF IInv, TypeOK, StartOver, Return, ReturnSeen, Outside, world
<1>2. QED
  BY <1>1 DEF IInv, StartOver, Return, ReturnSeen, ResetMfa, Outside, world,
       ControlInv, AnswerInv, FlagsInv, PutAwayHoldsNothing, PinOnlyWhileAsked, OwnAccount

\* Connect until the request or the signature.
LEMMA ConnectInv ==
  ASSUME IInv, Connect
  PROVE  IInv'
<1>0. Outside /\ pc = "idle" /\ answer = "none" /\ chosen /\ ~ retired /\ ~ connected
  BY DEF Connect, Outside, IInv, TypeOK
<1>1. CASE Cancelled /\ UNCHANGED name
  BY <1>0, <1>1, CancelledInv
<1>2. CASE /\ mode = "change" /\ Return(changeAuthorized)
           /\ UNCHANGED <<input, ceremony, mode, sid, changeAuthorized, approved,
                          expired>>
  <2>1. TypeOK'
    BY <1>0, <1>2 DEF IInv, TypeOK, Return, ReturnSeen, Outside, world, input, ceremony
  <2>2. QED
    BY <1>0, <1>2, <2>1 DEF IInv, Return, ReturnSeen, Outside, world, input, ceremony,
         ControlInv, AnswerInv, FlagsInv, PutAwayHoldsNothing, PinOnlyWhileAsked, OwnAccount
<1>3. CASE Fail /\ UNCHANGED name
  BY <1>0, <1>3, FailInv
<1>4. CASE /\ mode # "change" /\ name # None /\ challenge # None /\ Goto("sign")
           /\ UNCHANGED <<input, ceremony, mode, sid, answer, changeAuthorized,
                          approved, expired>>
  <2>1. TypeOK'
    BY <1>0, <1>4 DEF IInv, TypeOK, Goto, Outside, world, input, ceremony
  <2>2. QED
    BY <1>0, <1>4, <2>1 DEF IInv, Goto, Outside, world, input, ceremony,
         ControlInv, AnswerInv, FlagsInv, PutAwayHoldsNothing, PinOnlyWhileAsked, OwnAccount
<1>5. CASE Return(FALSE) /\ FullReset /\ Void /\ UNCHANGED name
  BY <1>0, <1>5, CancelledInv DEF Cancelled
<1>6. CASE /\ mode # "change" /\ name # None /\ challenge = None
           /\ owner[name] # None /\ OwnAccount(owner[name]) /\ Goto("ask")
           /\ name' = Bare[name] /\ sid' = owner[name]
           /\ UNCHANGED <<held, ceremony, mode, answer, changeAuthorized, approved,
                          expired>>
  <2>1. name \in Names /\ owner[name] \in Sids
    BY <1>6, CredentialAssumption DEF IInv, TypeOK
  <2>2. Bare[name] \in Names /\ Bare[name] # None /\ Bare[Bare[name]] = Bare[name]
    BY <2>1, BareName
  <2>3. TypeOK'
    BY <1>0, <1>6, <2>1, <2>2 DEF IInv, TypeOK, Goto, Outside, world, ceremony
  <2>4. ControlInv'
    BY <1>0, <1>6, <2>1, <2>2 DEF IInv, Goto, Outside, world, ceremony, ControlInv,
         OwnAccount
  <2>5. FlagsInv'
    BY <1>0, <1>6, <2>2 DEF IInv, Goto, Outside, world, ceremony, FlagsInv, OwnAccount
  <2>6. AnswerInv'
    <3>1. answer' = "none" /\ (sid' \notin enforced' => "open" \in seen')
      BY <1>0, <1>6 DEF Goto, Outside, world
    <3>2. QED  BY <3>1 DEF AnswerInv
  <2>7. QED
    BY <1>0, <1>6, <2>3, <2>4, <2>5, <2>6 DEF IInv, Goto, Outside, ceremony,
         PutAwayHoldsNothing, PinOnlyWhileAsked
<1>7. QED
  BY <1>0, <1>1, <1>2, <1>3, <1>4, <1>5, <1>6 DEF Connect

\* The Broker's answer.
LEMMA AskInv ==
  ASSUME IInv, BeginAuthentication
  PROVE  IInv'
<1>0. Outside /\ UNCHANGED name /\ pc = "ask"
  BY DEF BeginAuthentication, Outside
<1>1. CASE Fail
  BY <1>0, <1>1, FailInv
<1>2. CASE /\ Goto("answered") 
           /\ answer' = IF sid \in enforced THEN "challenge" ELSE "open"
           /\ UNCHANGED <<held, ceremony, mode, sid, changeAuthorized, approved,
                          expired>>
  <2>1. TypeOK'
    BY <1>0, <1>2 DEF IInv, TypeOK, Goto, Outside, world, ceremony
  <2>2. AnswerInv'
    BY <1>0, <1>2 DEF IInv, AnswerInv, Goto
  <2>3. QED
    BY <1>0, <1>2, <2>1, <2>2 DEF IInv, Goto, Outside, world, ceremony,
         ControlInv, FlagsInv, PutAwayHoldsNothing, PinOnlyWhileAsked, OwnAccount
<1>3. QED  BY <1>1, <1>2 DEF BeginAuthentication

\* A sign-in without a key.
LEMMA SignInOpenInv ==
  ASSUME IInv, SignInOpen
  PROVE  IInv'
<1>0. Outside /\ UNCHANGED name /\ pc = "answered"
  BY DEF SignInOpen, Outside
<1>1. CASE Cancelled
  BY <1>0, <1>1, CancelledInv
<1>2. CASE Fail
  BY <1>0, <1>2, FailInv
<1>3. ASSUME NEW readable \in BOOLEAN,
             ReturnSeen(TRUE, IF readable THEN {} ELSE {"unread"}),
             mfaComplete' = TRUE,
             approved' = [how |-> "open", name |-> name, sid |-> sid],
             expired' = NoApproval,
             UNCHANGED <<held, challenge, selected, mode, sid, changeAuthorized>>
      PROVE  IInv'
  <2>1. approved' \in Approvals /\ expired' \in Approvals
    BY <1>3, ResetType DEF IInv, TypeOK, Approvals
  <2>2. TypeOK'
    BY <1>0, <1>3, <2>1 DEF IInv, TypeOK, Return, ReturnSeen, Outside, world
  <2>3. approved'.how = "open" /\ approved'.name = name /\ approved'.sid = sid
    BY <1>3
  <2>4. QED
    BY <1>0, <1>3, <2>2, <2>3 DEF IInv, Return, ReturnSeen, Outside, world,
         ControlInv, AnswerInv, FlagsInv, PutAwayHoldsNothing, PinOnlyWhileAsked, OwnAccount
<1>4. QED  BY <1>1, <1>2, <1>3 DEF SignInOpen

\* The choice of a key.
LEMMA SelectDeviceInv ==
  ASSUME IInv, SelectDevice
  PROVE  IInv'
<1>0. Outside /\ UNCHANGED name /\ pc = "answered"
  BY DEF SelectDevice, Choosing, Outside
<1>1. CASE Cancelled
  BY <1>0, <1>1, CancelledInv
<1>2. CASE NoKeyFound
  <2>1. TypeOK'
    BY <1>0, <1>2, ResetType DEF NoKeyFound, IInv, TypeOK, Return, ReturnSeen, Outside, world
  <2>2. QED
    BY <1>0, <1>2, <2>1 DEF NoKeyFound, IInv, Return, ReturnSeen, ResetMfa, Outside, world,
         ControlInv, AnswerInv, FlagsInv, PutAwayHoldsNothing, PinOnlyWhileAsked, OwnAccount
<1>3. CASE StartOver
  BY <1>0, <1>3, StartOverInv
<1>4. CASE KeySelected
  <2>1. TypeOK'
    BY <1>0, <1>4 DEF KeySelected, IInv, TypeOK, Return, ReturnSeen, Goto, Outside, world
  <2>2. AnswerInv'
    BY <1>4 DEF KeySelected, Return, ReturnSeen, Goto, AnswerInv
  <2>3. \/ pc' = "idle" /\ mode' = "fido"
        \/ pc' = "sign" /\ UNCHANGED <<mode, connected>>
    BY <1>4 DEF KeySelected, Return, ReturnSeen, Goto
  <2>4. /\ challenge' = sid
        /\ UNCHANGED <<held, sid, mfaComplete, changeAuthorized, approved, expired>>
    BY <1>4 DEF KeySelected
  <2>5. QED
    BY <1>0, <2>1, <2>2, <2>3, <2>4 DEF IInv, Outside, world, ControlInv, FlagsInv,
         PutAwayHoldsNothing, PinOnlyWhileAsked, OwnAccount
<1>5. QED  BY <1>1, <1>2, <1>3, <1>4 DEF SelectDevice

\* The signature.
LEMMA SignInv ==
  ASSUME IInv, Sign
  PROVE  IInv'
<1>0. Outside /\ UNCHANGED name /\ pc = "sign"
  BY DEF Sign, Outside
<1>1. CASE Cancelled
  BY <1>0, <1>1, CancelledInv
<1>2. CASE StartOver
  BY <1>0, <1>2, StartOverInv
<1>3. CASE /\ Goto("finish") /\ held' = held \ {"pin"}
           /\ UNCHANGED <<ceremony, mode, sid, answer, changeAuthorized, approved,
                          expired>>
  <2>1. TypeOK'
    BY <1>0, <1>3 DEF IInv, TypeOK, Goto, Outside, world, ceremony
  <2>2. AnswerInv'
    BY <1>0, <1>3 DEF IInv, TypeOK, AnswerInv, Goto
  <2>3. QED
    BY <1>0, <1>3, <2>1, <2>2 DEF IInv, Goto, Outside, world, ceremony,
         ControlInv, FlagsInv, PutAwayHoldsNothing, PinOnlyWhileAsked, OwnAccount
<1>4. QED  BY <1>1, <1>2, <1>3 DEF Sign, PinUsed

\* The Broker's verdict.
LEMMA FinishInv ==
  ASSUME IInv, FinishAuthentication
  PROVE  IInv'
<1>0. Outside /\ UNCHANGED name /\ pc = "finish"
  BY DEF FinishAuthentication, Outside
<1>1. CASE Cancelled
  BY <1>0, <1>1, CancelledInv
<1>2. CASE StartOver
  BY <1>0, <1>2, StartOverInv
<1>3. CASE /\ Return(TRUE) /\ mfaComplete' = TRUE /\ challenge' = None
           /\ approved' = [how |-> "key", name |-> name, sid |-> challenge]
           /\ expired' = NoApproval
           /\ UNCHANGED <<held, selected, mode, sid, changeAuthorized>>
  <2>1. approved' \in Approvals /\ expired' \in Approvals
    BY <1>3, ResetType DEF IInv, TypeOK, Approvals
  <2>2. TypeOK'
    BY <1>0, <1>3, <2>1 DEF IInv, TypeOK, Return, ReturnSeen, Outside, world
  <2>3. approved'.how = "key" /\ approved'.name = name /\ approved'.sid = challenge
    BY <1>3
  <2>4. QED
    BY <1>0, <1>3, <2>2, <2>3 DEF IInv, Return, ReturnSeen, Outside, world,
         ControlInv, AnswerInv, FlagsInv, PutAwayHoldsNothing, PinOnlyWhileAsked, OwnAccount
<1>4. QED  BY <1>1, <1>2, <1>3 DEF FinishAuthentication

-----------------------------------------------------------------------------
(* GetSerialization, ReportResult, and the theorems.                        *)

\* Handing over changes nothing but what was handed over.
LEMMA SerializationInv ==
  ASSUME IInv, NothingPacked \/ PackLogon \/ PackPasswordChange
  PROVE  IInv'
<1>1. TypeOK'
  BY DEF IInv, TypeOK, NothingPacked, PackLogon, PackPasswordChange, input, ceremony,
       Unconnected, world
<1>2. AnswerInv'
  BY DEF IInv, TypeOK, NothingPacked, PackLogon, PackPasswordChange, Unconnected,
       input, ceremony, world, AnswerInv
<1>3. QED
  BY <1>1, <1>2 DEF IInv, NothingPacked, PackLogon, PackPasswordChange, input, ceremony,
       Unconnected, world, ControlInv, FlagsInv, PutAwayHoldsNothing, PinOnlyWhileAsked, OwnAccount

\* The result of a submission.
LEMMA ResultInv ==
  ASSUME IInv, ReportSuccess \/ ReportExpired \/ ReportFailure
  PROVE  IInv'
<1>1. CASE ReportSuccess \/ ReportFailure
  <2>1. TypeOK'
    BY <1>1, ResetType DEF IInv, TypeOK, ReportSuccess, ReportFailure, ResultOutside,
         Unconnected, Void, world
  <2>2. AnswerInv'
    BY <1>1 DEF IInv, TypeOK, ReportSuccess, ReportFailure, ResultOutside, Unconnected,
         world, AnswerInv
  <2>3. QED
    BY <1>1, <2>1, <2>2 DEF IInv, ReportSuccess, ReportFailure, ResultOutside, ResetMfa,
         Unconnected, world, ControlInv, FlagsInv, PutAwayHoldsNothing, PinOnlyWhileAsked, OwnAccount
<1>2. CASE ReportExpired
  <2>1. TypeOK'
    BY <1>2, ResetType DEF IInv, TypeOK, ReportExpired, ChangeAllowed, ResultOutside,
         Unconnected, world
  <2>2. AnswerInv'
    BY <1>2 DEF IInv, TypeOK, ReportExpired, ResultOutside, Unconnected, world, AnswerInv
  <2>3. QED
    BY <1>2, <2>1, <2>2 DEF IInv, ReportExpired, ChangeAllowed, ResultOutside, Unconnected, world,
         ControlInv, FlagsInv, PutAwayHoldsNothing, PinOnlyWhileAsked, OwnAccount
<1>3. QED  BY <1>1, <1>2

\* Every step of a tile.
LEMMA NextInv == IInv /\ [Next]_vars => IInv'
<1> SUFFICES ASSUME IInv, [Next]_vars PROVE IInv'
  OBVIOUS
<1>1. CASE Next
  BY <1>1, WorldInv, PutAwayInv, TypingInv, ConnectInv, AskInv, SignInOpenInv,
     SelectDeviceInv, SignInv, FinishInv, SerializationInv, ResultInv DEF Next, TileNext
<1>2. CASE UNCHANGED vars
  BY <1>2 DEF vars, input, ceremony, world, IInv, TypeOK, ControlInv, AnswerInv, FlagsInv,
       PutAwayHoldsNothing, PinOnlyWhileAsked, OwnAccount
<1>3. QED  BY <1>1, <1>2

\* The inductive invariant of a tile.
THEOREM Inductive == Spec => []IInv
BY InitInv, NextInv, PTL DEF Spec

\* The types of a tile's state, and which parts of a ceremony go together.
THEOREM TypeCorrect == Spec => []TypeOK
<1>1. IInv => TypeOK
  BY DEF IInv
<1>2. QED  BY <1>1, Inductive, PTL

\* A tile that was put away holds no secret and no part of a ceremony, whatever
\* LogonUI calls on it (FullReset, _retired).
THEOREM PutAwayAlwaysHoldsNothing == Spec => []PutAwayHoldsNothing
<1>1. IInv => PutAwayHoldsNothing
  BY DEF IInv
<1>2. QED  BY <1>1, Inductive, PTL

\* A PIN is held only while its field is shown and the key has not signed
\* (ClearPin).
THEOREM PinIsShortLived == Spec => []PinOnlyWhileAsked
<1>1. IInv => PinOnlyWhileAsked
  BY DEF IInv
<1>2. QED  BY <1>1, Inductive, PTL

\* Only PackLogon hands a sign-in over.
LEMMA LogonStep ==
  ASSUME IInv, [Next]_vars, submitted # "logon", submitted' = "logon"
  PROVE  PackLogon
BY DEF Next, TileNext, vars, SetSelected, SetDeselected, Disconnect, Retire, TypeName, TypeSecret,
  Connect, BeginAuthentication, SignInOpen, SelectDevice, NoKeyFound, KeySelected, Sign,
  FinishAuthentication,
  NothingPacked, PackPasswordChange, ResultOutside, ReportSuccess, ReportExpired,
  ReportFailure, ChangeAccounts, SetEnforcement

\* Only PackPasswordChange hands a password change over.
LEMMA ChangeStep ==
  ASSUME IInv, [Next]_vars, submitted # "change", submitted' = "change"
  PROVE  PackPasswordChange
BY DEF Next, TileNext, vars, SetSelected, SetDeselected, Disconnect, Retire, TypeName, TypeSecret,
  Connect, BeginAuthentication, SignInOpen, SelectDevice, NoKeyFound, KeySelected, Sign,
  FinishAuthentication,
  NothingPacked, PackLogon, ResultOutside, ReportSuccess, ReportExpired,
  ReportFailure, ChangeAccounts, SetEnforcement

\* A sign-in handed to Windows was approved for this user name, on a named tile
\* for its account, and nothing has voided that since (GetSerialization).
THEOREM LogonsAreApproved == Spec => LogonIsApproved
<1>1. ASSUME IInv, [Next]_vars, submitted # "logon", submitted' = "logon"
      PROVE  /\ approved.how # "none" /\ approved.name = name
             /\ OwnAccount(approved.sid)
  BY <1>1, LogonStep DEF PackLogon, IInv, FlagsInv
<1>2. QED  BY <1>1, Inductive, PTL DEF Spec, LogonIsApproved

\* A password change handed to Windows follows an approved sign-in of the same
\* user name that Windows answered with an expired password (PackPasswordChange).
THEOREM ChangesAreApproved == Spec => ChangeIsApproved
<1>1. ASSUME IInv, [Next]_vars, submitted # "change", submitted' = "change"
      PROVE  expired.how # "none" /\ expired.name = name
  BY <1>1, ChangeStep DEF PackPasswordChange, IInv, FlagsInv
<1>2. QED  BY <1>1, Inductive, PTL DEF Spec, ChangeIsApproved

\* A sign-in without a key is let through only if the account was not enforced at
\* some moment of that Connect, and is not at the moment the published policy is
\* read, unless it cannot be read (Connect, IsSidEnforced).
THEOREM OpenSignInsAreCurrent == Spec => OpenSignInIsCurrent
<1>1. ASSUME IInv, [Next]_vars, answer = "open", connected'
      PROVE  "open" \in seen /\ (sid \in enforced => "unread" \in seen')
  <2>1. pc = "answered" /\ ~ connected /\ "open" \in seen
    BY <1>1 DEF IInv, TypeOK, ControlInv, AnswerInv
  <2>2. SignInOpen
    BY <1>1, <2>1 DEF Next, TileNext, vars, SetSelected, SetDeselected, Disconnect,
      Retire, TypeName, TypeSecret, Accepts, Typing, Connect, BeginAuthentication,
      SelectDevice, Choosing, Sign, FinishAuthentication, NothingPacked, PackLogon,
      PackPasswordChange, ReportSuccess, ReportExpired, ReportFailure,
      ChangeAccounts, SetEnforcement
  <2>3. PICK readable \in BOOLEAN :
          /\ ~ PublishedAsEnforced(readable)
          /\ seen' = IF readable THEN {} ELSE {"unread"}
    BY <1>1, <2>2 DEF SignInOpen, Cancelled, Fail, Return, ReturnSeen
  <2>4. QED  BY <2>1, <2>3 DEF PublishedAsEnforced
<1>2. QED  BY <1>1, Inductive, PTL DEF Spec, OpenSignInIsCurrent

-----------------------------------------------------------------------------
(* The names of the tiles.                                                  *)

Accounts(users) == INSTANCE LocalAccounts WITH Users <- users, NoSid <- None

\* What is assumed of names and of the SAM holds of LocalAccount.cpp, for any
\* user names, typed names and contents of the SAM: asking for a name without
\* its domain asks for the same account, and does so at once.
THEOREM NamesAreAccounts ==
  ASSUME NEW users, NEW typed, typed \subseteq Accounts(users)!TypedNames,
         \A n \in typed : Accounts(users)!Candidate(n) \in typed,
         NEW sam \in [users -> Sids \cup {None}]
  PROVE  LET bare == [n \in typed |-> Accounts(users)!Candidate(n)]
             owned == [n \in typed |-> Accounts(users)!ResolveLocalAccount(sam, n)]
         IN /\ bare \in [typed -> typed] /\ \A n \in typed : bare[bare[n]] = bare[n]
            /\ owned \in [typed -> Sids \cup {None}]
            /\ \A n \in typed : owned[n] = owned[bare[n]]
<1> DEFINE bare == [n \in typed |-> Accounts(users)!Candidate(n)]
           owned == [n \in typed |-> Accounts(users)!ResolveLocalAccount(sam, n)]
<1>1. ASSUME NEW n \in typed
      PROVE  /\ Accounts(users)!Candidate(Accounts(users)!Candidate(n)) =
                  Accounts(users)!Candidate(n)
             /\ Accounts(users)!ResolveLocalAccount(sam, n) \in Sids \cup {None}
             /\ Accounts(users)!ResolveLocalAccount(sam, Accounts(users)!Candidate(n)) =
                  Accounts(users)!ResolveLocalAccount(sam, n)
  <2>1. n \in [domain : {"none", "dot", "computer", "other"}, user : users, at : BOOLEAN]
    BY DEF Accounts!TypedNames, Accounts!Domains
  <2>2. QED
    BY <2>1 DEF Accounts!Candidate, Accounts!IsLocal, Accounts!ResolveLocalAccount
<1>2. QED  BY <1>1
===============================================================================
