----------------------------- MODULE SignInProofs -----------------------------
(***************************************************************************)
(* Proofs about the choice of a key, for any number of keys, and about the *)
(* tile that waits for it: it remains the tile of Credential, so that what *)
(* is proved there is true of it.                                          *)
(***************************************************************************)
EXTENDS SignIn, CredentialProofs

\* Lit keys are pending, or one of their calls has failed; a key is not both.
TouchInv ==
  /\ TouchTypeOK
  /\ opened \subseteq 1 .. devices
  /\ pending \cap broken = {}
  /\ lit \subseteq pending \cup broken
  /\ stage = "over" => lit \subseteq broken
  /\ stage = "off" => pending = {} /\ broken = {}
  /\ stage = "begin" => \A k \in pending \cup broken : k < cursor
  /\ WinnerWasTouched

-----------------------------------------------------------------------------
(* The choice of a key.                                                     *)

LEMMA TouchInitInv == TouchInit => TouchInv
<1> SUFFICES ASSUME TouchInit PROVE TouchInv
  OBVIOUS
<1>1. TouchTypeOK
  <2>1. 0 \in 0 .. MaxDevices /\ 1 \in 1 .. MaxDevices + 1
    BY TouchAssumption
  <2>2. QED  BY <2>1 DEF TouchInit, TouchTypeOK
<1>2. QED  BY <1>1 DEF TouchInit, TouchInv, WinnerWasTouched

LEMMA TouchKept ==
  ASSUME TouchInv, UNCHANGED touchVars
  PROVE  TouchInv'
BY DEF TouchInv, TouchTypeOK, WinnerWasTouched, touchVars, turn, keys, outcome, Indices

LEMMA OpenStep ==
  ASSUME TouchInv, NEW n \in 2 .. MaxDevices, OpenDevices(n)
  PROVE  TouchInv'
BY TouchAssumption
   DEF TouchInv, TouchTypeOK, WinnerWasTouched, OpenDevices, keys, outcome, Indices

LEMMA CloseStep ==
  ASSUME CloseDevices
  PROVE  TouchInv'
<1>1. TouchTypeOK'
  <2>1. 0 \in 0 .. MaxDevices /\ 1 \in 1 .. MaxDevices + 1
    BY TouchAssumption
  <2>2. QED  BY <2>1 DEF CloseDevices, TouchTypeOK
<1>2. QED  BY <1>1 DEF CloseDevices, TouchInv, WinnerWasTouched

\* SelectByTouch, its loops and its returns.
LEMMA SelectionStep ==
  ASSUME TouchInv, SelectByTouch
  PROVE  TouchInv'
<1> USE TouchAssumption DEF TouchInv, TouchTypeOK, WinnerWasTouched, Indices, keys, outcome
<1>1. CASE TouchBegin
  <2>1. /\ cursor' = cursor + 1 /\ cursor <= devices /\ stage = "begin"
        /\ UNCHANGED <<stage, devices, opened, touched, late, winner, status>>
    BY <1>1 DEF TouchBegin, NextKey
  <2>2. CASE UNCHANGED <<pending, lit, broken>>
    BY <2>1, <2>2
  <2>3. CASE /\ cursor \in opened /\ pending' = pending \cup {cursor}
             /\ lit' = lit \cup {cursor} /\ UNCHANGED broken
    BY <2>1, <2>3
  <2>4. CASE /\ cursor \in opened /\ broken' = broken \cup {cursor} /\ UNCHANGED pending
             /\ lit' \in {lit, lit \cup {cursor}}
    BY <2>1, <2>4
  <2>5. QED  BY <1>1, <2>2, <2>3, <2>4 DEF TouchBegin
<1>2. CASE BegunAll
  BY <1>2 DEF BegunAll, Over
<1>3. CASE BeginRound
  <2>1. /\ stage = "round"
        /\ UNCHANGED <<devices, opened, touched, broken, late, winner>>
    BY <1>3 DEF BeginRound
  <2>2. CASE /\ stage' = "over" /\ status' \in {"timeout", "cancelled"}
             /\ cursor' = cursor /\ CancelPending
    BY <2>1, <2>2 DEF CancelPending
  <2>3. CASE stage' = "poll" /\ cursor' = 1 /\ UNCHANGED <<pending, lit, status>>
    BY <2>1, <2>3
  <2>4. QED  BY <1>3, <2>2, <2>3 DEF BeginRound, Over
<1>4. CASE TouchStatus
  <2>1. /\ stage = "poll" /\ cursor <= devices
        /\ UNCHANGED <<devices, opened, touched, late>>
    BY <1>4 DEF TouchStatus
  <2>2. CASE /\ cursor' = cursor + 1 /\ UNCHANGED stage
             /\ UNCHANGED <<pending, lit, broken, winner, status>>
    BY <2>1, <2>2
  <2>3. CASE /\ cursor \in pending /\ broken' = broken \cup {cursor}
             /\ pending' = pending \ {cursor} /\ UNCHANGED <<lit, winner>>
             /\ \/ /\ pending' = {} /\ stage' = "over" /\ status' = "error"
                   /\ UNCHANGED cursor
                \/ cursor' = cursor + 1 /\ UNCHANGED <<stage, status>>
    BY <2>1, <2>3
  <2>4. CASE /\ cursor \in pending \cap touched /\ winner' = cursor
             /\ stage' = "over" /\ status' = "ok" /\ UNCHANGED <<cursor, broken>>
             /\ CancelPending
    BY <2>1, <2>4 DEF CancelPending
  <2>5. QED
    BY <1>4, <2>2, <2>3, <2>4 DEF TouchStatus, NextKey, Over, TouchEnds, IndexOf
<1>5. CASE EndRound
  BY <1>5 DEF EndRound
<1>6. QED  BY <1>1, <1>2, <1>3, <1>4, <1>5 DEF SelectByTouch

\* The user and the clock.
LEMMA WorldStep ==
  ASSUME TouchInv, (\E k \in Indices : Touch(k)) \/ Tick
  PROVE  TouchInv'
<1>1. CASE \E k \in Indices : Touch(k)
  BY <1>1 DEF TouchInv, TouchTypeOK, WinnerWasTouched, Touch, turn, outcome, Indices
<1>2. CASE Tick
  BY <1>2 DEF TouchInv, TouchTypeOK, WinnerWasTouched, Tick, turn, keys, outcome, Indices
<1>3. QED  BY <1>1, <1>2

\* Every step of the tile with its keys.
LEMMA TouchNext == TouchInv /\ [SignInNext]_signInVars => TouchInv'
<1> SUFFICES ASSUME TouchInv, [SignInNext]_signInVars PROVE TouchInv'
  OBVIOUS
<1>1. CASE FindDevices
  BY <1>1, OpenStep, TouchKept DEF FindDevices
<1>2. CASE Selection
  BY <1>2, SelectionStep DEF Selection
<1>3. CASE EndSelection
  BY <1>3, CloseStep DEF EndSelection
<1>4. CASE User \/ Clock
  BY <1>4, WorldStep DEF User, Clock
<1>5. CASE TileStep \/ UNCHANGED signInVars
  BY <1>5, TouchKept DEF TileStep, signInVars
<1>6. QED  BY <1>1, <1>2, <1>3, <1>4, <1>5 DEF SignInNext

\* The inductive invariant of the choice.
THEOREM TouchInductive == SignInSpec => []TouchInv
BY TouchInitInv, TouchNext, PTL DEF SignInSpec, SignInInit

\* However the choice ends, no key is left waiting for a touch but one that was
\* given up because a call on it failed (cancelPending).
THEOREM HealthyKeysAlwaysGoDark == SignInSpec => []HealthyKeysGoDark
<1>1. TouchInv => HealthyKeysGoDark
  BY DEF TouchInv, HealthyKeysGoDark
<1>2. QED  BY <1>1, TouchInductive, PTL

\* The key that is selected was touched and never failed (SelectByTouch).
THEOREM WinnersWereTouched == SignInSpec => []WinnerWasTouched
<1>1. TouchInv => WinnerWasTouched
  BY DEF TouchInv
<1>2. QED  BY <1>1, TouchInductive, PTL

-----------------------------------------------------------------------------
(* The tile with its keys is still a tile.                                  *)

\* Every step is one of Credential, or none of its business.
LEMMA TileSimulation == [SignInNext]_signInVars => [Next]_vars
<1> SUFFICES ASSUME [SignInNext]_signInVars PROVE [Next]_vars
  OBVIOUS
<1>1. CASE FindDevices
  BY <1>1 DEF FindDevices, Elsewhere, Next, SelectDevice
<1>2. CASE EndSelection
  BY <1>2 DEF EndSelection, Elsewhere, Next, SelectDevice
<1>3. CASE TileStep
  BY <1>3 DEF TileStep, Next
<1>4. CASE Selection \/ User \/ Clock
  BY <1>4 DEF Selection, User, Clock
<1>5. CASE UNCHANGED signInVars
  BY <1>5 DEF signInVars
<1>6. QED  BY <1>1, <1>2, <1>3, <1>4, <1>5 DEF SignInNext

\* The composition implements the tile of Credential, whose Connect takes the
\* choice of a key as one step.
THEOREM ImplementsTile == SignInSpec => Spec
<1>1. SignInInit => Init
  BY DEF SignInInit
<1>2. QED  BY <1>1, TileSimulation, PTL DEF SignInSpec, Spec

\* Type correctness of the composition.
THEOREM SignInTypeCorrect == SignInSpec => []SignInTypeOK
<1>1. SignInInit => impersonating \in BOOLEAN
  BY DEF SignInInit
<1>2. impersonating \in BOOLEAN /\ [SignInNext]_signInVars => (impersonating \in BOOLEAN)'
  <2> SUFFICES ASSUME impersonating \in BOOLEAN, [SignInNext]_signInVars
               PROVE  impersonating' \in BOOLEAN
    OBVIOUS
  <2>1. CASE TileStep
    <3>1. \A request \in KerbChangePassword(1, 1, 1, 1) : request.impersonating \in BOOLEAN
      <4>1. Failed.impersonating \in BOOLEAN
        BY DEF Failed
      <4>2. QED  BY <4>1 DEF KerbChangePassword
    <3>2. QED  BY <2>1, <3>1 DEF TileStep
  <2>2. CASE ~ TileStep
    BY <2>2 DEF SignInNext, FindDevices, Selection, EndSelection, User, Clock, Elsewhere,
                signInVars
  <2>3. QED  BY <2>1, <2>2
<1>3. TouchInv /\ TypeOK /\ impersonating \in BOOLEAN => SignInTypeOK
  BY DEF TouchInv, SignInTypeOK
<1>4. QED
  BY <1>1, <1>2, <1>3, TouchInductive, ImplementsTile, TypeCorrect, PTL DEF SignInSpec

\* What Credential promises is true of the tile with its keys: nothing is kept
\* after it is put away, and every logon and change handed over was approved.
THEOREM TileKeepsItsPromises ==
  SignInSpec =>
    /\ []PutAwayHoldsNothing /\ []PinOnlyWhileAsked
    /\ LogonIsApproved /\ ChangeIsApproved /\ OpenSignInIsCurrent
BY ImplementsTile, PutAwayAlwaysHoldsNothing, PinIsShortLived, LogonsAreApproved,
   ChangesAreApproved, OpenSignInsAreCurrent, PTL

-----------------------------------------------------------------------------
(* The packed buffers, for texts of every length and every size of the      *)
(* structures.                                                              *)

\* A text that fits keeps its length in 16 bits.
LEMMA LengthIsKept ==
  ASSUME NEW chars \in Nat, Fits(chars)
  PROVE  UnicodeLength(chars) = 2 * chars
BY PackingAssumption DEF Fits, UnicodeLength

\* A sign-in is packed tightly for any three texts, or refused because one of
\* them does not fit (UnicodeStringInitWithString, KerbInteractiveUnlockLogonPack).
THEOREM LogonsAreTight ==
  ASSUME NEW domain \in Nat, NEW user \in Nat, NEW password \in Nat, NEW scenario
  PROVE  LogonIsTight(domain, user, password, scenario)
<1> DEFINE buffer == KerbInteractiveUnlockLogon(domain, user, password, scenario)
           packs == /\ Fits(domain) /\ Fits(user) /\ Fits(password)
                    /\ MessageOf(scenario) # "none"
<1>1. CASE packs
  <2>1. /\ UnicodeLength(domain) = 2 * domain /\ UnicodeLength(user) = 2 * user
        /\ UnicodeLength(password) = 2 * password
    BY <1>1, LengthIsKept
  <2>2. buffer.ok /\ buffer.cb = LogonStruct + 2 * domain + 2 * user + 2 * password
    BY <1>1, <2>1 DEF KerbInteractiveUnlockLogon
  <2>3. buffer.strings = PackedThree(2 * domain, 2 * user, 2 * password)
    BY <1>1, <2>1 DEF KerbInteractiveUnlockLogon
  <2> HIDE DEF buffer
  <2>4. Tight(buffer, LogonStruct, <<domain, user, password>>)
    <3>1. /\ Len(buffer.strings) = 3
          /\ buffer.strings[1] = Placed(LogonStruct, 2 * domain)
          /\ buffer.strings[2] = Placed(LogonStruct + 2 * domain, 2 * user)
          /\ buffer.strings[3] = Placed(LogonStruct + 2 * domain + 2 * user, 2 * password)
      BY <2>3 DEF PackedThree
    <3>2. QED  BY <2>2, <3>1, PackingAssumption DEF Tight, Placed
  <2>5. QED  BY <2>2, <2>4 DEF buffer, LogonIsTight
<1>2. CASE ~ packs
  <2>1. ~ buffer.ok
    BY <1>2 DEF KerbInteractiveUnlockLogon, Failed
  <2>2. \/ \E text \in {domain, user, password} : 2 * text > UShortMax
        \/ scenario \notin {"logon", "unlock", "credui"}
    BY <1>2, PackingAssumption DEF Fits, MessageOf
  <2>3. QED  BY <2>1, <2>2 DEF LogonIsTight
<1>3. QED  BY <1>1, <1>2

\* The same of a password change and its four texts (KerbChangePasswordPack).
THEOREM ChangesAreTight ==
  ASSUME NEW domain \in Nat, NEW account \in Nat, NEW old \in Nat, NEW new \in Nat
  PROVE  ChangeIsTight(domain, account, old, new)
<1> DEFINE packs == Fits(domain) /\ Fits(account) /\ Fits(old) /\ Fits(new)
<1> SUFFICES ASSUME NEW buffer \in KerbChangePassword(domain, account, old, new)
             PROVE  IF buffer.ok THEN Tight(buffer, ChangeStruct, <<domain, account, old, new>>)
                    ELSE \E text \in {domain, account, old, new} : 2 * text > UShortMax
  BY DEF ChangeIsTight
<1>1. CASE packs
  <2>1. /\ UnicodeLength(domain) = 2 * domain /\ UnicodeLength(account) = 2 * account
        /\ UnicodeLength(old) = 2 * old /\ UnicodeLength(new) = 2 * new
    BY <1>1, LengthIsKept
  <2>2. /\ buffer.ok
        /\ buffer.cb = ChangeStruct + 2 * domain + 2 * account + 2 * old + 2 * new
        /\ buffer.strings = PackedFour(2 * domain, 2 * account, 2 * old, 2 * new)
    BY <1>1, <2>1 DEF KerbChangePassword
  <2>3. /\ Len(buffer.strings) = 4
        /\ buffer.strings[1] = Placed(ChangeStruct, 2 * domain)
        /\ buffer.strings[2] = Placed(ChangeStruct + 2 * domain, 2 * account)
        /\ buffer.strings[3] = Placed(ChangeStruct + 2 * domain + 2 * account, 2 * old)
        /\ buffer.strings[4] =
             Placed(ChangeStruct + 2 * domain + 2 * account + 2 * old, 2 * new)
    BY <2>2 DEF PackedFour
  <2>4. QED  BY <2>2, <2>3, PackingAssumption DEF Tight, Placed
<1>2. CASE ~ packs
  <2>1. buffer = Failed
    BY <1>2 DEF KerbChangePassword
  <2>2. QED  BY <1>2, <2>1, PackingAssumption DEF Failed, Fits
<1>3. QED  BY <1>1, <1>2

\* The buffers of a tile are packed tightly at every sign-in and change, for any
\* lengths (UnicodeStringInitWithString, KerbInteractiveUnlockLogonPack).
THEOREM BuffersAlwaysTight == SignInSpec => []BuffersAreTight
<1>1. BuffersAreTight
  <2>1. Lengths \subseteq Nat
    BY SignInAssumption
  <2>2. \A d, u, p \in Lengths, s \in {"logon", "unlock", "credui", "other"} :
          LogonIsTight(d, u, p, s)
    BY <2>1, LogonsAreTight
  <2>3. \A d, a, o, n \in Lengths : ChangeIsTight(d, a, o, n)
    BY <2>1, ChangesAreTight
  <2>4. QED  BY <2>2, <2>3 DEF BuffersAreTight
<1>2. QED  BY <1>1, PTL
=============================================================================
