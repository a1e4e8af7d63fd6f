-------------------------------- MODULE SignIn --------------------------------
(***************************************************************************)
(* The tile with what it calls: Credential, in whose Connect the choice of *)
(* a key takes the steps of TouchSelection, and whose password change is   *)
(* packed as in Packing.                                                   *)
(***************************************************************************)
EXTENDS Credential, TouchSelection, Packing

CONSTANT Lengths  \* lengths of the texts that are packed, which nobody limits

ASSUME SignInAssumption == Lengths \subseteq Nat

VARIABLE impersonating  \* of the password change that was handed over

signInVars == <<vars, touchVars, impersonating>>

SignInInit == Init /\ TouchInit /\ impersonating = FALSE

\* What the choice of a key leaves alone.
Elsewhere == UNCHANGED <<world, name, retired, chosen, submitted, impersonating>>

\* GetDevices: no key, one key, or several to choose from.
FindDevices ==
  /\ Choosing /\ stage = "off"
  /\ \/ Elsewhere /\ (Cancelled \/ NoKeyFound \/ KeySelected) /\ UNCHANGED touchVars
     \/ \E n \in 2 .. MaxDevices : OpenDevices(n) /\ UNCHANGED <<vars, impersonating>>

Selection == Choosing /\ SelectByTouch /\ UNCHANGED <<vars, impersonating>>

\* SelectByTouch has returned; Connect asks LogonUI once more whether to go on.
EndSelection ==
  /\ Choosing /\ stage = "over" /\ Elsewhere /\ CloseDevices
  /\ Cancelled \/ IF status = "ok" THEN KeySelected ELSE StartOver

\* Every other step of the tile.  PackPasswordChange hands a request over.
TileStep ==
  /\ TileNext /\ UNCHANGED touchVars
  /\ IF submitted # "change" /\ submitted' = "change"
       THEN \E request \in KerbChangePassword(1, 1, 1, 1) :
              impersonating' = request.impersonating
       ELSE impersonating' = (submitted' = "change" /\ impersonating)

User == \E k \in Indices : Touch(k) /\ UNCHANGED <<vars, impersonating>>
Clock == Tick /\ UNCHANGED <<vars, impersonating>>

SignInNext == FindDevices \/ Selection \/ EndSelection \/ TileStep \/ User \/ Clock

\* Connect goes on: the Broker and the keys answer or time out, and the clock
\* runs.  Nobody has to touch a key or to call the tile.
Progress ==
  /\ WF_signInVars(FindDevices \/ Selection \/ EndSelection)
  /\ WF_signInVars((BeginAuthentication \/ SignInOpen \/ Sign \/ FinishAuthentication)
                     /\ TileStep)
  /\ WF_signInVars(Clock)

SignInSpec == SignInInit /\ [][SignInNext]_signInVars
FairSignIn == SignInSpec /\ Progress

-----------------------------------------------------------------------------
(* Properties.                                                              *)

SignInTypeOK == TypeOK /\ TouchTypeOK /\ impersonating \in BOOLEAN

\* Connect returns to LogonUI, whatever the user does or leaves undone.
ConnectReturns == (pc # "idle") ~> (pc = "idle")

\* "request.Impersonating = FALSE" (PackPasswordChange): so says the password
\* change that Windows is given.
ChangesDoNotImpersonate == submitted = "change" => ~ impersonating

\* "hr = HRESULT_FROM_WIN32(ERROR_ARITHMETIC_OVERFLOW)" (UnicodeStringInitWithString):
\* whatever was typed, a buffer handed to Windows is exactly its strings, and one
\* is refused only for a string with more bytes than 16 bits can count.
BuffersAreTight ==
  /\ submitted = "logon" =>
       \A d, u, p \in Lengths, s \in {"logon", "unlock", "credui", "other"} :
         LogonIsTight(d, u, p, s)
  /\ submitted = "change" => \A d, a, o, n \in Lengths : ChangeIsTight(d, a, o, n)
=============================================================================
