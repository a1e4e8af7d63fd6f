------------------------------- MODULE Packing -------------------------------
(***************************************************************************)
(* helpers.cpp: the buffers in which a sign-in or a password change is     *)
(* handed to LSA.                                                          *)
(*                                                                         *)
(* A buffer is a structure and, behind it, the characters of its strings.  *)
(* The structure has a byte length, in 16 bits, and an offset for each     *)
(* string.  A text is its number of characters here.                       *)
(***************************************************************************)
EXTENDS Naturals, Sequences

CONSTANTS UShortMax,     \* 65535
          LogonStruct,   \* sizeof(KERB_INTERACTIVE_UNLOCK_LOGON)
          ChangeStruct   \* sizeof(KERB_CHANGEPASSWORD_REQUEST)

ASSUME PackingAssumption ==
  UShortMax \in Nat /\ LogonStruct \in Nat /\ ChangeStruct \in Nat

Failed == [ok |-> FALSE, message |-> "none", cb |-> 0, strings |-> <<>>,
           impersonating |-> FALSE]

WrapAround(chars) == TRUE  \* mutant: a length that does not fit is cut to 16 bits

\* SizeTToUShort and UShortMult of UnicodeStringInitWithString.
Fits(chars) == 2 * chars <= UShortMax

\* The length a UNICODE_STRING gets.
UnicodeLength(chars) == (2 * chars) % (UShortMax + 1)

\* _UnicodeStringPackedUnicodeStringCopy and the fix-up of the offset.
Placed(offset, length) == [offset |-> offset, length |-> length]

PackedThree(d, u, p) ==
  <<Placed(LogonStruct, d), Placed(LogonStruct + d, u), Placed(LogonStruct + d + u, p)>>

PackedFour(d, a, o, n) ==
  <<Placed(ChangeStruct, d), Placed(ChangeStruct + d, a),
    Placed(ChangeStruct + d + a, o), Placed(ChangeStruct + d + a + o, n)>>

\* KerbInteractiveUnlockLogonInit and KerbInteractiveUnlockLogonPack.
MessageOf(scenario) ==
  CASE scenario = "unlock" -> "KerbWorkstationUnlockLogon"
    [] scenario = "logon" -> "KerbInteractiveLogon"
    [] scenario = "credui" -> "any"
    [] OTHER -> "none"

KerbInteractiveUnlockLogon(domain, user, password, scenario) ==
  IF Fits(domain) /\ Fits(user) /\ Fits(password) /\ MessageOf(scenario) # "none"
    THEN LET d == UnicodeLength(domain)  u == UnicodeLength(user)
             p == UnicodeLength(password)
         IN [ok |-> TRUE, message |-> MessageOf(scenario), cb |-> LogonStruct + d + u + p,
             strings |-> PackedThree(d, u, p), impersonating |-> FALSE]
    ELSE Failed

\* The requests KerbChangePasswordPack may make.  It copies the type and the
\* strings into memory that is not initialized, and leaves the rest as it is.
KerbChangePassword(domain, account, old, new) ==
  IF Fits(domain) /\ Fits(account) /\ Fits(old) /\ Fits(new)
    THEN LET d == UnicodeLength(domain)  a == UnicodeLength(account)
             o == UnicodeLength(old)     n == UnicodeLength(new)
         IN {[ok |-> TRUE, message |-> "KerbChangePasswordMessage",
              cb |-> ChangeStruct + d + a + o + n, strings |-> PackedFour(d, a, o, n),
              impersonating |-> memory] : memory \in BOOLEAN}
    ELSE {Failed}

-----------------------------------------------------------------------------
(* Properties.                                                              *)

\* The strings of a buffer of cb bytes follow each other behind its structure,
\* in their order and with their lengths, and fill it exactly: what the reader
\* finds at an offset is what was put there, and nothing is read from beyond.
Tight(buffer, struct, texts) ==
  LET end(i) == buffer.strings[i].offset + buffer.strings[i].length IN
    /\ Len(buffer.strings) = Len(texts)
    /\ buffer.strings[1].offset = struct
    /\ \A i \in 1 .. Len(texts) : buffer.strings[i].length = 2 * texts[i]
    /\ \A i \in 1 .. Len(texts) - 1 : buffer.strings[i + 1].offset = end(i)
    /\ buffer.cb = end(Len(texts))

\* Whatever was typed, the buffer is exactly its strings or there is none, and
\* none only if a string has more bytes than 16 bits can count.
LogonIsTight(domain, user, password, scenario) ==
  LET buffer == KerbInteractiveUnlockLogon(domain, user, password, scenario) IN
    IF buffer.ok THEN Tight(buffer, LogonStruct, <<domain, user, password>>)
    ELSE \/ \E text \in {domain, user, password} : 2 * text > UShortMax
         \/ scenario \notin {"logon", "unlock", "credui"}

ChangeIsTight(domain, account, old, new) ==
  \A buffer \in KerbChangePassword(domain, account, old, new) :
    IF buffer.ok THEN Tight(buffer, ChangeStruct, <<domain, account, old, new>>)
    ELSE \E text \in {domain, account, old, new} : 2 * text > UShortMax
=============================================================================
