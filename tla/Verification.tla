----------------------------- MODULE Verification -----------------------------
(***************************************************************************)
(* The Broker with its verifier: what Broker calls Verified is what        *)
(* FidoVerifier accepts, whoever asked a key for a signature, and for what.*)
(*                                                                         *)
(* Nobody makes a signature but a key.  A key signs for whoever asks: also *)
(* for another relying party or origin, without its user's verification,   *)
(* or to register a new credential.                                        *)
(***************************************************************************)
EXTENDS Broker, FidoVerifier

CONSTANTS IdOf,       \* the bytes of the credential id of each key
          Encodings,  \* ways a key may write its COSE key
          Texts       \* texts to be tried as credential ids

\* Authenticators choose their ids at random; the texts include every id as written.
ASSUME VerificationAssumption ==
  /\ \A k \in Keys : IdOf[k] \in Seq(0 .. 255) /\ IdOf[k] # <<>>
  /\ \A k, l \in Keys : IdOf[k] = IdOf[l] => k = l
  /\ Texts \subseteq Seq(0 .. Bad) /\ \A k \in Keys : Base64URLEncode(IdOf[k]) \in Texts

KeyPair(k) == <<<<k, "x">>, <<k, "y">>>>

AuthData(k, count) ==
  [size |-> 200, rpId |-> "own", up |-> TRUE, uv |-> TRUE, at |-> FALSE,
   count |-> count, id |-> IdOf[k], idLength |-> Len(IdOf[k]), cose |-> Unparsed]

ClientData(type, challenge) ==
  [type |-> type, challenge |-> challenge, origin |-> "own", crossOrigin |-> FALSE]

\* FIDODevice::Register: the attestation objects key k may make.
Register(k, challenge) ==
  LET object(data) ==
    [format |-> "packed", id |-> IdOf[k], authData |-> data,
     statement |-> [x5c |-> <<>>, by |-> KeyPair(k),
                    over |-> <<ClientData("webauthn.create", challenge), data>>]]
  IN {object([AuthData(k, 0) EXCEPT !.at = TRUE, !.cose = cose]) : cose \in Encodings[k]}

\* The records commit_registration may keep of a key.
Records ==
  [k \in Keys |->
    {RegistrationResult(o) : o \in {p \in Register(k, 1) :
       VerifyRegistration(1, "own", "own", p, ClientData("webauthn.create", 1))}}]

\* FIDODevice::Sign.
Response(k, client, auth) ==
  [clientData |-> client,
   assertions |-> <<[credentialId |-> Base64URLEncode(IdOf[k]), authData |-> auth,
     signature |-> [by |-> KeyPair(k), clientData |-> client, authData |-> auth]]>>]

AsAsked(a) ==
  Response(a.key, ClientData("webauthn.get", a.challenge), AuthData(a.key, a.count))

\* The same touch for something else, or its response with one thing exchanged.
Otherwise(a) ==
  LET client == ClientData("webauthn.get", a.challenge)  auth == AuthData(a.key, a.count)
      asked == AsAsked(a)
  IN {Response(a.key, [client EXCEPT !.type = "webauthn.create"], auth),
      Response(a.key, [client EXCEPT !.origin = "elsewhere"], auth),
      Response(a.key, [client EXCEPT !.crossOrigin = TRUE], auth),
      Response(a.key, client, [auth EXCEPT !.rpId = "elsewhere"]),
      Response(a.key, client, [auth EXCEPT !.uv = FALSE]),
      [asked EXCEPT !.assertions = <<>>], [asked EXCEPT !.assertions = @ \o @],
      [asked EXCEPT !.assertions[1].authData.count = MaxCount + 1]}
     \cup {[asked EXCEPT !.assertions[1].credentialId = Base64URLEncode(IdOf[k])] :
             k \in Keys \ {a.key}}

\* All of them, and the spellings of each credential id.
Asked == [a \in Assertions |-> AsAsked(a)]
Others == [a \in Assertions |-> Otherwise(a)]
SpellingsOf == [k \in Keys |-> {text \in Texts : Base64URLDecode(text) = IdOf[k]}]

\* The record of key k in the vault.
Current(record, s, k) == [record EXCEPT !.signCount = signCount[<<s, k>>]]

-----------------------------------------------------------------------------
(* Properties.                                                              *)

\* VerifySessionAssertion accepts, for an open session, exactly the responses
\* that the session's account made with one of its registered keys for this
\* challenge and with a newer counter.  However its key is written down, a key
\* that could be registered can be used.
VerifierIsExact ==
  \A id \in OpenIn(sessions) : sessions[id].kind # "registration" =>
    LET s == sessions[id].target IN
      \A k \in KeysOf(Refreshed, s), a \in signed : \A record \in Records[k] :
        LET accepts(r) == VerifyAssertion(Current(record, s, k), id, "own", "own", r) IN
          /\ accepts(Asked[a]) <=> k = a.key /\ Verified(id, a)
          /\ \A r \in Others[a] : ~ accepts(r)

\* "Reject alternate encodings" (DecodeBase64Strict): a registered credential is
\* found, excluded and removed by the text of its id, and has only one.
IdsHaveOneSpelling ==
  \A p \in vault.keys : SpellingsOf[p[2]] = {Base64URLEncode(IdOf[p[2]])}
=============================================================================
