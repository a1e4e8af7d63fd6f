----------------------------- MODULE FidoVerifier -----------------------------
(***************************************************************************)
(* FidoVerifier.cpp: what the Broker accepts as an assertion and as a      *)
(* registration.  Client data, authenticator data and COSE keys are the    *)
(* records their parsers make of them; Unparsed is what does not parse.    *)
(* Signatures are libfido2's: a signature is what was signed, and by whom. *)
(***************************************************************************)
EXTENDS Convert, FiniteSets

CONSTANT IntSpan  \* 2^32: the number of values of an int

ASSUME VerifierAssumption == IntSpan \in Nat \ {0}

\* Unlike every record that a parser makes.
Unparsed == [parsed |-> FALSE]

-----------------------------------------------------------------------------
(* COSE keys: sequences of CBOR pairs.  An integer is unsigned or, with the *)
(* value n, the negative -1 - n; the code casts the 64 bits of n to an int. *)

Integer32(n) ==
  LET low == n % IntSpan IN IF low >= IntSpan \div 2 THEN low - IntSpan ELSE low

IntOf(item) ==
  IF item.kind = "uint" THEN Integer32(item.v) ELSE -1 - Integer32(item.v)

\* The pairs that CoseEs256Coordinates takes for this parameter.
Pairs(cose, label, kind) ==
  {i \in DOMAIN cose.pairs :
     /\ cose.pairs[i].key.kind \in {"uint", "negint"}
     /\ IntOf(cose.pairs[i].key) = label
     /\ cose.pairs[i].value.kind = kind}

Parameter(cose, label, kind) ==
  cose.pairs[CHOOSE i \in Pairs(cose, label, kind) : TRUE].value

Parameters == {<<1, "uint">>, <<3, "negint">>, <<-1, "uint">>, <<-2, "bytes">>, <<-3, "bytes">>}

\* A parameter that occurs twice is refused, others are skipped.
IsEs256(cose) ==
  /\ cose # Unparsed /\ ~ cose.more /\ Len(cose.pairs) <= 32
  /\ \A p \in Parameters : Cardinality(Pairs(cose, p[1], p[2])) = 1
  /\ IntOf(Parameter(cose, 1, "uint")) = 2
  /\ IntOf(Parameter(cose, 3, "negint")) = -7
  /\ IntOf(Parameter(cose, -1, "uint")) = 1
  /\ \A label \in {-2, -3} : Parameter(cose, label, "bytes").length = 32

CoseEs256Coordinates(cose) ==
  <<Parameter(cose, -2, "bytes").v, Parameter(cose, -3, "bytes").v>>

-----------------------------------------------------------------------------
(* What was signed.                                                         *)

TypeUnchecked(data, type, challenge, origin) ==  \* mutant
  data # Unparsed /\ data.challenge = challenge /\ data.origin = origin /\ ~ data.crossOrigin

VerifyClientData(data, type, challenge, origin) ==
  /\ data # Unparsed
  /\ data.type = type /\ data.challenge = challenge
  /\ data.origin = origin /\ ~ data.crossOrigin

\* At least 37 bytes, and the flags for presence and verification of the user.
VerifyAuthenticatorData(data, rpId) ==
  data.size >= 37 /\ data.rpId = rpId /\ data.up /\ data.uv

\* The attested credential lies behind the header; its COSE key is the first
\* CBOR item there, whatever follows it.
HasCredential(data) ==
  /\ data.size >= 55 /\ data.at
  /\ data.idLength \in 1 .. 1024 /\ 55 + data.idLength < data.size
  /\ data.cose # Unparsed

ExtractedCose(data) == [data.cose EXCEPT !.more = FALSE]

ExtractAttestedCredential(data) == HasCredential(data) /\ IsEs256(ExtractedCose(data))

\* fido_assert_verify, with UP and UV required.
AssertVerifies(signature, clientData, authData, rpId, key) ==
  /\ authData.rpId = rpId /\ authData.up /\ authData.uv
  /\ signature = [by |-> key, clientData |-> clientData, authData |-> authData]

-----------------------------------------------------------------------------

CounterAdvances(old, new) == old # 0 => new # 0 /\ new > old

\* response: the client data and the assertions, in their encodings.
VerifyAssertion(credential, challenge, rpId, origin, response) ==
  LET assertion == response.assertions[1]  authData == assertion.authData IN
    /\ credential.algorithm = -7
    /\ Len(response.assertions) = 1
    /\ assertion.credentialId = credential.credentialId
    /\ Base64URLDecode(assertion.credentialId) # <<>>
    /\ authData # Unparsed /\ IsEs256(credential.cosePublicKey)
    /\ VerifyClientData(response.clientData, "webauthn.get", challenge, origin)
    /\ VerifyAuthenticatorData(authData, rpId)
    /\ CounterAdvances(credential.signCount, authData.count)
    /\ AssertVerifies(assertion.signature, response.clientData, authData, rpId,
                      CoseEs256Coordinates(credential.cosePublicKey))

\* fido_cred_verify, with the first key of the certificate chain x5c, and
\* fido_cred_verify_self, with the key that is being registered.
StatementVerifies(attestation, clientData) ==
  LET statement == attestation.statement  data == attestation.authData IN
    attestation.format = "packed" =>
      /\ statement.over = <<clientData, data>>
      /\ IF statement.x5c # <<>> THEN statement.by = statement.x5c[1]
           ELSE /\ ExtractAttestedCredential(data)
                /\ statement.by = CoseEs256Coordinates(ExtractedCose(data))

\* attestation.id is the credential id as libfido2 reads it.
VerifyRegistration(challenge, rpId, origin, attestation, clientData) ==
  /\ attestation # Unparsed
  /\ VerifyClientData(clientData, "webauthn.create", challenge, origin)
  /\ attestation.format \in {"none", "packed"}
  /\ StatementVerifies(attestation, clientData)
  /\ VerifyAuthenticatorData(attestation.authData, rpId)
  /\ ExtractAttestedCredential(attestation.authData)
  /\ attestation.id = attestation.authData.id

\* The RegistrationResult of what VerifyRegistration accepts.
RegistrationResult(attestation) ==
  [credentialId |-> Base64URLEncode(attestation.authData.id),
   cosePublicKey |-> ExtractedCose(attestation.authData),
   algorithm |-> -7, signCount |-> attestation.authData.count]
=============================================================================
