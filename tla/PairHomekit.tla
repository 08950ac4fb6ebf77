------------------------------ MODULE PairHomekit -----------------------------
(***************************************************************************)
(* The messages of HomeKit pair-setup and pair-verify and what each side   *)
(* does with them, src/src/pair_ap/pair_homekit.c: the client_ functions   *)
(* libairplay2 uses, the server_ functions a device uses. A context is a   *)
(* record; for a message that is read one operator says when the client    *)
(* accepts it and one what the context is then. Pairing composes them.     *)
(***************************************************************************)
EXTENDS PairCrypto, PairTlv

CONSTANTS
  ClientId, ServerId,   \* the device_id of each side
  ShortSalts            \* the random salts whose first byte is zero

\* server_keypair: the keys of the server are seeded from its id, so they are always the same.
ServerKeypair(id) == <<"seeded", id>>
ServerKey == ServerKeypair(ServerId)

\* A message is a TLV list: its fields by name, None for one that is not there.
Message == [state |-> 0, error |-> FALSE, transient |-> FALSE, salt |-> None, pk |-> None,
            proof |-> None, data |-> None]

Fields == <<"state", "error", "transient", "salt", "pk", "proof", "data">>

\* A value that is added to the list; one the code has as a NULL pointer is not.
Present(m, field) == field = "state" \/ m[field] # Message[field]

\* Sizes of the values. The public keys of SRP are numbers of the group, those of the
\* verification are keys of Curve25519. bnum_bn2bin leaves out leading zeros of a number.
FieldSize(m, field) ==
  CASE field \in {"state", "error", "transient"} -> 1
    [] field = "salt" -> IF m.salt \in ShortSalts THEN 15 ELSE 16
    [] field = "pk" -> IF m.salt # None \/ m.state = 3 THEN 384 ELSE 32
    [] field = "proof" -> 64
    [] field = "data" -> 154

\* What is sent of a message.
FormattedMessage(m) ==
  LET list[n \in 0..Len(Fields)] ==
        IF n = 0 THEN <<>>
        ELSE IF Present(m, Fields[n]) THEN TlvAdded(list[n - 1], Fields[n], FieldSize(m, Fields[n]), m[Fields[n]])
        ELSE list[n - 1]
  IN TlvFormat(list[Len(Fields)])

\* What is read of it. The salt of the wrong size is not taken.
ParsedMessage(chunks) ==
  [field \in DOMAIN Message |->
     IF TlvHas(chunks, field) THEN TlvGet(chunks, field).value ELSE Message[field]]

\* message_process gives up on a message with an error.
Processed(m) == ~m.error

\* server_auth_failed_response
AuthFailed(state) == [Message EXCEPT !.state = state, !.error = TRUE]

\* create_and_sign_device_info with the public key appended, as setup sends it
Introduction(K, use, id, key) ==
  [id |-> id, pk |-> key, signature |-> Signature(key, <<Derived(K, use), id, key>>)]
Introduces(data, K, use) ==
  Verifies(data.signature, data.pk, <<Derived(K, use), data.id, data.pk>>)

-----------------------------------------------------------------------------
(* Setup, client *)

\* client_setup_new, with the SRP user that srp_user_new makes of the pin
ClientSetupNew(transient, pin, key) ==
  [pin |-> pin, a |-> 0, A |-> 0, K |-> None, M |-> None, B |-> 0, salt |-> 0,
   transient |-> transient, key |-> key, status |-> "IN_PROGRESS", secret |-> None, server |-> None]

ClientSetupRequest1(c) == [Message EXCEPT !.state = 1, !.transient = c.transient]

\* client_setup_response1 takes a salt of 16 bytes only.
ClientAccepts1(m) == Processed(m) /\ m.pk # None /\ m.salt # None /\ m.salt \notin ShortSalts
ClientSetupResponse1(c, m) == [c EXCEPT !.B = m.pk, !.salt = m.salt]

\* client_setup_request2: the random a, then A, session key and proof
ClientChallenged(c, a) ==
  LET A == PublicA(a)   K == UserKey(a, A, c.B, c.salt, c.pin) IN
  IF SafeChallenge(A, c.B)
  THEN [c EXCEPT !.a = a, !.A = A, !.K = K, !.M = calculate_M(c.salt, A, c.B, K)]
  ELSE [c EXCEPT !.a = a, !.A = A]
ClientSetupRequest2(c) == [Message EXCEPT !.state = 3, !.pk = c.A, !.proof = c.M]

\* Mutant: the answer is enough.
ClientAccepts2Unproved(c, m) == c.M # None

\* client_setup_response2: the server has to prove that it has the session key.
ClientAccepts2(c, m) ==
  Processed(m) /\ m.proof # None /\ c.M # None /\ m.proof = calculate_H_AMK(c.A, c.M, c.K)

ClientSetupResponse2(c, m) ==
  IF c.transient THEN [c EXCEPT !.status = "COMPLETED", !.secret = c.K] ELSE c

ClientSetupRequest3(c) ==
  [Message EXCEPT !.state = 5,
     !.data = Sealed(c.K, "Msg05", Introduction(c.K, "ControllerSign", ClientId, c.key))]

\* client_setup_response3
ClientAccepts3(c, m) ==
  /\ Processed(m) /\ m.data # None /\ Opens(m.data, c.K, "Msg06")
  /\ Introduces(m.data.data, c.K, "AccessorySign")

\* client_setup_result: the string of the two keys the caller saves
ClientSetupResult(c) == [key |-> c.key, server |-> c.server]

ClientSetupResponse3(c, m) == [c EXCEPT !.server = m.data.data.pk, !.status = "COMPLETED"]

-----------------------------------------------------------------------------
(* Setup, server: the request reads the message, the response makes the answer *)

\* server_setup_new; pin is "3939" when the caller gives none
ServerSetupNew(pin) ==
  [pin |-> pin, transient |-> FALSE, salt |-> 0, v |-> 0, b |-> 0, B |-> 0, A |-> 0, K |-> None,
   M2 |-> None, client |-> None, status |-> "IN_PROGRESS", secret |-> None]

\* server_setup_request1 with the random salt and b
ServerSetupRequest1(s, m, salt, b) ==
  LET v == VerificationKey(salt, s.pin) IN
  IF ~Processed(m) THEN [s EXCEPT !.status = "INVALID"]
  ELSE [s EXCEPT !.transient = m.transient, !.salt = salt, !.v = v, !.b = b, !.B = PublicB(b, v)]

ServerSetupResponse1(s) ==
  IF s.status = "AUTH_FAILED" THEN AuthFailed(2)
  ELSE [Message EXCEPT !.state = 2, !.salt = s.salt, !.pk = s.B]

\* server_setup_request2: a wrong proof is answered, a missing one is invalid.
ServerSetupRequest2(s, m) ==
  LET K == VerifierKey(s.b, s.v, m.pk, s.B)   M == calculate_M(s.salt, m.pk, s.B, K)
      failed == [s EXCEPT !.A = m.pk, !.status = "AUTH_FAILED"] IN
  IF ~Processed(m) \/ m.pk = None \/ m.proof = None THEN [s EXCEPT !.status = "INVALID"]
  ELSE IF ~SafeA(m.pk) THEN failed
  ELSE IF m.proof # M THEN [failed EXCEPT !.K = K]
  ELSE [s EXCEPT !.A = m.pk, !.K = K, !.M2 = calculate_H_AMK(m.pk, M, K)]

ServerSetupResponse2(s) ==
  IF s.status = "AUTH_FAILED" THEN AuthFailed(4) ELSE [Message EXCEPT !.state = 4, !.proof = s.M2]

\* What server_setup_response2 leaves: transient pairing is complete.
ServerAnswered2(s) ==
  IF s.status # "AUTH_FAILED" /\ s.transient THEN [s EXCEPT !.status = "COMPLETED", !.secret = s.K]
  ELSE s

\* server_setup_request3
ServerSetupRequest3(s, m) ==
  IF ~(Processed(m) /\ m.data # None /\ Opens(m.data, s.K, "Msg05"))
  THEN [s EXCEPT !.status = "INVALID"]
  ELSE IF ~Introduces(m.data.data, s.K, "ControllerSign") THEN [s EXCEPT !.status = "AUTH_FAILED"]
  ELSE [s EXCEPT !.client = m.data.data.pk]

\* What the device says of itself
SealedIntroduction(K) == Sealed(K, "Msg06", Introduction(K, "AccessorySign", ServerId, ServerKey))

ServerSetupResponse3(s) ==
  IF s.status = "AUTH_FAILED" THEN AuthFailed(6)
  ELSE [Message EXCEPT !.state = 6,
          !.data = SealedIntroduction(s.K)]

\* What server_setup_response3 leaves; it also makes add_cb, see ServerSetup in Pairing.
ServerAnswered3(s) == IF s.status = "AUTH_FAILED" THEN s ELSE [s EXCEPT !.status = "COMPLETED"]

-----------------------------------------------------------------------------
(* Verify, client *)

\* client_verify_new: the keys are those of client_setup_result, the private key of the
\* client and, if it is known, the public key of the server.
ClientVerifyNew(keys, eph) ==
  [key |-> keys.key, server |-> keys.server, eph |-> eph, server_eph |-> None,
   shared |-> None, status |-> "IN_PROGRESS", secret |-> None]

ClientVerifyRequest1(c) == [Message EXCEPT !.state = 1, !.pk = c.eph]

\* client_verify_response1: without the server's key its signature is not checked.
ClientVerifyAccepts1(c, m) ==
  /\ Processed(m) /\ m.data # None /\ m.pk # None
  /\ Opens(m.data, Shared(c.eph, m.pk), "Verify02")
  /\ c.server # None =>
       Verifies(m.data.data.signature, c.server, <<m.pk, m.data.data.id, c.eph>>)
ClientVerifyResponse1(c, m) == [c EXCEPT !.server_eph = m.pk, !.shared = Shared(c.eph, m.pk)]

ClientVerifyRequest2(c) ==
  [Message EXCEPT !.state = 3,
     !.data = Sealed(c.shared, "Verify03",
                [id |-> ClientId,
                 signature |-> Signature(c.key, <<c.eph, ClientId, c.server_eph>>)])]

\* client_verify_response2
ClientVerifyResponse2(c) == [c EXCEPT !.secret = c.shared, !.status = "COMPLETED"]

-----------------------------------------------------------------------------
(* Verify, server *)

\* server_verify_new
ServerVerifyNew ==
  [client_eph |-> None, eph |-> None, shared |-> None, status |-> "IN_PROGRESS", secret |-> None]

ServerVerifyRequest1(s, m) ==
  IF ~Processed(m) \/ m.pk = None THEN [s EXCEPT !.status = "INVALID"]
  ELSE [s EXCEPT !.client_eph = m.pk]

\* What server_verify_response1 leaves: the random keys and the shared secret.
ServerVerifyAnswered1(s, eph) ==
  IF s.status = "AUTH_FAILED" THEN s
  ELSE [s EXCEPT !.eph = eph, !.shared = Shared(eph, s.client_eph)]

\* The identity of the device, for the public keys of both.
SealedIdentity(secret, own, other) ==
  Sealed(secret, "Verify02",
    [id |-> ServerId, signature |-> Signature(ServerKey, <<own, ServerId, other>>)])

ServerVerifyResponse1(s) ==
  IF s.status = "AUTH_FAILED" THEN AuthFailed(2)
  ELSE [Message EXCEPT !.state = 2, !.pk = s.eph,
          !.data = SealedIdentity(s.shared, s.eph, s.client_eph)]

\* server_verify_request2; known is what get_cb finds for the id of the client.
ServerVerifyRequest2(s, m, known) ==
  IF ~(Processed(m) /\ m.data # None /\ Opens(m.data, s.shared, "Verify03"))
  THEN [s EXCEPT !.status = "INVALID"]
  ELSE IF \/ known = None
          \/ ~Verifies(m.data.data.signature, known, <<s.client_eph, m.data.data.id, s.eph>>)
  THEN [s EXCEPT !.status = "AUTH_FAILED"]
  ELSE s

ServerVerifyResponse2(s) ==
  IF s.status = "AUTH_FAILED" THEN AuthFailed(4) ELSE [Message EXCEPT !.state = 4]

\* What server_verify_response2 leaves.
ServerVerifyAnswered2(s) ==
  IF s.status = "AUTH_FAILED" THEN s ELSE [s EXCEPT !.secret = s.shared, !.status = "COMPLETED"]
=============================================================================
