------------------------------- MODULE Pairing --------------------------------
(***************************************************************************)
(* A client and a device that pair and verify with the messages of         *)
(* PairHomekit: the driver pair_setup() and pair_verify() of pair_ap/pair.c *)
(* on the device, the sequence of requests of airplay.c on the client, and *)
(* the connection between them, which may be lost at any moment.           *)
(***************************************************************************)
EXTENDS PairHomekit

CONSTANTS
  Pins,         \* pins a user may type
  Salts, Secrets,   \* random salts and exponents
  MaxAttempts   \* bound: setups and verifications the client begins

VARIABLES
  pin,        \* the pin of the device
  task,       \* what the client does: "idle", "setup" or "verify"
  client,     \* the client's context, kept after the task until the next begins
  server,     \* the context the device made for the connection
  sent,       \* the message on its way, as chunks; an odd state goes to the device
  keys,       \* auth_key: the result of a setup the client saved, or None
  known,      \* the public key the device saved for the client, or None
  attempts    \* tasks begun; the key pair of an attempt has its number

pairingVars == <<pin, task, client, server, sent, keys, known, attempts>>

\* A pointer that is NULL is not the value of any.
ASSUME PairingAssumption ==
  /\ Pins \cup Salts \cup Secrets \subseteq Nat /\ MaxAttempts \in Nat
  /\ None \notin Int
  /\ None \notin Elements \X (Nat \X Elements \X Elements \X Elements) \X Elements
  /\ \A K \in Elements : None # SealedIntroduction(K)
  /\ \A own, other \in Secrets : None # SealedIdentity(Shared(own, other), own, other)

\* The message on its way, as it is read.
message == ParsedMessage(sent)

\* state_get: the state of a message, 0 without one, -1 when it is not a good one.
StateGet(chunks) ==
  IF chunks = <<>> THEN 0
  ELSE IF ~Processed(ParsedMessage(chunks)) \/ ~TlvHas(chunks, "state") THEN -1
  ELSE ParsedMessage(chunks).state

PairingInit ==
  /\ pin \in Pins
  /\ task = "idle" /\ client = None /\ server = None /\ sent = <<>>
  /\ keys = None /\ known = None /\ attempts = 0

-----------------------------------------------------------------------------
(* Client *)

Begin(what) ==
  /\ task = "idle" /\ attempts < MaxAttempts
  /\ task' = what /\ attempts' = attempts + 1
  /\ UNCHANGED <<pin, keys, known>>

\* pair_setup_new, on both sides, and pair_verify_new
SetupNew(transient, typed) ==
  client' = ClientSetupNew(transient, typed, attempts') /\ server' = ServerSetupNew(pin)
VerifyNew(saved, eph) == client' = ClientVerifyNew(saved, eph) /\ server' = ServerVerifyNew

\* payload_make_pair_setup1; the device makes a context for the new peer.
SetupBegin(transient, typed) ==
  /\ Begin("setup")
  /\ SetupNew(transient, typed)
  /\ sent' = FormattedMessage(ClientSetupRequest1(client'))

\* payload_make_pair_verify1, with keys that may lack the server's.
VerifyBegin(eph, complete) ==
  /\ Begin("verify") /\ keys # None
  /\ VerifyNew(IF complete THEN keys ELSE [keys EXCEPT !.server = None], eph)
  /\ sent' = FormattedMessage(ClientVerifyRequest1(client'))

\* The client continues with a context and the next request it makes, pair_setup_request2 or 3.
Continue(c, m) ==
  /\ client' = c /\ sent' = FormattedMessage(m)
  /\ UNCHANGED <<pin, task, server, keys, known, attempts>>

\* The task is done or has failed.
End(c, saved) ==
  /\ client' = c /\ keys' = saved /\ task' = "idle" /\ sent' = <<>>
  /\ UNCHANGED <<pin, server, known, attempts>>

Answer(what, state) == task = what /\ sent # <<>> /\ message.state = state

\* pair_setup_response1, 2, 3 and pair_verify_response1, 2 give the message to their client_
\* function, which accepts it or not.
SetupAccepts(state) ==
  CASE state = 2 -> ClientAccepts1(message)
    [] state = 4 -> ClientAccepts2(client, message)
    [] state = 6 -> ClientAccepts3(client, message)
VerifyAccepts(state) ==
  CASE state = 2 -> ClientVerifyAccepts1(client, message)
    [] state = 4 -> Processed(message)

\* pair_setup_result and pair_verify_result: a pairing has a result when it is completed.
SetupResult(c) == IF c.status = "COMPLETED" THEN ClientSetupResult(c) ELSE None
VerifyResult(c) == IF c.status = "COMPLETED" THEN c.secret ELSE None

\* response_handler_pair_setup1 and the next request
SetupResponse1 ==
  /\ Answer("setup", 2) /\ SetupAccepts(2)
  /\ \E a \in Secrets :
       LET c == ClientChallenged(ClientSetupResponse1(client, message), a) IN
       Continue(c, ClientSetupRequest2(c))

\* response_handler_pair_setup2: transient pairing ends here.
SetupResponse2 ==
  /\ Answer("setup", 4) /\ SetupAccepts(4)
  /\ LET c == ClientSetupResponse2(client, message) IN
     IF c.transient THEN End(c, keys) ELSE Continue(c, ClientSetupRequest3(c))

\* response_handler_pair_setup3 saves the keys.
SetupResponse3 ==
  /\ Answer("setup", 6) /\ SetupAccepts(6)
  /\ LET c == ClientSetupResponse3(client, message) IN End(c, SetupResult(c))

SetupRefused == \E state \in {2, 4, 6} : Answer("setup", state) /\ ~SetupAccepts(state)

\* response_handler_pair_generic returns AIRPLAY_SEQ_ABORT
SetupFails == SetupRefused /\ End(client, keys)

\* response_handler_pair_verify1
VerifyResponse1 ==
  /\ Answer("verify", 2) /\ VerifyAccepts(2)
  /\ LET c == ClientVerifyResponse1(client, message) IN Continue(c, ClientVerifyRequest2(c))

\* response_handler_pair_verify2: the ciphers get the secret of the result.
VerifyResponse2 ==
  /\ Answer("verify", 4) /\ VerifyAccepts(4)
  /\ LET c == ClientVerifyResponse2(client) IN VerifyResult(c) # None /\ End(c, keys)

VerifyRefused == \E state \in {2, 4} : Answer("verify", state) /\ ~VerifyAccepts(state)

\* The keys are dropped when the device does not accept them.
VerifyFails == VerifyRefused /\ End(client, None)

Client ==
  \/ \E transient \in BOOLEAN, typed \in Pins : SetupBegin(transient, typed)
  \/ \E eph \in Secrets, complete \in BOOLEAN : VerifyBegin(eph, complete)
  \/ SetupResponse1 \/ SetupResponse2 \/ SetupResponse3 \/ SetupFails
  \/ VerifyResponse1 \/ VerifyResponse2 \/ VerifyFails

-----------------------------------------------------------------------------
(* Device *)

\* pair_setup and pair_verify ask for the state of the message first,
Incoming(what, state) == task = what /\ StateGet(sent) = state

\* then the message is read and the answer made, or there is none.
Reply(read, s, m) ==
  /\ server' = IF read.status = "INVALID" THEN read ELSE s
  /\ sent' = IF read.status = "INVALID" THEN <<>> ELSE FormattedMessage(m)
  /\ UNCHANGED <<pin, task, client, keys, attempts>>

ServeSetup1 ==
  /\ Incoming("setup", 1)
  /\ \E salt \in Salts, b \in Secrets :
       LET s == ServerSetupRequest1(server, message, salt, b) IN Reply(s, s, ServerSetupResponse1(s))
  /\ UNCHANGED known

ServeSetup2 ==
  /\ Incoming("setup", 3)
  /\ LET s == ServerSetupRequest2(server, message) IN
     Reply(s, ServerAnswered2(s), ServerSetupResponse2(s))
  /\ UNCHANGED known

\* Mutant: a client the device knows already is not saved again.
ServeSetup3Kept ==
  /\ Incoming("setup", 5)
  /\ LET s == ServerSetupRequest3(server, message) IN
     /\ Reply(s, ServerAnswered3(s), ServerSetupResponse3(s))
     /\ known' = IF s.status = "IN_PROGRESS" /\ known = None THEN s.client ELSE known

\* The last answer: the device saves the client's key first, in add_cb.
ServeSetup3 ==
  /\ Incoming("setup", 5)
  /\ LET s == ServerSetupRequest3(server, message) IN
     /\ Reply(s, ServerAnswered3(s), ServerSetupResponse3(s))
     /\ known' = IF s.status = "IN_PROGRESS" THEN s.client ELSE known

ServeVerify1 ==
  /\ Incoming("verify", 1)
  /\ \E eph \in Secrets :
       LET read == ServerVerifyRequest1(server, message)   s == ServerVerifyAnswered1(read, eph) IN
       Reply(read, s, ServerVerifyResponse1(s))
  /\ UNCHANGED known

ServeVerify2 ==
  /\ Incoming("verify", 3)
  /\ LET s == ServerVerifyRequest2(server, message, known) IN
     Reply(s, ServerVerifyAnswered2(s), ServerVerifyResponse2(s))
  /\ UNCHANGED known

\* The device is reset, or the client removed from it, server_add_remove.
Forget == known # None /\ known' = None /\ UNCHANGED <<pin, task, client, server, sent, keys, attempts>>

Device == ServeSetup1 \/ ServeSetup2 \/ ServeSetup3 \/ ServeVerify1 \/ ServeVerify2 \/ Forget

\* The connection is lost, or the client gives up waiting: it fails without an answer.
Lost ==
  /\ task # "idle" /\ task' = "idle" /\ sent' = <<>>
  /\ UNCHANGED <<pin, client, server, keys, known, attempts>>

PairingNext == Client \/ Device \/ Lost

PairingSpec == PairingInit /\ [][PairingNext]_pairingVars

-----------------------------------------------------------------------------
(* Properties *)

(* pair_homekit.c:1513, 1941: what the client takes for a completed pairing the device has *)
(* completed too, and both give the ciphers the same secret.                                *)
SecretsAgree ==
  client # None /\ client.status = "COMPLETED" =>
    server.status = "COMPLETED" /\ server.secret = client.secret

(* The client never holds keys the device has replaced by older ones, and holds newer ones *)
(* never before the device: when M6 is lost it is the client that is behind.                *)
DeviceKnowsFirst == keys # None /\ known # None => known >= keys.key

(* A task that gets its answers fails only for a cause: a setup for a wrong pin or a salt   *)
(* of less than 16 bytes (pair_homekit.c:1448), a verification because the device does not  *)
(* know the key, although the two sides compute session keys and proofs in different ways.  *)
RefusedForCause ==
  /\ SetupRefused => client.pin # pin \/ message.salt \in ShortSalts
  /\ VerifyRefused => known # client.key
=============================================================================
