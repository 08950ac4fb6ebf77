-------------------------- MODULE AirplaySequence --------------------------
(***************************************************************************)
(* The request/response machinery of one AirPlay 2 session (src/src/       *)
(* airplay.c) over its RTSP control connection (src/src/evrtsp/rtsp.c), as *)
(* operators on a session record rs and on the device record.              *)
(*                                                                         *)
(* A session runs sequences. A sequence is a list of requests: each is     *)
(* queued on the connection, and its answer is given to a handler that     *)
(* continues the sequence, aborts it, or starts another. Several sequences *)
(* of a session may have a request in the queue at the same time.          *)
(*                                                                         *)
(* A queued request is [seq, step, freed]: step is the request's place in  *)
(* its sequence, and freed says that the caller freed the request while it *)
(* stayed in the queue. The request's content is abstracted.               *)
(***************************************************************************)
EXTENDS Integers, Sequences

CONSTANTS
  HasPassword,   \* rd->password is configured
  Wanted         \* the metadata wanted_metadata asks for and the song has

MetadataSeqs == {"SEND_PROGRESS", "SEND_TEXT", "SEND_ARTWORK"}

ASSUME SequenceAssumption == HasPassword \in BOOLEAN /\ Wanted \subseteq MetadataSeqs

NoCallback == -1

-----------------------------------------------------------------------------
(* The tables *)

\* airplay_seq_request. The steps are named for their payload and response
\* functions; SEQ_FAILURE is never started and left out.
seq_request ==
  [START          |-> <<"info_start">>,
   START_PLAYBACK |-> <<"setup_session", "setpeers", "setup_stream", "record",
                        "volume_start">>,
   PROBE          |-> <<"info_probe">>,
   FLUSH          |-> <<"flush">>,
   STOP           |-> <<"teardown">>,
   PIN_START      |-> <<"pin_start">>,
   SEND_VOLUME    |-> <<"volume">>,
   SEND_PROGRESS  |-> <<"progress">>,
   SEND_TEXT      |-> <<"text">>,
   SEND_ARTWORK   |-> <<"artwork">>,
   PAIR_SETUP     |-> <<"pair_setup1", "pair_setup2", "pair_setup3">>,
   PAIR_VERIFY    |-> <<"pair_verify1", "pair_verify2">>,
   PAIR_TRANSIENT |-> <<"transient1", "transient2">>,
   FEEDBACK       |-> <<"feedback">>]

SeqTypes == DOMAIN seq_request

\* proceed_on_rtsp_not_ok: the handler also runs on a negative answer.
Proceeds == {"setup_session", "volume_start", "teardown", "volume", "progress",
             "text", "artwork", "pair_verify1", "transient1", "feedback"}

\* Mutant: a stopped session is reported, but not freed.
OnSuccessStopKept ==
  [q \in SeqTypes |->
     CASE q = "START_PLAYBACK"                                -> "session_connected"
       [] q \in {"PROBE", "PIN_START"}                        -> "session_success"
       [] q \in {"FLUSH", "SEND_VOLUME", "STOP"}              -> "session_status"
       [] q \in {"PAIR_SETUP", "PAIR_VERIFY", "PAIR_TRANSIENT"} -> "session_pair_success"
       [] OTHER                                               -> "none"]

\* airplay_seq_definition: what runs when a sequence ends.
OnSuccess ==
  [q \in SeqTypes |->
     CASE q = "START_PLAYBACK"                                -> "session_connected"
       [] q \in {"PROBE", "STOP", "PIN_START"}                -> "session_success"
       [] q \in {"FLUSH", "SEND_VOLUME"}                      -> "session_status"
       [] q \in {"PAIR_SETUP", "PAIR_VERIFY", "PAIR_TRANSIENT"} -> "session_pair_success"
       [] OTHER                                               -> "none"]

OnError ==
  [q \in SeqTypes |-> IF q = "START" THEN "start_retry"
                      ELSE IF q = "START_PLAYBACK" THEN "start_failure"
                      ELSE "session_failure"]

\* enum airplay_state, and the two groups of it the code tests by mask.
Connected == {"CONNECTED", "STREAMING", "TEARDOWN"}
Failed == {"FAILED", "AUTH"}
States == {"STOPPED", "INFO", "ENCRYPTED", "SETUP", "RECORD"} \cup Connected \cup Failed

\* session_status: the state the player is told.
OutputState ==
  [STOPPED |-> "stopped", INFO |-> "startup", ENCRYPTED |-> "startup",
   SETUP |-> "startup", RECORD |-> "startup", CONNECTED |-> "connected",
   STREAMING |-> "streaming", TEARDOWN |-> "stopped", FAILED |-> "failed",
   AUTH |-> "password"]

-----------------------------------------------------------------------------
(* The control connection *)

\* EVCON_ states: every state from WRITING to READING_TRAILER is BUSY.
ConStates == {"DISCONNECTED", "CONNECTING", "IDLE", "BUSY"}

NextOn(requests) == IF requests = <<>> THEN "IDLE" ELSE "BUSY"

\* session_make: calloc and a connection that is not connected yet.
NewSession(family, callback_id) ==
  [state |-> "STOPPED", callback_id |-> callback_id, next_seq |-> "CONTINUE",
   reqs_in_flight |-> 0, realm |-> FALSE, req_has_auth |-> FALSE,
   pair_type |-> "FRUIT", cipher |-> FALSE, server |-> FALSE, family |-> family,
   deferred |-> FALSE, closecb |-> FALSE, con |-> "DISCONNECTED", requests |-> <<>>]

\* The state an error leaves; AUTH is kept, so that the player learns of it.
FailedState(state) == IF state = "AUTH" THEN "AUTH" ELSE "FAILED"

\* Mutant: the session is marked failed but no timer is set to end it.
DeferredUntimed(rs) == [rs EXCEPT !.state = FailedState(rs.state)]

\* deferred_session_failure: the failure is dealt with from a zero timer.
Deferred(rs) == [rs EXCEPT !.state = FailedState(rs.state), !.deferred = TRUE]

\* evrtsp_connection_reset, with rtsp_close_cb when a close callback is set.
Reset(rs) ==
  [(IF rs.closecb /\ rs.con \notin {"DISCONNECTED", "CONNECTING"} THEN Deferred(rs) ELSE rs)
     EXCEPT !.con = "DISCONNECTED"]

\* What a new request does to the state of the connection.
Dialled(con) ==
  CASE con = "DISCONNECTED" -> "CONNECTING" [] con = "IDLE" -> "BUSY" [] OTHER -> con

\* Mutant: the close callback stays set while a request is in flight.
QueuedClosable(rs, req) ==
  [rs EXCEPT !.requests = Append(@, req), !.con = Dialled(@), !.reqs_in_flight = @ + 1]

\* Mutant: the request in flight is not counted.
QueuedUncounted(rs, req) ==
  [rs EXCEPT !.requests = Append(@, req), !.con = Dialled(@), !.closecb = FALSE]

\* evrtsp_make_request, and the bookkeeping sequence_continue does after it.
Queued(rs, req) ==
  [rs EXCEPT !.requests = Append(@, req), !.con = Dialled(@),
             !.closecb = FALSE, !.reqs_in_flight = @ + 1]

\* A request leaves the queue and its callback starts: sequence_continue_cb's
\* first lines. con is the state the connection is in by then.
Dequeued(rs, con) ==
  [rs EXCEPT !.requests = Tail(@), !.con = con,
             !.closecb = (rs.reqs_in_flight = 1) \/ @,
             !.reqs_in_flight = @ - 1]

-----------------------------------------------------------------------------
(* Sequences *)

\* How building and sending a request may go: sent; not built (no memory, no
\* headers, payload error); payload_make failing after it changed the session;
\* evrtsp_make_request failing because a connection attempt fails at once.
Outcomes == {"sent", "not_built", "payload_failed", "refused"}

\* What the payload_make functions change in the session.
PayloadMade(rs, step) ==
  CASE step = "pair_setup1" -> [rs EXCEPT !.state = "AUTH", !.pair_type = "NORMAL"]
    [] step = "transient1"  -> [rs EXCEPT !.state = "AUTH",
                                          !.pair_type = IF HasPassword THEN "NORMAL" ELSE @]
    [] step = "teardown"    -> [rs EXCEPT !.state = "TEARDOWN"]
    [] OTHER                -> rs

\* The steps with no payload, or one that cannot fail to be made.
Unfailing == {"info_start", "info_probe", "pin_start", "teardown", "feedback", "flush", "record"}

\* The outcomes possible for step i of a sequence.
MayEnd(rs, seq, i, out) ==
  CASE out = "refused"        -> rs.con = "DISCONNECTED"
    [] out = "payload_failed" -> seq_request[seq][i] \notin Unfailing
    [] OTHER                  -> TRUE

\* sequence_continue: queue request i of the sequence. A request that cannot be
\* sent is freed by the caller, also when evrtsp_make_request has it queued.
SequenceContinue(rs, seq, i, out) ==
  LET headed  == [rs EXCEPT !.req_has_auth = @ \/ rs.realm]
      payload == PayloadMade(headed, seq_request[seq][i])
      req     == [seq |-> seq, step |-> i, freed |-> out = "refused"]
  IN CASE out = "sent"      -> Queued(payload, req)
       [] out = "not_built" -> Deferred(rs)
       [] out = "refused"   -> Deferred([payload EXCEPT !.requests = Append(@, req)])
       [] OTHER             -> Deferred(payload)

\* sequence_start
SequenceStart(rs, seq, out) == SequenceContinue(rs, seq, 1, out)

\* airplay_metadata_send_generic: a sequence for each kind of metadata wanted.
MetadataSent(rs, out) ==
  LET start(r, seq) == IF seq \in Wanted THEN SequenceStart(r, seq, out[seq]) ELSE r
  IN  start(start(start(rs, "SEND_PROGRESS"), "SEND_TEXT"), "SEND_ARTWORK")

-----------------------------------------------------------------------------
(* Response handlers. Each returns the session and the device it leaves and *)
(* the sequence to go on with: CONTINUE, ABORT, or a new one.              *)

\* An answer to a step: the status code; whether what the handler needs of the
\* body and of the system is good, bad, or broken at its last stage; the flags in
\* the reply to GET /info. Codes and flags are those the step's handler looks at.
Answers(step) ==
  [code  : {"OK", "OTHER"} \cup (IF step = "setup_session" THEN {"UNAUTHORIZED"} ELSE {})
                           \cup (IF step = "transient1" THEN {"AUTH_REQUIRED"} ELSE {}),
   body  : {"good"} \cup (IF step \in {"setpeers", "record", "flush", "pin_start"}
                               \cup (Proceeds \ {"setup_session", "pair_verify1", "transient1"})
                         THEN {} ELSE {"bad"})
                    \cup (IF step = "transient2" THEN {"broken"} ELSE {}),
   flags : {"NONE"} \cup (IF step \in {"info_start", "info_probe"}
                         THEN {"ONE_TIME_PAIRING", "PIN", "PASSWORD"} ELSE {})]

Handled(rs, device, next) == [session |-> rs, device |-> device, next |-> next]

\* response_handler_info_generic
InfoHandled(rs, device, ans) ==
  LET normal(state) == [rs EXCEPT !.pair_type = "NORMAL", !.state = state] IN
  CASE ~device.listed \/ ans.body # "good" -> Handled(rs, device, "ABORT")
    [] ans.flags = "ONE_TIME_PAIRING" /\ ~device.auth_key ->
         Handled(normal("AUTH"), [device EXCEPT !.requires_auth = TRUE], "PIN_START")
    [] ans.flags = "PIN" ->
         Handled(normal("AUTH"),
                 [device EXCEPT !.requires_auth = TRUE, !.auth_key = FALSE], "PIN_START")
    [] ans.flags = "PASSWORD" /\ ~HasPassword ->
         Handled(normal(rs.state), device, "ABORT")
    [] ans.flags = "PASSWORD" /\ ~device.auth_key ->
         Handled(normal("AUTH"), device, "PAIR_SETUP")
    [] ans.flags \in {"ONE_TIME_PAIRING", "PASSWORD"} ->
         Handled(normal("INFO"), device, "PAIR_VERIFY")
    [] OTHER -> Handled([rs EXCEPT !.pair_type = "TRANSIENT", !.state = "INFO"],
                        device, "PAIR_TRANSIENT")

\* Mutant: playback is started without pairing first.
InfoStartHandledUnpaired(rs, device, ans) ==
  LET h == InfoHandled(rs, device, ans)
  IN  IF h.next \in {"ABORT", "PIN_START"} THEN h ELSE [h EXCEPT !.next = "START_PLAYBACK"]

\* response_handler_info_start: pair, then START_PLAYBACK.
InfoStartHandled(rs, device, ans) ==
  LET h == InfoHandled(rs, device, ans)
  IN  IF h.next \in {"ABORT", "PIN_START"} THEN h
      ELSE [h EXCEPT !.session.next_seq = "START_PLAYBACK"]

\* response_handler_info_probe: a probe does not pair.
InfoProbeHandled(rs, device, ans) ==
  LET h == InfoHandled(rs, device, ans)
  IN  IF h.next \in {"PAIR_TRANSIENT", "PAIR_VERIFY"} THEN [h EXCEPT !.next = "CONTINUE"]
      ELSE h

\* auth_header_parse: the realm and nonce of the answer replace those there were.
AuthHeaderParse(rs, ans) == [rs EXCEPT !.realm = ans.body = "good"]

\* response_handler_setup_session: on the first 401, again with authentication.
SetupSessionHandled(rs, device, ans) ==
  CASE ans.code = "UNAUTHORIZED" /\ ~rs.req_has_auth ->
         Handled(AuthHeaderParse(rs, ans), device,
                 IF ans.body = "good" THEN "START_PLAYBACK" ELSE "ABORT")
    [] ans.code = "OK" /\ ans.body = "good" -> Handled(rs, device, "CONTINUE")
    [] OTHER                                -> Handled(rs, device, "ABORT")

\* Mutant: the reply to SETUP (stream) is not checked for its ports.
SetupStreamHandledUnchecked(rs, device, ans) ==
  Handled([rs EXCEPT !.server = ans.body = "good", !.state = "SETUP"], device, "CONTINUE")

\* response_handler_setup_stream: the data socket is connected.
SetupStreamHandled(rs, device, ans) ==
  IF ans.body = "good"
  THEN Handled([rs EXCEPT !.server = TRUE, !.state = "SETUP"], device, "CONTINUE")
  ELSE Handled(rs, device, "ABORT")

\* response_handler_pair_setup1, for both the normal and the transient sequence.
PairSetup1Handled(rs, device, ans) ==
  CASE rs.pair_type = "TRANSIENT" /\ ans.code = "AUTH_REQUIRED" /\ device.listed ->
         Handled([rs EXCEPT !.pair_type = "NORMAL"],
                 [device EXCEPT !.requires_auth = TRUE], "PIN_START")
    [] rs.pair_type = "TRANSIENT" /\ ans.code = "AUTH_REQUIRED" ->
         Handled(rs, device, "ABORT")
    [] OTHER -> Handled(rs, device, IF ans.body = "good" THEN "CONTINUE" ELSE "ABORT")

\* session_cipher_setup
Ciphered(rs) == [rs EXCEPT !.cipher = TRUE, !.state = "ENCRYPTED"]

\* response_handler_pair_setup2: a transient pairing ends with a session key.
PairSetup2Handled(rs, device, ans) ==
  CASE ans.body = "bad"             -> Handled(rs, device, "ABORT")
    [] rs.pair_type # "TRANSIENT"   -> Handled(rs, device, "CONTINUE")
    [] ans.body = "good"            -> Handled(Ciphered(rs), device, "CONTINUE")
    [] OTHER -> Handled([rs EXCEPT !.state = "FAILED"], device, "ABORT")

\* response_handler_pair_setup3: the device's key is saved, and no session key.
PairSetup3Handled(rs, device, ans) ==
  IF ans.body = "good" /\ device.listed
  THEN Handled([rs EXCEPT !.state = "STOPPED"], [device EXCEPT !.auth_key = TRUE], "CONTINUE")
  ELSE Handled(rs, device, "ABORT")

\* The device forgets its key, if it is still there to do so.
KeyCleared(device) == [device EXCEPT !.auth_key = @ /\ ~device.listed]

\* response_handler_pair_verify1
PairVerify1Handled(rs, device, ans) ==
  IF ans.body = "good" THEN Handled(rs, device, "CONTINUE")
  ELSE Handled([rs EXCEPT !.state = "AUTH"], KeyCleared(device), "ABORT")

\* response_handler_pair_verify2
PairVerify2Handled(rs, device, ans) ==
  CASE ans.body = "good" -> Handled(Ciphered(rs), device, "CONTINUE")
    [] device.listed     -> Handled([rs EXCEPT !.state = "AUTH"], KeyCleared(device), "ABORT")
    [] OTHER             -> Handled(rs, device, "ABORT")

\* response_handler_volume_start: pending metadata is sent to the new session.
VolumeStartHandled(rs, device, metadata, out) ==
  Handled(IF metadata THEN MetadataSent(rs, out) ELSE rs, device, "CONTINUE")

\* cur_request->response_handler(req, rs)
ResponseHandled(rs, device, step, ans, metadata, out) ==
  CASE step = "info_start"    -> InfoStartHandled(rs, device, ans)
    [] step = "info_probe"    -> InfoProbeHandled(rs, device, ans)
    [] step = "setup_session" -> SetupSessionHandled(rs, device, ans)
    [] step = "setup_stream"  -> SetupStreamHandled(rs, device, ans)
    [] step = "record"        -> Handled([rs EXCEPT !.state = "RECORD"], device, "CONTINUE")
    [] step = "volume_start"  -> VolumeStartHandled(rs, device, metadata, out)
    [] step = "flush"         -> Handled([rs EXCEPT !.state = "CONNECTED"], device, "CONTINUE")
    [] step = "teardown"      -> Handled([rs EXCEPT !.state = "STOPPED"], device, "CONTINUE")
    [] step = "pin_start"     -> Handled([rs EXCEPT !.state = "AUTH"], device, "CONTINUE")
    [] step \in {"pair_setup1", "transient1"} -> PairSetup1Handled(rs, device, ans)
    [] step \in {"pair_setup2", "transient2"} -> PairSetup2Handled(rs, device, ans)
    [] step = "pair_setup3"   -> PairSetup3Handled(rs, device, ans)
    [] step = "pair_verify1"  -> PairVerify1Handled(rs, device, ans)
    [] step = "pair_verify2"  -> PairVerify2Handled(rs, device, ans)
    [] OTHER                  -> Handled(rs, device, "CONTINUE")

=============================================================================
