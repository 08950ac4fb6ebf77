--------------------------- MODULE AirplaySession ---------------------------
(***************************************************************************)
(* The sessions the AirPlay 2 backend (src/src/airplay.c) has with one     *)
(* device: what outputs.c asks of the backend, the RTSP answers and        *)
(* connection errors, the timers, and the audio writes, as they are        *)
(* interleaved on the player's event loop. Each action is one callback of  *)
(* that loop or one call of the backend, run to completion.                *)
(***************************************************************************)
EXTENDS AirplaySequence, FiniteSets

CONSTANTS
  Sessions,            \* the addresses a session can be allocated at
  NoSession,           \* NULL
  MaxCallbacks,        \* bound: callback ids handed out
  MaxRequests,         \* bound: requests queued on a connection
  AddressSets,         \* the sets of address families a device may have
  SessionRegistered    \* session_make calls outputs_device_session_add; the
                       \* call is commented out in the code, so FALSE there

ASSUME SessionAssumption ==
  /\ MaxCallbacks \in Nat /\ MaxRequests \in Nat \ {0}
  /\ AddressSets \subseteq (SUBSET {"v4", "v6"}) \ {{}}
  /\ SessionRegistered \in BOOLEAN
  /\ NoSession \notin Sessions

VARIABLES
  session,     \* session[s]: the session allocated at s, or NoSession
  device,      \* the output_device
  issued,      \* callback ids handed out with a request the backend accepted
  calls,       \* calls[c]: the states outputs_cb has been told under id c
  metadata,    \* airplay_cur_metadata is set
  keep_alive,  \* keep_alive_timer is pending
  phase        \* "up"; "down" after airplay_deinit; "faulted" after a memory fault

vars == <<session, device, issued, calls, metadata, keep_alive, phase>>

Callbacks == 1..MaxCallbacks

RequestType == [seq : SeqTypes, step : 1..5, freed : BOOLEAN]

SessionType ==
  [state : States, callback_id : Callbacks \cup {NoCallback},
   next_seq : {"CONTINUE", "START_PLAYBACK"}, reqs_in_flight : Nat, realm : BOOLEAN,
   req_has_auth : BOOLEAN, pair_type : {"FRUIT", "NORMAL", "TRANSIENT"},
   cipher : BOOLEAN, server : BOOLEAN, family : {"v4", "v6"}, deferred : BOOLEAN,
   closecb : BOOLEAN, con : ConStates, requests : Seq(RequestType)]

ASSUME NoSessionAssumption == NoSession \notin SessionType

Live == {s \in Sessions : session[s] # NoSession}
InGroup(s, states) == s \in Live /\ session[s].state \in states

Init ==
  /\ session = [s \in Sessions |-> NoSession]
  /\ device \in [listed : BOOLEAN, auth_key : BOOLEAN, requires_auth : {FALSE},
                 v6_disabled : {FALSE}, session : {NoSession}, addresses : AddressSets]
  /\ issued = 0
  /\ calls = [c \in Callbacks |-> <<>>]
  /\ metadata = FALSE
  /\ keep_alive = FALSE
  /\ phase = "up"

-----------------------------------------------------------------------------
(* What a session does to the rest when it reports and when it ends *)

\* session_status: outputs_cb ignores the id -1.
Told(rs) ==
  IF rs.callback_id = NoCallback THEN calls
  ELSE [calls EXCEPT ![rs.callback_id] = Append(@, OutputState[rs.state])]

\* Mutant: the callback id is kept after the callback was made.
StatusKept(s, rs, dev) ==
  /\ session' = [session EXCEPT ![s] = rs]
  /\ calls' = Told(rs)
  /\ device' = dev

\* session_status where the session lives on.
Status(s, rs, dev) ==
  /\ session' = [session EXCEPT ![s] = [rs EXCEPT !.callback_id = NoCallback]]
  /\ calls' = Told(rs)
  /\ device' = dev

\* outputs_device_session_remove
Unregistered(dev) == [dev EXCEPT !.session = IF dev.listed THEN NoSession ELSE @]

\* outputs_device_session_add, when session_make calls it.
Registered(dev, s) == [dev EXCEPT !.session = IF SessionRegistered /\ dev.listed THEN s ELSE @]

\* Freeing the connection frees the requests in its queue, also those that
\* were freed before: then anything may happen, a fault or nothing.
FreeRequests(rs) ==
  phase' \in IF \E i \in DOMAIN rs.requests : rs.requests[i].freed
             THEN {phase, "faulted"} ELSE {phase}

\* session_cleanup: the session leaves the list and the device, and is freed.
SessionCleanup(s, rs, dev) ==
  /\ session' = [session EXCEPT ![s] = NoSession]
  /\ device' = Unregistered(dev)
  /\ FreeRequests(rs)

\* session_success: report, and free the session.
Success(s, rs, dev) == calls' = Told(rs) /\ SessionCleanup(s, rs, dev)

\* session_failure
Failure(s, rs, dev) == Success(s, [rs EXCEPT !.state = FailedState(@)], dev)

\* start_failure: the key did not work.
StartFailure(s, rs, dev) ==
  Failure(s, rs, IF dev.listed /\ dev.auth_key
                 THEN [dev EXCEPT !.auth_key = FALSE, !.requires_auth = TRUE] ELSE dev)

\* airplay_device_start once the session at s is free. It connects to one of the
\* device's addresses, IPv6 first whatever v6_disabled says; only an IPv6 address
\* can fail to set up, and without another nothing is started.
Restarted(s, dev, callback_id, out) ==
  \/ \E f \in dev.addresses :
       LET rs == NewSession(f, callback_id) IN
       /\ MayEnd(rs, "START", 1, out)
       /\ session' = [session EXCEPT ![s] = SequenceStart(rs, "START", out)]
       /\ device' = Registered(dev, s)
  \/ /\ "v4" \notin dev.addresses /\ out = "not_built"
     /\ session' = [session EXCEPT ![s] = NoSession]
     /\ device' = dev

\* start_retry: a session over IPv6 is dropped and another started in its place.
StartRetry(s, rs, dev, out) ==
  \/ /\ ~dev.listed \/ rs.family # "v6" \/ rs.state \in Failed
     /\ out = "sent"
     /\ Failure(s, rs, dev)
  \/ /\ dev.listed /\ rs.family = "v6" /\ rs.state \notin Failed
     /\ Restarted(s, [Unregistered(dev) EXCEPT !.v6_disabled = TRUE], rs.callback_id, out)
     /\ FreeRequests(rs)
     /\ UNCHANGED calls

\* seq_ctx->on_error
Errored(s, rs, dev, seq, out) ==
  CASE OnError[seq] = "start_retry"   -> StartRetry(s, rs, dev, out)
    [] OnError[seq] = "start_failure" -> out = "sent" /\ StartFailure(s, rs, dev)
    [] OTHER                          -> out = "sent" /\ Failure(s, rs, dev)

\* session_pair_success: go on with the sequence the pairing was for.
PairSuccess(s, rs, dev, out) ==
  \/ /\ rs.next_seq = "CONTINUE" /\ out = "sent"
     /\ Success(s, rs, dev)
  \/ /\ rs.next_seq # "CONTINUE" /\ MayEnd(rs, rs.next_seq, 1, out)
     /\ session' = [session EXCEPT ![s] =
                      [SequenceStart(rs, rs.next_seq, out) EXCEPT !.next_seq = "CONTINUE"]]
     /\ device' = dev
     /\ UNCHANGED <<calls, phase>>

\* seq_ctx->on_success
Succeeded(s, rs, dev, seq, out) ==
  CASE OnSuccess[seq] = "session_pair_success" -> PairSuccess(s, rs, dev, out)
    [] OnSuccess[seq] = "session_success"   -> out = "sent" /\ Success(s, rs, dev)
    [] OnSuccess[seq] = "session_connected" ->
         out = "sent" /\ Status(s, [rs EXCEPT !.state = "CONNECTED"], dev) /\ UNCHANGED phase
    [] OnSuccess[seq] = "session_status"    ->
         out = "sent" /\ Status(s, rs, dev) /\ UNCHANGED phase
    [] OTHER -> /\ out = "sent"
                /\ session' = [session EXCEPT ![s] = rs]
                /\ device' = dev
                /\ UNCHANGED <<calls, phase>>

-----------------------------------------------------------------------------
(* Requests made of the backend by outputs.c *)

Issue(c) == phase = "up" /\ c = issued + 1 /\ issued' = c

\* session_make and the first request of the sequence.
Open(seq, out) ==
  \E s \in Sessions \ Live, f \in device.addresses, c \in Callbacks :
    LET rs == NewSession(f, c) IN
    /\ Issue(c)
    /\ device.session = NoSession
    /\ MayEnd(rs, seq, 1, out)
    /\ session' = [session EXCEPT ![s] = SequenceStart(rs, seq, out)]
    /\ device' = Registered(device, s)
    /\ UNCHANGED <<calls, metadata, keep_alive, phase>>

\* airplay_device_start, also from airplay_create; airplay_device_probe;
\* airplay_device_authorize with a PIN.
DeviceStart == \E out \in Outcomes : Open("START", out)
DeviceProbe == \E out \in Outcomes : Open("PROBE", out)
DeviceAuthorize == \E out \in Outcomes : Open("PAIR_SETUP", out)

\* Mutant: the new callback is forgotten.
CommandUnanswered(s, seq, out) ==
  \E c \in Callbacks :
    /\ Issue(c)
    /\ Len(session[s].requests) < MaxRequests
    /\ MayEnd(session[s], seq, 1, out)
    /\ session' = [session EXCEPT ![s] = SequenceStart(session[s], seq, out)]
    /\ UNCHANGED <<device, calls, metadata, keep_alive, phase>>

\* A sequence for the device's session; its callback replaces the one pending.
Command(s, seq, out) ==
  \E c \in Callbacks :
    LET rs == [session[s] EXCEPT !.callback_id = c] IN
    /\ Issue(c)
    /\ Len(rs.requests) < MaxRequests
    /\ MayEnd(rs, seq, 1, out)
    /\ session' = [session EXCEPT ![s] = SequenceStart(rs, seq, out)]
    /\ UNCHANGED <<device, calls, metadata, keep_alive, phase>>

\* airplay_device_stop: in any state.
DeviceStop ==
  \E s \in Live, out \in Outcomes : device.session = s /\ Command(s, "STOP", out)

\* airplay_device_flush: only when streaming.
DeviceFlush ==
  \E s \in Live, out \in Outcomes :
    device.session = s /\ InGroup(s, {"STREAMING"}) /\ Command(s, "FLUSH", out)

\* airplay_set_volume_one
DeviceVolumeSet ==
  \E s \in Live, out \in Outcomes :
    device.session = s /\ InGroup(s, Connected) /\ Command(s, "SEND_VOLUME", out)

\* airplay_device_cb_set
DeviceCbSet ==
  \E s \in Live, c \in Callbacks :
    /\ device.session = s
    /\ Issue(c)
    /\ session' = [session EXCEPT ![s].callback_id = c]
    /\ UNCHANGED <<device, calls, metadata, keep_alive, phase>>

\* outputs_device_remove of a device without a session.
DeviceRemove ==
  /\ phase = "up" /\ device.listed /\ device.session = NoSession
  /\ device' = [device EXCEPT !.listed = FALSE]
  /\ UNCHANGED <<session, issued, calls, metadata, keep_alive, phase>>

-----------------------------------------------------------------------------
(* Metadata, keep-alive and audio, for all sessions *)

Roomy(states) ==
  \A s \in Live : InGroup(s, states) => Len(session[s].requests) + Cardinality(Wanted) <= MaxRequests

MetadataOutcomes == [Wanted -> {"sent", "not_built", "payload_failed"}]

\* airplay_metadata_send
MetadataSend ==
  /\ phase = "up" /\ Wanted # {} /\ Roomy(Connected)
  /\ \E out \in [Sessions -> MetadataOutcomes] :
       session' = [s \in Sessions |-> IF InGroup(s, Connected)
                                      THEN MetadataSent(session[s], out[s]) ELSE session[s]]
  /\ metadata' = TRUE
  /\ UNCHANGED <<device, issued, calls, keep_alive, phase>>

\* airplay_metadata_purge
MetadataPurge ==
  /\ phase = "up" /\ metadata
  /\ metadata' = FALSE
  /\ UNCHANGED <<session, device, issued, calls, keep_alive, phase>>

\* airplay_keep_alive_timer_cb
KeepAlive ==
  /\ phase = "up" /\ keep_alive
  /\ \A s \in Live : Len(session[s].requests) < MaxRequests
  /\ \E out \in [Sessions -> {"sent", "not_built"}] :
       session' = [s \in Sessions |-> IF InGroup(s, Connected)
                                      THEN SequenceStart(session[s], "FEEDBACK", out[s])
                                      ELSE session[s]]
  /\ keep_alive' = (Live # {})
  /\ UNCHANGED <<device, issued, calls, metadata, phase>>

\* airplay_write: audio goes to every established session with a data socket
\* and a cipher, sending may fail, and the sessions that joined are streaming.
Write ==
  /\ phase = "up"
  /\ \E broken \in SUBSET {s \in Live : InGroup(s, {"CONNECTED", "STREAMING"}) /\ session[s].cipher} :
       session' = [s \in Sessions |->
                     CASE s \in broken                 -> Deferred(session[s])
                       [] InGroup(s, {"CONNECTED"}) /\ s \notin broken ->
                            [session[s] EXCEPT !.state = "STREAMING"]
                       [] OTHER                        -> session[s]]
  /\ keep_alive' = (keep_alive \/ \E s \in Live : session'[s].state = "STREAMING"
                                               /\ session[s].state = "CONNECTED")
  /\ UNCHANGED <<device, issued, calls, metadata, phase>>

-----------------------------------------------------------------------------
(* The event loop: connection events and the failure timer *)

Waiting(s, con) == phase = "up" /\ s \in Live /\ session[s].con = con

\* evrtsp_connectioncb on success: the first request is dispatched.
ConnectionMade(s) ==
  /\ Waiting(s, "CONNECTING")
  /\ \/ /\ ~Head(session[s].requests).freed
        /\ session' = [session EXCEPT ![s].con = "BUSY"]
        /\ UNCHANGED phase
     \/ /\ Head(session[s].requests).freed
        /\ phase' = "faulted"
        /\ UNCHANGED session
  /\ UNCHANGED <<device, issued, calls, metadata, keep_alive>>

\* sequence_continue_cb, called with an answer for the request at the head of
\* the queue after the connection went to state con.
Answered(s, con, ans) ==
  LET req  == Head(session[s].requests)
      step == seq_request[req.seq][req.step]
      rs   == Dequeued(session[s], con)
  IN  /\ ~req.freed
      /\ \E out \in Outcomes, mout \in MetadataOutcomes :
           LET h == ResponseHandled(rs, device, step, ans, metadata, mout) IN
            \/ /\ ans.code # "OK" /\ step \notin Proceeds
               /\ Errored(s, rs, device, req.seq, out)
            \/ /\ (ans.code = "OK" \/ step \in Proceeds) /\ h.next = "ABORT"
               /\ Errored(s, h.session, h.device, req.seq, out)
            \/ /\ (ans.code = "OK" \/ step \in Proceeds) /\ h.next \in SeqTypes
               /\ MayEnd(h.session, h.next, 1, out)
               /\ session' = [session EXCEPT ![s] = SequenceStart(h.session, h.next, out)]
               /\ device' = h.device
               /\ UNCHANGED <<calls, phase>>
            \/ /\ (ans.code = "OK" \/ step \in Proceeds) /\ h.next = "CONTINUE"
               /\ req.step < Len(seq_request[req.seq])
               /\ MayEnd(h.session, req.seq, req.step + 1, out)
               /\ session' = [session EXCEPT ![s] =
                                SequenceContinue(h.session, req.seq, req.step + 1, out)]
               /\ device' = h.device
               /\ UNCHANGED <<calls, phase>>
            \/ /\ (ans.code = "OK" \/ step \in Proceeds) /\ h.next = "CONTINUE"
               /\ req.step = Len(seq_request[req.seq])
               /\ Succeeded(s, h.session, h.device, req.seq, out)

\* evrtsp_connection_done: an answer is complete, or the device closed the
\* connection in the middle of it. The next request is dispatched first.
RequestDone(s) ==
  /\ Waiting(s, "BUSY")
  /\ LET req == Head(session[s].requests) IN
       \E ans \in Answers(seq_request[req.seq][req.step]) :
         Answered(s, NextOn(Tail(session[s].requests)), ans)
  /\ UNCHANGED <<issued, metadata, keep_alive>>

\* evrtsp_connectioncb on failure: every request's callback is called with the
\* request, its status code 0. The first ends the session and with it the
\* connection, whose queue the loop then looks at.
ConnectionRefused(s) ==
  /\ Waiting(s, "CONNECTING")
  /\ \/ Answered(s, "DISCONNECTED", [code |-> "OTHER", body |-> "bad", flags |-> "NONE"])
     \/ phase' = "faulted" /\ UNCHANGED <<session, device, calls>>
  /\ UNCHANGED <<issued, metadata, keep_alive>>

\* evrtsp_connection_fail: a timeout, a write or read error, a corrupt answer.
\* The connection is reset, and set up again if requests remain; the request's
\* callback is called with NULL.
RequestFailed(s) ==
  /\ Waiting(s, "BUSY")
  /\ LET req == Head(session[s].requests)
         con == IF Tail(session[s].requests) = <<>> THEN "DISCONNECTED" ELSE "CONNECTING"
     IN  /\ ~req.freed
         /\ \E out \in Outcomes :
              Errored(s, Dequeued(Reset(session[s]), con), device, req.seq, out)
  /\ UNCHANGED <<issued, metadata, keep_alive>>

\* evrtsp_detect_close_cb: the device closes an idle connection.
ConnectionClosed(s) ==
  /\ Waiting(s, "IDLE")
  /\ session' = [session EXCEPT ![s] = Reset(@)]
  /\ UNCHANGED <<device, issued, calls, metadata, keep_alive, phase>>

\* deferred_session_failure_cb
FailureTimer(s) ==
  /\ phase = "up" /\ s \in Live /\ session[s].deferred
  /\ Failure(s, session[s], device)
  /\ UNCHANGED <<issued, metadata, keep_alive>>

\* airplay_deinit, from airplay_destroy: the sessions are freed unreported.
Deinit ==
  /\ phase = "up"
  /\ session' = [s \in Sessions |-> NoSession]
  /\ keep_alive' = FALSE
  /\ phase' = "down"
  /\ UNCHANGED <<device, issued, calls, metadata>>

Next ==
  \/ DeviceStart \/ DeviceProbe \/ DeviceAuthorize
  \/ DeviceStop \/ DeviceFlush \/ DeviceVolumeSet \/ DeviceCbSet \/ DeviceRemove
  \/ MetadataSend \/ MetadataPurge \/ KeepAlive \/ Write \/ Deinit
  \/ \E s \in Sessions :
       \/ ConnectionMade(s) \/ ConnectionRefused(s) \/ RequestDone(s)
       \/ RequestFailed(s) \/ ConnectionClosed(s) \/ FailureTimer(s)

Spec == Init /\ [][Next]_vars

\* The event loop goes on: a connection attempt and an answer end, at the latest
\* by RTSP_CONNECT_TIMEOUT, RTSP_READ_TIMEOUT or RTSP_WRITE_TIMEOUT, and a zero
\* timer fires. Nothing makes the player, the device or the network do more.
FairSpec ==
  /\ Spec
  /\ \A s \in Sessions :
       /\ WF_vars(ConnectionMade(s) \/ ConnectionRefused(s))
       /\ WF_vars(RequestDone(s) \/ RequestFailed(s))
       /\ WF_vars(FailureTimer(s))

-----------------------------------------------------------------------------
(* Properties *)

\* Type invariant; the step of a queued request is one its sequence has.
TypeOK ==
  /\ session \in [Sessions -> SessionType \cup {NoSession}]
  /\ \A s \in Live : \A i \in DOMAIN session[s].requests :
       session[s].requests[i].step \in DOMAIN seq_request[session[s].requests[i].seq]
  /\ device \in [listed : BOOLEAN, auth_key : BOOLEAN, requires_auth : BOOLEAN,
                 v6_disabled : BOOLEAN, session : Sessions \cup {NoSession},
                 addresses : AddressSets]
  /\ issued \in 0..MaxCallbacks
  /\ calls \in [Callbacks -> Seq({OutputState[x] : x \in States})]
  /\ metadata \in BOOLEAN /\ keep_alive \in BOOLEAN
  /\ phase \in {"up", "down", "faulted"}

InFlight(rs) == {i \in DOMAIN rs.requests : ~rs.requests[i].freed}

\* The bookkeeping the "Request queueing HOWTO" of airplay.c asks for: requests
\* in flight are counted exactly, through every error path, and there is a close
\* callback only when there are none (so a close is reported once, by a request
\* or by the close callback). The connection idles exactly with an empty queue.
RequestsCounted ==
  \A s \in Live :
    LET rs == session[s] IN
    /\ rs.reqs_in_flight = Cardinality(InFlight(rs))
    /\ rs.closecb => rs.reqs_in_flight = 0
    /\ rs.con = "IDLE" => rs.requests = <<>>
    /\ rs.con \in {"BUSY", "CONNECTING"} => rs.requests # <<>>

\* "The output backend must make all the callbacks": a callback promised by the
\* return value of device_start, probe or authorize is made, or still owed by a
\* session that lives, through retries, diverted sequences and failures; no
\* callback is made twice, and none is owed twice. (A device with no IPv4 address
\* is excepted: start_retry ignores that nothing could be started again.)
CallbackOwed ==
  phase = "up" /\ "v4" \in device.addresses =>
    \A c \in 1..issued :
      IF calls[c] = <<>> THEN \E s \in Live : session[s].callback_id = c
      ELSE /\ Len(calls[c]) = 1
           /\ \A s \in Live : session[s].callback_id # c

\* The same of the latest callback, when commands replace the pending one.
LatestCallbackOwed ==
  phase = "up" /\ issued > 0 /\ "v4" \in device.addresses =>
    IF calls[issued] = <<>> THEN \E s \in Live : session[s].callback_id = issued
    ELSE Len(calls[issued]) = 1 /\ \A s \in Live : session[s].callback_id # issued

\* "Session established": a session audio is written to (packets_send, on
\* CONNECTED and STREAMING) has a connected data socket, whatever answers of
\* several sequences came in between.
EstablishedHasServer ==
  \A s \in Live : session[s].state \in {"CONNECTED", "STREAMING"} => session[s].server

\* Unless a password is configured, playback is set up only on a session whose
\* pairing gave a session key, so that control and audio are ciphered.
PlaybackCiphered ==
  \A s \in Live : ~HasPassword /\ (\E i \in DOMAIN session[s].requests :
                                  session[s].requests[i].seq = "START_PLAYBACK")
     => session[s].cipher

\* start_retry's comment: after the retry the device is not tried on IPv6.
RetryFallsBackToV4 ==
  \A s \in Live : "v4" \in device.addresses /\ device.v6_disabled => session[s].family = "v4"

\* enum airplay_state's comment on CONNECTED: "streaming ready".
ConnectedStreamingReady ==
  \A s \in Live : session[s].state = "CONNECTED" => session[s].cipher

\* evrtsp.h on evrtsp_make_request: "The connection gets ownership of the
\* request", so the caller frees none that is in the queue.
QueueOwnsRequests ==
  \A s \in Live : \A i \in DOMAIN session[s].requests : ~session[s].requests[i].freed

\* sequence_continue's comment on the deferred failure: it "gives status to
\* player", so there is still a callback to give it with.
DeferredFailureTold == \A s \in Live : session[s].deferred => session[s].callback_id # NoCallback

\* Every callback promised is eventually made, unless the program ends first.
CallbackMade ==
  \A c \in Callbacks : issued >= c ~> (calls[c] # <<>> \/ phase # "up")

\* device_stop: "Close a session prepared by device_start". Once TEARDOWN is
\* queued the session ends, behind whatever was queued before, answered or not.
StopEnds ==
  \A s \in Sessions :
    (s \in Live /\ \E i \in DOMAIN session[s].requests : session[s].requests[i].seq = "STOP")
      ~> (s \notin Live \/ phase # "up")
=============================================================================
