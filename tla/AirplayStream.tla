--------------------------- MODULE AirplayStream ---------------------------
(***************************************************************************)
(* Audio to several devices (src/src/airplay.c): airplay_write feeds a     *)
(* master session, whose RTP session all the sessions share. A write       *)
(* stamps the clock, sends sync packets, buffers the samples, sends each   *)
(* full packet to every session and then lets those that joined stream.    *)
(*                                                                         *)
(* A write is a few steps, WriteBegin, PacketsSend for each packet,        *)
(* WriteEnd; nothing else happens between them, as the event loop has one  *)
(* thread. What a device was sent is kept in told: history, not code.      *)
(***************************************************************************)
EXTENDS RtpCommon, Sequences

CONSTANTS Sessions,      \* addresses of sessions
          PacketSamples, \* samples_per_packet
          OutputBuffer,  \* output_buffer_samples
          MaxWrite,      \* bound: samples in one write
          StartSeqs, StartPositions  \* bound: the random values of rtp_session_new

\* airplay.c has the session sync each sample_rate samples, never without end.
ASSUME StreamAssumption ==
  /\ SyncEach # 0
  /\ PacketSamples \in SampleCounts \ {0} /\ OutputBuffer \in Nat /\ MaxWrite \in Nat
  /\ PacketSamples <= OutputBuffer + 1 /\ OutputBuffer + MaxWrite < PosMod
  /\ StartSeqs \subseteq SeqNums /\ StartPositions \subseteq Positions

VARIABLES sessions,   \* airplay_sessions, a list with the newest first
          audioState, \* their states
          rtp,        \* the master session's rtp_session, while there is one
          buffered,   \* input_buffer_samples
          cur_stamp,  \* cur_stamp.pos
          writing,    \* the samples of the airplay_write going on
          told,       \* what each playing device was sent since it joined
          net         \* samples received since the last stamp, less those dropped

streamVars == <<sessions, audioState, rtp, buffered, cur_stamp, writing, told, net>>

NoMaster == [master |-> FALSE]
RtpType == [seqnum : SeqNums, pos : Positions,
            pktbuf : [Slots -> Packets \cup {NoPacket}], pktbuf_next : Slots,
            pktbuf_len : 0..BufSize, sync_counter : Nat]
Never == -1
ListedSessions == {sessions[i] : i \in DOMAIN sessions}
Idle == writing = Never

\* States before CONNECTED, TEARDOWN and AUTH are alike for audio.
StreamStates == {"OTHER", "CONNECTED", "STREAMING", "FAILED"}
Playing(s) == audioState[s] \in {"CONNECTED", "STREAMING"}

\* sync: the RTP time of the initial sync packet, until audio follows it;
\* recent: the last packets sent; since: the samples since the last sync packet.
Untold == [sync |-> Never, started |-> FALSE, recent |-> <<>>, since |-> 0]

StreamInit ==
  /\ sessions = <<>>
  /\ audioState = [s \in Sessions |-> "NONE"]
  /\ rtp = NoMaster /\ buffered = 0 /\ cur_stamp = 0
  /\ writing = Never
  /\ told = [s \in Sessions |-> Untold] /\ net = Never

-----------------------------------------------------------------------------
(* Sessions come and go *)

\* session_make, with master_session_make: the first session of a quality
\* brings a new master session.
SessionMake(s) ==
  /\ Idle /\ audioState[s] = "NONE"
  /\ sessions' = <<s>> \o sessions
  /\ audioState' = [audioState EXCEPT ![s] = "OTHER"]
  /\ told' = [told EXCEPT ![s] = Untold]
  /\ IF sessions # <<>> THEN UNCHANGED <<rtp, buffered, cur_stamp, net>>
     ELSE /\ \E seqnum \in StartSeqs, pos \in StartPositions : rtp' = RtpNew(seqnum, pos)
          /\ buffered' = 0 /\ cur_stamp' = 0 /\ net' = Never
  /\ UNCHANGED writing

\* session_connected, and response_handler_flush, also if a failure is pending.
SessionConnected(s) ==
  /\ Idle /\ s \in ListedSessions
  /\ audioState' = [audioState EXCEPT ![s] = "CONNECTED"]
  /\ told' = [told EXCEPT ![s] = Untold]
  /\ UNCHANGED <<sessions, rtp, buffered, cur_stamp, writing, net>>

\* payload_make_teardown's caller and the handlers of a start in progress
\* (another state), or rtsp_close_cb (FAILED).
SessionSilent(s) ==
  /\ Idle /\ s \in ListedSessions
  /\ \E st \in {"OTHER", "FAILED"} : audioState' = [audioState EXCEPT ![s] = st]
  /\ told' = [told EXCEPT ![s] = Untold]
  /\ UNCHANGED <<sessions, rtp, buffered, cur_stamp, writing, net>>

\* session_cleanup, with master_session_cleanup: the last session of a
\* master session takes it along.
SessionCleanup(s) ==
  /\ Idle
  /\ \E i \in DOMAIN sessions :
       /\ sessions[i] = s
       /\ sessions' = SubSeq(sessions, 1, i - 1) \o SubSeq(sessions, i + 1, Len(sessions))
  /\ audioState' = [audioState EXCEPT ![s] = "NONE"]
  /\ IF sessions' # <<>> THEN UNCHANGED <<rtp, buffered, cur_stamp, net>>
     ELSE rtp' = NoMaster /\ buffered' = 0 /\ cur_stamp' = 0 /\ net' = Never
  /\ told' = [told EXCEPT ![s] = Untold]
  /\ UNCHANGED writing

-----------------------------------------------------------------------------
(* Sync *)

\* Mutant: the samples still buffered are not counted as received.
TimestampSetUnbuffered == (rtp.pos - OutputBuffer) % PosMod

\* timestamp_set: the RTP time that should be playing now.
TimestampSet == (rtp.pos + buffered - OutputBuffer) % PosMod

\* Mutant: the sync counter is polled anew for each session.
SyncedHeadOnly(s) ==
  CASE audioState[s] = "CONNECTED" -> [Untold EXCEPT !.sync = rtp.pos]
    [] audioState[s] = "STREAMING" /\ SyncIsTime(rtp) /\ s = Head(sessions) ->
         [told[s] EXCEPT !.since = 0]
    [] OTHER -> told[s]

\* Mutant: a device that joined waits for the periodic sync.
SyncedWhenTime(s) ==
  CASE audioState[s] = "CONNECTED" /\ SyncIsTime(rtp) -> [Untold EXCEPT !.sync = rtp.pos]
    [] audioState[s] = "STREAMING" /\ SyncIsTime(rtp) -> [told[s] EXCEPT !.since = 0]
    [] OTHER -> told[s]

\* packets_sync_send: an initial sync (0x90) for a device that joined, a
\* periodic one (0x80) for those that stream. Both carry the next RTP time.
Synced(s) ==
  CASE audioState[s] = "CONNECTED" -> [Untold EXCEPT !.sync = rtp.pos]
    [] audioState[s] = "STREAMING" /\ SyncIsTime(rtp) -> [told[s] EXCEPT !.since = 0]
    [] OTHER -> told[s]

\* airplay_write up to its loop over packets.
WriteBegin(n) ==
  /\ Idle /\ sessions # <<>>
  /\ cur_stamp' = TimestampSet
  /\ told' = [s \in Sessions |-> Synced(s)]
  /\ rtp' = SyncPolled(rtp)
  /\ buffered' = buffered + n
  /\ writing' = n /\ net' = n
  /\ UNCHANGED <<sessions, audioState>>

-----------------------------------------------------------------------------
(* Audio *)

\* The history of a device that is sent one more packet.
Offered(t, pkt) ==
  LET recent == Append(t.recent, pkt)
  IN  [sync |-> Never, started |-> TRUE, since |-> t.since + pkt.samples,
       recent |-> IF Len(recent) > BufSize THEN Tail(recent) ELSE recent]

\* The marker bit says that the device joined.
Marked(s, pkt) == [pkt EXCEPT !.marker = audioState[s] = "CONNECTED"]

\* The one packet buffer keeps the marker bit of the last session served.
Kept(pkt) == LET served == SelectSeq(sessions, Playing)
             IN  IF served = <<>> THEN pkt ELSE Marked(served[Len(served)], pkt)

\* packet_send: the state of the session after it. A packet that cannot be encrypted
\* or is cut short is only lost, like one lost on the network; a send that fails
\* fails the session.
PacketSend(s, fails) == IF fails THEN "FAILED" ELSE audioState[s]

\* packets_send when alac_encode succeeds.
PacketEncoded ==
  \E payload \in Payloads, broken \in SUBSET {s \in Sessions : Playing(s)} :
    LET pkt == PacketNext(rtp, PacketSamples, FALSE, payload)
    IN  /\ told' = [s \in Sessions |-> IF Playing(s) /\ s \notin broken
                                       THEN Offered(told[s], Marked(s, pkt)) ELSE Untold]
        /\ audioState' = [s \in Sessions |-> PacketSend(s, s \in broken)]
        /\ rtp' = PacketCommit(rtp, Kept(pkt))
        /\ net' = net

\* Mutant: the packet that was not made takes its number and time all the same.
PacketRefusedCommits ==
  /\ \E payload \in Payloads : rtp' = PacketCommit(rtp, PacketNext(rtp, PacketSamples, FALSE, payload))
  /\ net' = (net - PacketSamples) % PosMod
  /\ UNCHANGED <<told, audioState>>

\* packets_send when alac_encode fails: the samples are gone.
PacketRefused ==
  /\ net' = (net - PacketSamples) % PosMod
  /\ UNCHANGED <<told, audioState, rtp>>

\* Mutant: a packet is sent only when there is more than a packet.
MorePacket == buffered > PacketSamples

\* There is a full packet in the input buffer.
FullPacket == buffered >= PacketSamples

\* One round of airplay_write's loop over full packets.
PacketsSend ==
  /\ ~Idle /\ FullPacket
  /\ buffered' = buffered - PacketSamples
  /\ PacketEncoded \/ PacketRefused
  /\ UNCHANGED <<sessions, cur_stamp, writing>>

\* The rest of airplay_write: the devices that joined now stream.
WriteEnd ==
  /\ ~Idle /\ ~FullPacket
  /\ audioState' = [s \in Sessions |-> IF audioState[s] = "CONNECTED" THEN "STREAMING" ELSE audioState[s]]
  /\ writing' = Never
  /\ UNCHANGED <<sessions, rtp, buffered, cur_stamp, told, net>>

\* packets_resend, to a session that has its audio socket: an answer changes
\* nothing unless sending it fails.
PacketsResend(s) ==
  /\ \E seqnum \in SeqNums : PacketGet(rtp, seqnum) # NoPacket
  /\ audioState' = [audioState EXCEPT ![s] = PacketSend(s, TRUE)]
  /\ told' = [told EXCEPT ![s] = Untold]
  /\ UNCHANGED <<sessions, rtp, buffered, cur_stamp, writing, net>>

\* session_find_by_address; addresses of both families are names here.
SessionFindByAddress(address) == {s \in ListedSessions : s = address}

\* control_svc_cb: a device asks for packets it missed.
ControlSvcCb(address) == Idle /\ \E s \in SessionFindByAddress(address) : PacketsResend(s)

StreamNext ==
  \/ \E s \in Sessions : \/ SessionMake(s) \/ SessionConnected(s) \/ SessionSilent(s)
                         \/ SessionCleanup(s) \/ ControlSvcCb(s)
  \/ \E n \in 1..MaxWrite : WriteBegin(n)
  \/ PacketsSend
  \/ WriteEnd

StreamSpec == StreamInit /\ [][StreamNext]_streamVars

-----------------------------------------------------------------------------
(* Properties *)

\* Type invariant. The list holds exactly the sessions there are, each once,
\* and there is a master session while there are any.
StreamTypeOK ==
  /\ audioState \in [Sessions -> StreamStates \cup {"NONE"}]
  /\ sessions \in Seq(Sessions)
  /\ \A i, j \in DOMAIN sessions : sessions[i] = sessions[j] => i = j
  /\ ListedSessions = {s \in Sessions : audioState[s] # "NONE"}
  /\ (rtp = NoMaster) = (sessions = <<>>)
  /\ rtp # NoMaster => rtp \in RtpType
  /\ buffered \in Nat /\ cur_stamp \in Positions
  /\ writing \in {Never} \cup 1..MaxWrite
  /\ net \in {Never} \cup Positions

\* The table above timestamp_set: the audio a device that joined gets first
\* has the RTP time of its initial sync packet, sent before. So it does when a
\* write is too short to fill a packet and the device streams before its first
\* packet, when the encoder drops packets, and after a flush.
SyncedBeforeAudio ==
  [][\A s \in Sessions :
       ~told[s].started /\ told'[s].started =>
         told[s].sync # Never /\ told'[s].recent[1].rtptime = told[s].sync]_streamVars

\* The packets a playing device is sent follow each other in number and time,
\* whichever sessions join, fail or leave and whatever the encoder drops.
NothingSkipped ==
  \A s \in Sessions : Playing(s) =>
    LET recent == told[s].recent
    IN  \A i \in DOMAIN recent :
          /\ (recent[i].seqnum + Len(recent) + 1 - i) % SeqNumMod = rtp.seqnum
          /\ (recent[i].rtptime + (Len(recent) + 1 - i) * PacketSamples) % PosMod = rtp.pos

\* A device that asks for one of the last packets it was sent gets that audio,
\* number and time again, though other sessions used the buffer too.
\* Only the marker bit may differ.
ResentAudio ==
  \A s \in Sessions : Playing(s) =>
    \A i \in DOMAIN told[s].recent :
      LET pkt == told[s].recent[i]
          got == PacketGet(rtp, pkt.seqnum)
      IN  got \in {pkt, [pkt EXCEPT !.marker = ~@]}

\* timestamp_set's calculation: the next sample received will be due
\* output_buffer_samples after the last stamp, plus what was received since
\* and not dropped by the encoder, however much of it is still buffered.
MediaClock ==
  net # Never => (rtp.pos + buffered - cur_stamp - net) % PosMod = OutputBuffer

\* No packet is sent after it was due, and none much too early: while a write
\* sends, the next packet is ahead of the stamp by the output buffer, less the
\* part of a packet held back before, plus at most this write.
AudioAhead ==
  ~Idle => (rtp.pos - cur_stamp) % PosMod
             \in (OutputBuffer - (PacketSamples - 1))..(OutputBuffer + writing)

\* A streaming device never gets more audio without a sync packet than the sync
\* interval and what one write sends, though the counter is shared and is
\* reset when no device streams.
SyncedOften ==
  \A s \in Sessions : audioState[s] = "STREAMING" =>
    told[s].since <= SyncEach + MaxWrite + PacketSamples - 1

=============================================================================
