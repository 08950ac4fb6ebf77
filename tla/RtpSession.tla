----------------------------- MODULE RtpSession -----------------------------
(***************************************************************************)
(* One RTP session used the way airplay.c uses it: a packet is prepared,   *)
(* sent and committed by one handler (packets_send), sync is polled, the   *)
(* session may be flushed, and any sequence number may be asked for.       *)
(***************************************************************************)
EXTENDS RtpCommon, Sequences

CONSTANT MaxSync    \* bound: samples counted between two sync polls

ASSUME MaxSyncAssumption == MaxSync \in Nat

VARIABLE rtp

RtpInit == \E seqnum \in SeqNums, pos \in Positions : rtp = RtpNew(seqnum, pos)

\* packets_send's use of the session: rtp_packet_next, fill in the payload,
\* send, rtp_packet_commit.
SendPacket ==
  \E n \in SampleCounts, payload \in Payloads :
    /\ rtp.sync_counter + n <= MaxSync
    /\ rtp' = PacketCommit(rtp, PacketNext(rtp, n, FALSE, payload))

\* packets_sync_send's poll of the sync counter.
PollSync == rtp' = SyncPolled(rtp)

\* rtp_session_flush
Flush == rtp' = RtpFlush(rtp)

RtpNext == SendPacket \/ PollSync \/ Flush

RtpSpec == RtpInit /\ [][RtpNext]_rtp

-----------------------------------------------------------------------------

\* Type invariant of the session record.
TypeOK ==
  rtp \in [seqnum : SeqNums, pos : Positions,
           pktbuf : [Slots -> Packets \cup {NoPacket}], pktbuf_next : Slots,
           pktbuf_len : 0..BufSize, sync_counter : Nat]

\* The slot written k packets ago.
SlotBack(k) == (rtp.pktbuf_next - k) % BufSize

\* The ring read from its oldest packet to its newest.
Window == [i \in 1..rtp.pktbuf_len |-> rtp.pktbuf[SlotBack(rtp.pktbuf_len + 1 - i)]]

\* The k-th packet back is a packet and carries the k-th number back, however
\* the sequence number and the write position have wrapped.
RingConsecutive ==
  \A k \in 1..rtp.pktbuf_len :
    /\ rtp.pktbuf[SlotBack(k)] \in Packets
    /\ rtp.pktbuf[SlotBack(k)].seqnum = (rtp.seqnum - k) % SeqNumMod

W == INSTANCE RetransmitWindow WITH window <- Window, nextSeq <- rtp.seqnum,
                                    nextPos <- rtp.pos

\* The ring implements the abstract retransmit window: rtp_packet_next writing
\* in place over the oldest slot loses no packet that should still be held.
ImplementsWindow == W!Spec

\* rtp_packet_get answers every request (any uint16, also one far outside the
\* buffer, on either side of the wrap) as the window does: the very packet
\* with that number when it is still held, NULL when it is not.
RetransmitExact == \A s \in SeqNums : PacketGet(rtp, s) = W!Lookup(s)

\* rtp_common.c's comment: the XOR test equals the spelled-out range test, for
\* the range the session has now and every request.
XorAsDocumented ==
  rtp.pktbuf_len > 0 =>
    LET last  == (rtp.seqnum - 1) % SeqNumMod
        first == (rtp.seqnum - rtp.pktbuf_len) % SeqNumMod
    IN  \A s \in SeqNums :
          Buffered(first, last, s) <=> BufferedAsDocumented(first, last, s)

=============================================================================
