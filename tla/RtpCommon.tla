----------------------------- MODULE RtpCommon -----------------------------
(***************************************************************************)
(* The RTP session of src/src/rtp_common.c as operators on a record: a     *)
(* ring buffer of the last packets sent (kept for retransmission), the     *)
(* 16-bit sequence number and the 32-bit RTP position of the next packet,  *)
(* and the count of samples since the last sync packet.                    *)
(*                                                                         *)
(* A packet is what the ring slot holds: the sequence number and RTP time  *)
(* written into its header, the marker bit, its number of samples, and its *)
(* payload, an opaque value.                                               *)
(***************************************************************************)
EXTENDS Integers

CONSTANTS SeqNumMod,   \* 2^16: sequence numbers are uint16_t
          PosMod,      \* 2^32: RTP positions are uint32_t
          BufSize,     \* pktbuf_size, 1000 in airplay.c
          SyncEach,    \* sync_each_nsamples; 0 means never sync
          Payloads,    \* the possible payloads of a packet
          SampleCounts \* the numbers of samples a packet may carry

\* The ring is smaller than the sequence space (1000 < 65536 in the code), so
\* a sequence number names at most one buffered packet.
ASSUME RtpAssumption ==
  /\ SeqNumMod \in Nat \ {0} /\ PosMod \in Nat \ {0}
  /\ BufSize \in Nat \ {0} /\ BufSize < SeqNumMod
  /\ SyncEach \in Nat
  /\ SampleCounts \subseteq Nat

SeqNums == 0..(SeqNumMod - 1)
Positions == 0..(PosMod - 1)
Slots == 0..(BufSize - 1)

NoPacket == [none |-> TRUE]
Packets == [seqnum : SeqNums, rtptime : Positions, marker : BOOLEAN,
            samples : SampleCounts, payload : Payloads]

\* rtp_session_new: sequence number and position start at random values, and
\* the ring is calloc'ed.
RtpNew(seqnum, pos) ==
  [seqnum |-> seqnum, pos |-> pos, pktbuf |-> [i \in Slots |-> NoPacket],
   pktbuf_next |-> 0, pktbuf_len |-> 0, sync_counter |-> 0]

\* rtp_session_flush: forgets the packets but keeps the write position.
RtpFlush(rtp) == [rtp EXCEPT !.pktbuf_len = 0, !.sync_counter = 0]

\* rtp_packet_next: fills in the slot at pktbuf_next, in place; the caller then
\* writes the payload into it. The slot may still hold the oldest packet.
PacketNext(rtp, samples, marker, payload) ==
  [seqnum |-> rtp.seqnum, rtptime |-> rtp.pos, marker |-> marker,
   samples |-> samples, payload |-> payload]

\* Mutant: the write position stays at the ring's last slot instead of wrapping.
PacketCommitNoWrap(rtp, pkt) ==
  [seqnum       |-> (rtp.seqnum + 1) % SeqNumMod,
   pos          |-> (rtp.pos + pkt.samples) % PosMod,
   pktbuf       |-> [rtp.pktbuf EXCEPT ![rtp.pktbuf_next] = pkt],
   pktbuf_next  |-> IF rtp.pktbuf_next = BufSize - 1 THEN rtp.pktbuf_next
                    ELSE rtp.pktbuf_next + 1,
   pktbuf_len   |-> IF rtp.pktbuf_len < BufSize THEN rtp.pktbuf_len + 1 ELSE BufSize,
   sync_counter |-> rtp.sync_counter + pkt.samples]

\* Mutant: the retransmit buffer is taken to be full one packet too late.
PacketCommitTooLong(rtp, pkt) ==
  [seqnum       |-> (rtp.seqnum + 1) % SeqNumMod,
   pos          |-> (rtp.pos + pkt.samples) % PosMod,
   pktbuf       |-> [rtp.pktbuf EXCEPT ![rtp.pktbuf_next] = pkt],
   pktbuf_next  |-> (rtp.pktbuf_next + 1) % BufSize,
   pktbuf_len   |-> IF rtp.pktbuf_len <= BufSize THEN rtp.pktbuf_len + 1
                    ELSE rtp.pktbuf_len,
   sync_counter |-> rtp.sync_counter + pkt.samples]

\* rtp_packet_commit of the packet pkt that rtp_packet_next put into the slot
\* at pktbuf_next: it becomes retrievable and the counters advance.
PacketCommit(rtp, pkt) ==
  [seqnum       |-> (rtp.seqnum + 1) % SeqNumMod,
   pos          |-> (rtp.pos + pkt.samples) % PosMod,
   pktbuf       |-> [rtp.pktbuf EXCEPT ![rtp.pktbuf_next] = pkt],
   pktbuf_next  |-> (rtp.pktbuf_next + 1) % BufSize,
   pktbuf_len   |-> IF rtp.pktbuf_len < BufSize THEN rtp.pktbuf_len + 1
                    ELSE rtp.pktbuf_len,
   sync_counter |-> rtp.sync_counter + pkt.samples]

\* Mutant: the range check without the wrap-around case.
BufferedNoWrap(first, last, seqnum) == first <= seqnum /\ seqnum <= last

\* The wrap-around test of rtp_packet_get, written with two XORs. # is XOR.
Buffered(first, last, seqnum) ==
  ((first <= last) # (first <= seqnum)) # (seqnum <= last)

\* What the comment above that test says it is equivalent to.
BufferedAsDocumented(first, last, seqnum) ==
  \/ first <= last /\ first <= seqnum /\ seqnum <= last
  \/ first > last /\ (first <= seqnum \/ seqnum <= last)

\* Mutant: the distance is taken from the last committed packet.
PacketGetOffByOne(rtp, seqnum) ==
  LET last  == (rtp.seqnum - 1) % SeqNumMod
      first == (rtp.seqnum - rtp.pktbuf_len) % SeqNumMod
      delta == (last - seqnum) % SeqNumMod
  IN  IF rtp.pktbuf_len = 0 \/ ~Buffered(first, last, seqnum) THEN NoPacket
      ELSE rtp.pktbuf[(rtp.pktbuf_next + BufSize - delta) % BufSize]

\* rtp_packet_get: the buffered packet with that sequence number, or NULL.
PacketGet(rtp, seqnum) ==
  LET last  == (rtp.seqnum - 1) % SeqNumMod
      first == (rtp.seqnum - rtp.pktbuf_len) % SeqNumMod
      delta == (rtp.seqnum - seqnum) % SeqNumMod
  IN  IF rtp.pktbuf_len = 0 \/ ~Buffered(first, last, seqnum) THEN NoPacket
      ELSE rtp.pktbuf[(rtp.pktbuf_next + BufSize - delta) % BufSize]

\* rtp_sync_is_time: whether to sync now ...
SyncIsTime(rtp) == SyncEach # 0 /\ rtp.sync_counter > SyncEach

\* ... and the counter it leaves.
SyncPolled(rtp) == IF SyncIsTime(rtp) THEN [rtp EXCEPT !.sync_counter = 0] ELSE rtp

=============================================================================
