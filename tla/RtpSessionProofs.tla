-------------------------- MODULE RtpSessionProofs --------------------------
(***************************************************************************)
(* For every sequence width, ring size and packet size: the RTP session's  *)
(* type invariant, the numbering of its ring, the exactness of             *)
(* rtp_packet_get, and the refinement of the abstract retransmit window.   *)
(***************************************************************************)
EXTENDS RtpSession, RtpLemmas, SequenceTheorems

\* The two-XOR test of rtp_packet_get equals the range test its comment spells
\* out, for any first, last and requested number.
THEOREM XorEquivalence ==
  ASSUME NEW first \in Int, NEW last \in Int, NEW seqnum \in Int
  PROVE  Buffered(first, last, seqnum) <=> BufferedAsDocumented(first, last, seqnum)
  BY DEF Buffered, BufferedAsDocumented

-----------------------------------------------------------------------------

\* The types of the fields, one by one.
LEMMA Fields ==
  ASSUME TypeOK
  PROVE  /\ rtp.seqnum \in 0..(SeqNumMod - 1)
         /\ rtp.pos \in 0..(PosMod - 1)
         /\ rtp.pktbuf \in [Slots -> Packets \cup {NoPacket}]
         /\ rtp.pktbuf_next \in 0..(BufSize - 1)
         /\ rtp.pktbuf_len \in 0..BufSize
         /\ rtp.sync_counter \in Nat
  BY DEF TypeOK, SeqNums, Positions, Slots

\* What preparing and committing one packet does to each field.
LEMMA SendEffect ==
  ASSUME TypeOK, NEW n \in SampleCounts, NEW d \in Payloads,
         rtp' = PacketCommit(rtp, PacketNext(rtp, n, FALSE, d))
  PROVE  /\ PacketNext(rtp, n, FALSE, d) \in Packets
         /\ PacketNext(rtp, n, FALSE, d).seqnum = rtp.seqnum
         /\ rtp' = [seqnum |-> rtp'.seqnum, pos |-> rtp'.pos, pktbuf |-> rtp'.pktbuf,
                    pktbuf_next |-> rtp'.pktbuf_next, pktbuf_len |-> rtp'.pktbuf_len,
                    sync_counter |-> rtp'.sync_counter]
         /\ rtp'.seqnum = (rtp.seqnum + 1) % SeqNumMod
         /\ rtp'.pos = (rtp.pos + n) % PosMod
         /\ rtp'.pktbuf = [rtp.pktbuf EXCEPT ![rtp.pktbuf_next] = PacketNext(rtp, n, FALSE, d)]
         /\ rtp'.pktbuf_next = (rtp.pktbuf_next + 1) % BufSize
         /\ rtp'.pktbuf_len = IF rtp.pktbuf_len < BufSize
                                THEN rtp.pktbuf_len + 1 ELSE rtp.pktbuf_len
         /\ rtp'.pktbuf_len \in 0..BufSize
         /\ rtp'.pktbuf_len <= rtp.pktbuf_len + 1
         /\ rtp'.sync_counter = rtp.sync_counter + n
<1>1. PacketNext(rtp, n, FALSE, d) \in Packets
  BY DEF TypeOK, Packets, PacketNext
<1>2. /\ PacketNext(rtp, n, FALSE, d).seqnum = rtp.seqnum
      /\ PacketNext(rtp, n, FALSE, d).samples = n
  BY DEF PacketNext
<1>3. rtp.pktbuf_len \in 0..BufSize
  BY Fields
<1>4. rtp'.pktbuf_len = IF rtp.pktbuf_len < BufSize
                          THEN rtp.pktbuf_len + 1 ELSE rtp.pktbuf_len
  BY DEF PacketCommit
<1>5. rtp'.pktbuf_len \in 0..BufSize /\ rtp'.pktbuf_len <= rtp.pktbuf_len + 1
  <2> DEFINE old == rtp.pktbuf_len
             new == rtp'.pktbuf_len
  <2>1. old \in 0..BufSize /\ new = IF old < BufSize THEN old + 1 ELSE old
    BY <1>3, <1>4
  <2> HIDE DEF old, new
  <2>2. new \in 0..BufSize /\ new <= old + 1
    BY <2>1, RtpAssumption
  <2> QED BY <2>2 DEF old, new
<1> QED BY <1>1, <1>2, <1>4, <1>5 DEF PacketCommit

\* The session record keeps its type.
LEMMA TypeInductive == TypeOK /\ [RtpNext]_rtp => TypeOK'
<1> SUFFICES ASSUME TypeOK, [RtpNext]_rtp PROVE TypeOK'
  OBVIOUS
<1> USE RtpAssumption
<1>1. ASSUME NEW n \in SampleCounts, NEW d \in Payloads,
             rtp' = PacketCommit(rtp, PacketNext(rtp, n, FALSE, d))
      PROVE  TypeOK'
  <2> DEFINE pkt == PacketNext(rtp, n, FALSE, d)
  <2>1. (rtp.seqnum + 1) % SeqNumMod \in SeqNums
    <3>1. rtp.seqnum + 1 \in Int
      BY Fields
    <3> QED BY <3>1, ModRange DEF SeqNums
  <2>2. (rtp.pos + n) % PosMod \in Positions
    <3>1. rtp.pos + n \in Int
      BY Fields
    <3> QED BY <3>1, ModRange DEF Positions
  <2>3. (rtp.pktbuf_next + 1) % BufSize \in Slots
    <3>1. rtp.pktbuf_next + 1 \in Int
      BY Fields
    <3> QED BY <3>1, ModRange DEF Slots
  <2>4. pkt \in Packets
    BY <1>1, SendEffect
  <2> HIDE DEF pkt
  <2>5. [rtp.pktbuf EXCEPT ![rtp.pktbuf_next] = pkt] \in [Slots -> Packets \cup {NoPacket}]
    BY <2>4 DEF TypeOK
  <2>6. /\ rtp.sync_counter + n \in Nat
        /\ (IF rtp.pktbuf_len < BufSize THEN rtp.pktbuf_len + 1 ELSE rtp.pktbuf_len)
             \in 0..BufSize
    BY Fields
  <2>7. rtp' = [seqnum |-> (rtp.seqnum + 1) % SeqNumMod,
                pos |-> (rtp.pos + n) % PosMod,
                pktbuf |-> [rtp.pktbuf EXCEPT ![rtp.pktbuf_next] = pkt],
                pktbuf_next |-> (rtp.pktbuf_next + 1) % BufSize,
                pktbuf_len |-> IF rtp.pktbuf_len < BufSize
                                 THEN rtp.pktbuf_len + 1 ELSE rtp.pktbuf_len,
                sync_counter |-> rtp.sync_counter + n]
    BY <1>1, SendEffect DEF pkt
  <2> QED BY <2>1, <2>2, <2>3, <2>5, <2>6, <2>7 DEF TypeOK
<1>2. CASE SendPacket
  BY <1>1, <1>2 DEF SendPacket
<1>3. CASE PollSync
  BY <1>3 DEF PollSync, SyncPolled, TypeOK
<1>4. CASE Flush
  <2>1. 0 \in 0..BufSize /\ 0 \in Nat
    OBVIOUS
  <2> QED BY <1>4, <2>1 DEF Flush, RtpFlush, TypeOK
<1>5. CASE UNCHANGED rtp
  BY <1>5 DEF TypeOK
<1> QED BY <1>2, <1>3, <1>4, <1>5 DEF RtpNext

LEMMA InitType == RtpInit => TypeOK
  BY RtpAssumption DEF RtpInit, RtpNew, TypeOK, SeqNums, Positions, Slots

\* Type correctness of every reachable session.
THEOREM TypeCorrect == RtpSpec => []TypeOK
  BY InitType, TypeInductive, PTL DEF RtpSpec

-----------------------------------------------------------------------------

\* The inductive invariant: which slot holds which sequence number.
RingInv == TypeOK /\ RingConsecutive

\* Sending one packet shifts every held packet one place further back.
LEMMA SendShifts ==
  ASSUME RingInv, NEW n \in SampleCounts, NEW d \in Payloads,
         rtp' = PacketCommit(rtp, PacketNext(rtp, n, FALSE, d))
  PROVE  \A k \in 1..rtp'.pktbuf_len :
           /\ k = 1 => rtp'.pktbuf[SlotBack(k)'] = PacketNext(rtp, n, FALSE, d)
           /\ k # 1 => /\ k - 1 \in 1..rtp.pktbuf_len
                       /\ SlotBack(k)' = SlotBack(k - 1)
                       /\ rtp'.pktbuf[SlotBack(k)'] = rtp.pktbuf[SlotBack(k - 1)]
<1> DEFINE pkt == PacketNext(rtp, n, FALSE, d)
<1> SUFFICES ASSUME NEW k \in 1..rtp'.pktbuf_len
             PROVE  /\ k = 1 => rtp'.pktbuf[SlotBack(k)'] = pkt
                    /\ k # 1 => /\ k - 1 \in 1..rtp.pktbuf_len
                                /\ SlotBack(k)' = SlotBack(k - 1)
                                /\ rtp'.pktbuf[SlotBack(k)'] = rtp.pktbuf[SlotBack(k - 1)]
  OBVIOUS
<1> USE RtpAssumption
<1>1. TypeOK
  BY DEF RingInv
<1>2. /\ rtp'.pktbuf = [rtp.pktbuf EXCEPT ![rtp.pktbuf_next] = pkt]
      /\ rtp'.pktbuf_next = (rtp.pktbuf_next + 1) % BufSize
      /\ rtp'.pktbuf_len = IF rtp.pktbuf_len < BufSize
                             THEN rtp.pktbuf_len + 1 ELSE rtp.pktbuf_len
  BY <1>1, SendEffect
<1> HIDE DEF pkt
<1>3. k \in 1..BufSize /\ (k # 1 => k - 1 \in 1..rtp.pktbuf_len)
  <2>1. rtp.pktbuf_len \in 0..BufSize
    BY <1>1, Fields
  <2>2. rtp'.pktbuf_len \in 0..BufSize /\ rtp'.pktbuf_len <= rtp.pktbuf_len + 1
    BY <1>1, SendEffect
  <2> DEFINE old == rtp.pktbuf_len
             new == rtp'.pktbuf_len
  <2>3. old \in 0..BufSize /\ new \in 0..BufSize /\ new <= old + 1 /\ k \in 1..new
    BY <2>1, <2>2
  <2> HIDE DEF old, new
  <2>4. k \in 1..BufSize /\ (k # 1 => k - 1 \in 1..old)
    BY <2>3
  <2> QED BY <2>4 DEF old
<1>4. /\ SlotBack(k)' = SlotBack(k - 1)
      /\ k = 1 => SlotBack(k)' = rtp.pktbuf_next
      /\ k # 1 => SlotBack(k - 1) # rtp.pktbuf_next
  <2>1. rtp.pktbuf_next \in 0..(BufSize - 1)
    BY <1>1, Fields
  <2>2. /\ (((rtp.pktbuf_next + 1) % BufSize) - k) % BufSize
             = (rtp.pktbuf_next - (k - 1)) % BufSize
        /\ k = 1 => (((rtp.pktbuf_next + 1) % BufSize) - k) % BufSize = rtp.pktbuf_next
        /\ k # 1 => (rtp.pktbuf_next - (k - 1)) % BufSize # rtp.pktbuf_next
    BY <1>3, <2>1, ModBack
  <2> QED BY <1>2, <2>2 DEF SlotBack
<1>5. SlotBack(k - 1) \in Slots
  <2>1. rtp.pktbuf_next - (k - 1) \in Int
    BY <1>1, <1>3, Fields
  <2> QED BY <2>1, ModRange DEF SlotBack, Slots
<1>6. rtp.pktbuf \in [Slots -> Packets \cup {NoPacket}] /\ rtp.pktbuf_next \in Slots
  BY <1>1, Fields DEF Slots
<1> QED BY <1>2, <1>3, <1>4, <1>5, <1>6

\* Every step keeps the ring's numbering.
LEMMA RingInductive == RingInv /\ [RtpNext]_rtp => RingInv'
<1> SUFFICES ASSUME RingInv, [RtpNext]_rtp PROVE RingConsecutive'
  BY TypeInductive DEF RingInv
<1> USE RtpAssumption
<1>1. TypeOK
  BY DEF RingInv
<1>2. ASSUME NEW n \in SampleCounts, NEW d \in Payloads,
             rtp' = PacketCommit(rtp, PacketNext(rtp, n, FALSE, d))
      PROVE  RingConsecutive'
  <2> SUFFICES ASSUME NEW k \in 1..rtp'.pktbuf_len
               PROVE  /\ rtp'.pktbuf[SlotBack(k)'] \in Packets
                      /\ rtp'.pktbuf[SlotBack(k)'].seqnum = (rtp'.seqnum - k) % SeqNumMod
    BY DEF RingConsecutive
  <2>1. rtp'.seqnum = (rtp.seqnum + 1) % SeqNumMod
    BY <1>1, <1>2, SendEffect
  <2>2. k \in 1..SeqNumMod
    <3>1. rtp'.pktbuf_len \in 0..BufSize
      BY <1>1, <1>2, SendEffect
    <3> QED BY <3>1
  <2>3. /\ (rtp'.seqnum - k) % SeqNumMod = (rtp.seqnum - (k - 1)) % SeqNumMod
        /\ k = 1 => (rtp'.seqnum - k) % SeqNumMod = rtp.seqnum
    <3> DEFINE q == rtp.seqnum
    <3>1. q \in 0..(SeqNumMod - 1) /\ SeqNumMod \in Nat \ {0}
      BY <1>1, Fields, RtpAssumption
    <3> HIDE DEF q
    <3>2. /\ (((q + 1) % SeqNumMod) - k) % SeqNumMod = (q - (k - 1)) % SeqNumMod
          /\ k = 1 => (((q + 1) % SeqNumMod) - k) % SeqNumMod = q
      BY <2>2, <3>1, ModBack, ZenonT(60)
    <3> QED BY <2>1, <3>2 DEF q
  <2>4. CASE k = 1
    <3>1. rtp'.pktbuf[SlotBack(k)'] = PacketNext(rtp, n, FALSE, d)
      BY <1>2, <2>4, SendShifts
    <3>2. /\ PacketNext(rtp, n, FALSE, d) \in Packets
          /\ PacketNext(rtp, n, FALSE, d).seqnum = rtp.seqnum
      BY <1>1, <1>2, SendEffect
    <3> QED BY <2>3, <2>4, <3>1, <3>2
  <2>5. CASE k # 1
    <3>1. /\ k - 1 \in 1..rtp.pktbuf_len
          /\ rtp'.pktbuf[SlotBack(k)'] = rtp.pktbuf[SlotBack(k - 1)]
      BY <1>2, <2>5, SendShifts
    <3>2. /\ rtp.pktbuf[SlotBack(k - 1)] \in Packets
          /\ rtp.pktbuf[SlotBack(k - 1)].seqnum = (rtp.seqnum - (k - 1)) % SeqNumMod
      BY <3>1 DEF RingInv, RingConsecutive
    <3> QED BY <2>3, <3>1, <3>2
  <2> QED BY <2>4, <2>5
<1>3. CASE SendPacket
  BY <1>2, <1>3 DEF SendPacket
<1>4. CASE PollSync
  BY <1>4 DEF PollSync, SyncPolled, RingInv, RingConsecutive, SlotBack, TypeOK
<1>5. CASE Flush
  <2>1. rtp'.pktbuf_len = 0
    BY <1>1, <1>5 DEF Flush, RtpFlush, TypeOK
  <2> QED BY <2>1 DEF RingConsecutive
<1>6. CASE UNCHANGED rtp
  BY <1>6 DEF RingInv, RingConsecutive, SlotBack
<1> QED BY <1>3, <1>4, <1>5, <1>6 DEF RtpNext

LEMMA InitRing == RtpInit => RingInv
<1> SUFFICES ASSUME RtpInit PROVE RingInv
  OBVIOUS
<1>1. TypeOK
  BY InitType
<1>2. rtp.pktbuf_len = 0
  BY DEF RtpInit, RtpNew
<1> QED BY <1>1, <1>2 DEF RingInv, RingConsecutive

\* The numbering of the ring, in every reachable session.
THEOREM RingNumbered == RtpSpec => []RingInv
  BY InitRing, RingInductive, PTL DEF RtpSpec

-----------------------------------------------------------------------------

\* Window is a sequence of packets, oldest first.
LEMMA WindowFacts ==
  ASSUME RingInv
  PROVE  /\ Window \in Seq(Packets)
         /\ Len(Window) = rtp.pktbuf_len
         /\ \A i \in 1..rtp.pktbuf_len :
              /\ Window[i] = rtp.pktbuf[SlotBack(rtp.pktbuf_len + 1 - i)]
              /\ Window[i].seqnum = (rtp.seqnum - (rtp.pktbuf_len + 1 - i)) % SeqNumMod
<1> DEFINE len == rtp.pktbuf_len
<1>1. len \in Nat
  BY Fields DEF RingInv
<1>2. \A i \in 1..len : len + 1 - i \in 1..len
  BY <1>1
<1>3. \A i \in 1..len : /\ rtp.pktbuf[SlotBack(len + 1 - i)] \in Packets
                        /\ rtp.pktbuf[SlotBack(len + 1 - i)].seqnum
                             = (rtp.seqnum - (len + 1 - i)) % SeqNumMod
  BY <1>2 DEF RingInv, RingConsecutive
<1>4. Window = [i \in 1..len |-> rtp.pktbuf[SlotBack(len + 1 - i)]]
  BY DEF Window
<1> HIDE DEF len
<1>5. Window \in Seq(Packets) /\ Len(Window) = len
  BY <1>1, <1>3, <1>4
<1> QED BY <1>3, <1>4, <1>5 DEF len

\* rtp_packet_get answers as the abstract window does, in any session whose
\* ring is numbered consecutively.
LEMMA GetIsLookup == RingInv => RetransmitExact
<1> SUFFICES ASSUME RingInv, NEW s \in SeqNums
             PROVE  PacketGet(rtp, s) = W!Lookup(s)
  BY DEF RetransmitExact
<1> USE RtpAssumption
<1> DEFINE len == rtp.pktbuf_len
           q == rtp.seqnum
           d == (q - s) % SeqNumMod
<1>1. /\ len \in 0..BufSize /\ q \in 0..(SeqNumMod - 1) /\ s \in 0..(SeqNumMod - 1)
      /\ rtp.pktbuf_next \in 0..(BufSize - 1)
  BY Fields DEF RingInv, SeqNums
<1>2. d \in 0..(SeqNumMod - 1)
  <2>1. q - s \in Int
    BY <1>1
  <2> QED BY <2>1, ModRange
<1>3. \A i \in 1..len : /\ Window[i] = rtp.pktbuf[SlotBack(len + 1 - i)]
                        /\ Window[i].seqnum = (q - (len + 1 - i)) % SeqNumMod
  BY WindowFacts
<1>4. W!Held(s) = {i \in 1..len : Window[i].seqnum = s}
  BY WindowFacts DEF W!Held
<1>5. \A i \in 1..len : Window[i].seqnum = s <=> len + 1 - i = d
  <2> SUFFICES ASSUME NEW i \in 1..len
               PROVE  (q - (len + 1 - i)) % SeqNumMod = s <=> len + 1 - i = d
    BY <1>3
  <2> DEFINE k == len + 1 - i
  <2>1. k \in 1..(SeqNumMod - 1)
    BY <1>1
  <2> HIDE DEF k
  <2>2. (q - ((q - k) % SeqNumMod)) % SeqNumMod = k
    BY <1>1, <2>1, DistanceBack
  <2>3. (q - ((q - s) % SeqNumMod)) % SeqNumMod = s
    <3>1. 1 \in 1..(SeqNumMod - 1)
      BY <1>1
    <3> QED BY <1>1, <3>1, BufferedDistance
  <2>4. (q - k) % SeqNumMod = s <=> k = d
    BY <2>2, <2>3
  <2> QED BY <2>4 DEF k
<1>6. len # 0 => (Buffered((q - len) % SeqNumMod, (q - 1) % SeqNumMod, s) <=> d \in 1..len)
  <2> SUFFICES ASSUME len # 0
               PROVE Buffered((q - len) % SeqNumMod, (q - 1) % SeqNumMod, s) <=> d \in 1..len
    OBVIOUS
  <2>1. len \in 1..(SeqNumMod - 1)
    BY <1>1
  <2> QED BY <1>1, <2>1, BufferedDistance
<1>7. PacketGet(rtp, s) = IF d \notin 1..len THEN NoPacket
                          ELSE rtp.pktbuf[(rtp.pktbuf_next + BufSize - d) % BufSize]
  <2>1. CASE len = 0
    BY <1>2, <2>1 DEF PacketGet
  <2>2. CASE len # 0
    BY <1>6, <2>2 DEF PacketGet
  <2> QED BY <2>1, <2>2
<1>8. CASE d \notin 1..len
  <2>1. W!Held(s) = {}
    <3>1. \A i \in 1..len : len + 1 - i \in 1..len
      BY <1>1
    <3> HIDE DEF len, d, q
    <3> QED BY <1>4, <1>5, <1>8, <3>1
  <2> QED BY <1>7, <1>8, <2>1 DEF W!Lookup, W!NotHeld, NoPacket
<1>9. CASE d \in 1..len
  <2> HIDE DEF len, d, q
  <2>1. /\ len + 1 - d \in 1..len
        /\ \A i \in 1..len : len + 1 - i = d <=> i = len + 1 - d
    BY <1>1, <1>9
  <2>2. W!Held(s) = {len + 1 - d}
    BY <1>4, <1>5, <2>1
  <2>3. W!Lookup(s) = Window[len + 1 - d]
    BY <2>2 DEF W!Lookup
  <2>4. Window[len + 1 - d] = rtp.pktbuf[SlotBack(d)]
    <3>1. len + 1 - (len + 1 - d) = d
      BY <1>1, <1>9
    <3> QED BY <1>3, <2>1, <3>1
  <2>5. (rtp.pktbuf_next + BufSize - d) % BufSize = SlotBack(d)
    <3>1. d \in 1..BufSize
      BY <1>1, <1>9
    <3> QED BY <1>1, <3>1, IndexBack DEF SlotBack
  <2> QED BY <1>7, <1>9, <2>3, <2>4, <2>5
<1> QED BY <1>8, <1>9

\* Every retransmit request, in every reachable session, is answered exactly.
THEOREM RetransmitCorrect == RtpSpec => []RetransmitExact
  BY RingNumbered, GetIsLookup, PTL

\* The XOR test means what its comment says, in every reachable session.
THEOREM XorCorrect == RtpSpec => []XorAsDocumented
<1>1. RingInv => XorAsDocumented
  <2> SUFFICES ASSUME RingInv, NEW s \in SeqNums
               PROVE  LET last  == (rtp.seqnum - 1) % SeqNumMod
                          first == (rtp.seqnum - rtp.pktbuf_len) % SeqNumMod
                      IN  Buffered(first, last, s) <=> BufferedAsDocumented(first, last, s)
    BY DEF XorAsDocumented
  <2> DEFINE last  == (rtp.seqnum - 1) % SeqNumMod
             first == (rtp.seqnum - rtp.pktbuf_len) % SeqNumMod
  <2>1. rtp.seqnum - 1 \in Int /\ rtp.seqnum - rtp.pktbuf_len \in Int /\ s \in Int
    BY RtpAssumption, Fields DEF RingInv, SeqNums
  <2>2. last \in Int /\ first \in Int
    BY <2>1, RtpAssumption, ModRange
  <2> HIDE DEF last, first
  <2>3. Buffered(first, last, s) <=> BufferedAsDocumented(first, last, s)
    BY <2>1, <2>2, XorEquivalence
  <2> QED BY <2>3 DEF last, first
<1> QED BY <1>1, RingNumbered, PTL

-----------------------------------------------------------------------------

\* Sending a packet into the ring pushes it onto the abstract window.
LEMMA SendPushes ==
  ASSUME RingInv, RingInv', NEW n \in SampleCounts, NEW d \in Payloads,
         rtp' = PacketCommit(rtp, PacketNext(rtp, n, FALSE, d))
  PROVE  W!Push(n, d)
<1> DEFINE pkt == PacketNext(rtp, n, FALSE, d)
           old == rtp.pktbuf_len
           new == rtp'.pktbuf_len
           at(k) == rtp'.pktbuf[(rtp'.pktbuf_next - k) % BufSize]
<1>1. /\ pkt \in Packets
      /\ rtp'.seqnum = (rtp.seqnum + 1) % SeqNumMod
      /\ rtp'.pos = (rtp.pos + n) % PosMod
      /\ new = IF old < BufSize THEN old + 1 ELSE old
  BY SendEffect DEF RingInv
<1>2. old \in 0..BufSize /\ new \in 0..BufSize /\ BufSize \in Nat \ {0}
  BY SendEffect, Fields, RtpAssumption DEF RingInv
<1>3. /\ Window \in Seq(Packets) /\ Len(Window) = old
      /\ \A i \in 1..old : Window[i] = rtp.pktbuf[SlotBack(old + 1 - i)]
  BY WindowFacts
<1>4. Window' = [i \in 1..new |-> at(new + 1 - i)]
  BY DEF Window, SlotBack
<1>5. \A k \in 1..new :
        /\ k = 1 => at(k) = pkt
        /\ k # 1 => k - 1 \in 1..old /\ at(k) = rtp.pktbuf[SlotBack(k - 1)]
  BY SendShifts DEF SlotBack
<1> HIDE DEF pkt, old, new, at
<1>6. \A i \in 1..new : /\ i = new => at(new + 1 - i) = pkt
                        /\ i # new => at(new + 1 - i) = rtp.pktbuf[SlotBack(new - i)]
  <2> SUFFICES ASSUME NEW i \in 1..new
               PROVE  /\ i = new => at(new + 1 - i) = pkt
                      /\ i # new => at(new + 1 - i) = rtp.pktbuf[SlotBack(new - i)]
    OBVIOUS
  <2> DEFINE k == new + 1 - i
  <2>1. k \in 1..new /\ (k = 1 <=> i = new) /\ k - 1 = new - i
    BY <1>2
  <2> HIDE DEF k
  <2>2. /\ i = new => at(k) = pkt
        /\ i # new => at(k) = rtp.pktbuf[SlotBack(new - i)]
    BY <1>5, <2>1
  <2> QED BY <2>2 DEF k
<1>7. \A i \in 1..new : /\ i = new => Window'[i] = pkt
                        /\ i # new => Window'[i] = rtp.pktbuf[SlotBack(new - i)]
  BY <1>4, <1>6
<1>8. Window' \in Seq(Packets) /\ Len(Window') = new
  <2>1. \A i \in 1..new : i # new => new - i \in 1..old
    BY <1>1, <1>2
  <2>2. \A k \in 1..old : rtp.pktbuf[SlotBack(k)] \in Packets
    BY DEF RingInv, RingConsecutive, old
  <2>3. \A i \in 1..new : at(new + 1 - i) \in Packets
    BY <1>1, <1>6, <2>1, <2>2
  <2> QED BY <1>2, <1>4, <2>3
<1>9. Window' = IF old < BufSize THEN Append(Window, pkt) ELSE Append(Tail(Window), pkt)
  <2>1. CASE old < BufSize
    <3>1. new = old + 1
      BY <1>1, <2>1
    <3>2. \A i \in 1..old : i \in 1..new /\ i # new /\ new - i = old + 1 - i
      BY <1>2, <3>1
    <3>3. /\ Append(Window, pkt) \in Seq(Packets)
          /\ Len(Append(Window, pkt)) = new
          /\ \A i \in 1..old : Append(Window, pkt)[i] = Window[i]
          /\ Append(Window, pkt)[new] = pkt
      BY <1>1, <1>3, <3>1, AppendProperties
    <3>4. ASSUME NEW i \in 1..old PROVE Append(Window, pkt)[i] = Window'[i]
      <4>1. Append(Window, pkt)[i] = Window[i]
        BY <3>3
      <4>2. Window'[i] = rtp.pktbuf[SlotBack(old + 1 - i)]
        BY <1>7, <3>2
      <4> QED BY <1>3, <4>1, <4>2
    <3>5. \A i \in 1..new : i \in 1..old \/ i = new
      BY <1>2, <3>1
    <3>6. \A i \in 1..new : Append(Window, pkt)[i] = Window'[i]
      BY <1>7, <3>3, <3>4, <3>5
    <3>7. Append(Window, pkt) = Window'
      BY <1>2, <1>8, <3>3, <3>6, SeqEqual
    <3> QED BY <2>1, <3>7
  <2>2. CASE ~(old < BufSize)
    <3>1. new = old /\ old = BufSize
      BY <1>1, <1>2, <2>2
    <3>2. \A i \in 1..(old - 1) : /\ i \in 1..new /\ i # new /\ i + 1 \in 1..old
                                  /\ new - i = old + 1 - (i + 1)
      BY <1>2, <3>1
    <3>3. /\ Tail(Window) \in Seq(Packets)
          /\ Len(Tail(Window)) = old - 1
          /\ \A i \in 1..(old - 1) : Tail(Window)[i] = Window[i + 1]
      <4>1. Window # <<>>
        BY <1>2, <1>3, <3>1
      <4> QED BY <1>3, <4>1, HeadTailProperties
    <3>4. /\ Append(Tail(Window), pkt) \in Seq(Packets)
          /\ Len(Append(Tail(Window), pkt)) = new
          /\ \A i \in 1..(old - 1) : Append(Tail(Window), pkt)[i] = Tail(Window)[i]
          /\ Append(Tail(Window), pkt)[new] = pkt
      <4>1. Len(Tail(Window)) + 1 = new
        BY <1>2, <3>1, <3>3
      <4> QED BY <1>1, <3>3, <4>1, AppendProperties
    <3>5. \A i \in 1..(old - 1) : Append(Tail(Window), pkt)[i] = Window'[i]
      BY <1>3, <1>7, <3>2, <3>3, <3>4
    <3>6. \A i \in 1..new : i \in 1..(old - 1) \/ i = new
      BY <1>2, <3>1
    <3>7. \A i \in 1..new : Append(Tail(Window), pkt)[i] = Window'[i]
      BY <1>7, <3>4, <3>5, <3>6
    <3>8. Append(Tail(Window), pkt) = Window'
      BY <1>2, <1>8, <3>4, <3>7, SeqEqual
    <3> QED BY <2>2, <3>8
  <2> QED BY <2>1, <2>2
<1>10. pkt = [seqnum |-> rtp.seqnum, rtptime |-> rtp.pos, marker |-> FALSE,
             samples |-> n, payload |-> d]
  BY DEF pkt, PacketNext
<1> QED BY <1>1, <1>3, <1>9, <1>10 DEF W!Push

\* Each step of the session is a step of the abstract window, or a stutter.
LEMMA StepRefines == RingInv /\ RingInv' /\ [RtpNext]_rtp => [W!Next]_(W!vars)
<1> SUFFICES ASSUME RingInv, RingInv', [RtpNext]_rtp PROVE [W!Next]_(W!vars)
  OBVIOUS
<1>1. CASE SendPacket
  <2> PICK n \in SampleCounts, d \in Payloads :
             rtp' = PacketCommit(rtp, PacketNext(rtp, n, FALSE, d))
    BY <1>1 DEF SendPacket
  <2>1. W!Push(n, d)
    BY SendPushes
  <2> QED BY <2>1 DEF W!Next
<1>2. CASE PollSync
  <2>1. /\ rtp'.pktbuf = rtp.pktbuf /\ rtp'.pktbuf_next = rtp.pktbuf_next
        /\ rtp'.pktbuf_len = rtp.pktbuf_len
        /\ rtp'.seqnum = rtp.seqnum /\ rtp'.pos = rtp.pos
    BY <1>2 DEF PollSync, SyncPolled, RingInv, TypeOK
  <2>2. Window' = Window
    BY <2>1 DEF Window, SlotBack
  <2> QED BY <2>1, <2>2 DEF W!vars
<1>3. CASE Flush
  <2>1. /\ rtp'.pktbuf_len = 0 /\ rtp'.seqnum = rtp.seqnum /\ rtp'.pos = rtp.pos
    BY <1>3 DEF Flush, RtpFlush, RingInv, TypeOK
  <2>2. Window' = <<>>
    BY <2>1 DEF Window
  <2> QED BY <2>1, <2>2 DEF W!Next, W!Clear
<1>4. CASE UNCHANGED rtp
  BY <1>4 DEF W!vars, Window, SlotBack
<1> QED BY <1>1, <1>2, <1>3, <1>4 DEF RtpNext

LEMMA InitRefines == RtpInit => W!Init
<1> SUFFICES ASSUME RtpInit PROVE W!Init
  OBVIOUS
<1>1. rtp.pktbuf_len = 0 /\ rtp.seqnum \in SeqNums /\ rtp.pos \in Positions
  BY DEF RtpInit, RtpNew
<1>2. Window = <<>>
  BY <1>1 DEF Window
<1> QED BY <1>1, <1>2 DEF W!Init, SeqNums, Positions

\* The ring buffer implements the abstract retransmit window.
THEOREM Refinement == RtpSpec => ImplementsWindow
<1>1. RtpInit => W!Init
  BY InitRefines
<1>2. RingInv /\ RingInv' /\ [RtpNext]_rtp => [W!Next]_(W!vars)
  BY StepRefines
<1> QED BY <1>1, <1>2, RingNumbered, PTL DEF RtpSpec, ImplementsWindow, W!Spec

=============================================================================
