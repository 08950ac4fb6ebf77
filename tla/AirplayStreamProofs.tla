------------------------ MODULE AirplayStreamProofs ------------------------
(***************************************************************************)
(* For every number of devices, size of packet, write, ring and output     *)
(* buffer: the type invariant of the audio stream, the relation of the     *)
(* stamp to the samples received, that no packet is sent after it is due,  *)
(* and of what each device was sent: the packets follow each other without *)
(* a gap, can be sent again, and come with sync packets often enough and   *)
(* before the first of them.                                               *)
(***************************************************************************)
EXTENDS AirplayStream, RtpLemmas, SequenceTheorems

\* The code's calculations; where they are not expanded, they name the terms
\* by which the provers find the instance of a lemma.
StampOf(n, o, p, i) == (p + i - o) % n
Clock(n, p, i, c, r) == (p + i - c - r) % n
Plus(n, p, d) == (p + d) % n
Minus(n, p, d) == (p - d) % n

\* timestamp_set: the stamp is the output buffer behind the next sample received.
LEMMA StampArithmetic ==
  ASSUME NEW n \in Nat \ {0}, NEW o \in 0..(n - 1), NEW p \in 0..(n - 1), NEW i \in 0..o
  PROVE  /\ StampOf(n, o, p, i) \in 0..(n - 1)
         /\ (p + i - StampOf(n, o, p, i)) % n = o
         /\ Minus(n, p, StampOf(n, o, p, i)) = o - i
<1> DEFINE x == p + i - o
           s == (p + i - o) % n
<1>1. x \in (-n)..(2 * n - 1)
  OBVIOUS
<1>2. s = x % n
  OBVIOUS
<1> HIDE DEF x, s
<1>3. s \in {x, x + n, x - n} /\ s \in 0..(n - 1)
  <2>1. x \in Int
    BY <1>1
  <2> QED BY <1>1, <1>2, <2>1, ModNear, ModRange
<1>4. (p + i - s) % n = o
  <2> DEFINE y == p + i - s
  <2>1. y \in {o, o - n, o + n}
    BY <1>3 DEF x
  <2> HIDE DEF y
  <2>2. y % n = o
    BY <2>1, ModIn, ModUp, ModDown
  <2> QED BY <2>2 DEF y
<1>5. (p - s) % n = o - i
  <2> DEFINE y == p - s
             l == o - i
  <2>1. y \in {l, l - n, l + n} /\ l \in 0..(n - 1)
    BY <1>3 DEF x
  <2> HIDE DEF y, l
  <2>2. y % n = l
    BY <2>1, ModIn, ModUp, ModDown
  <2> QED BY <2>2 DEF y, l
<1> QED BY <1>3, <1>4, <1>5 DEF s, StampOf, Minus

\* A step by d within the modulus.
LEMMA StepUp ==
  ASSUME NEW n \in Nat \ {0}, NEW p \in 0..(n - 1), NEW d \in 0..n
  PROVE  (p + d) % n \in {p + d, p + d - n} /\ (p + d) % n \in 0..(n - 1)
<1> DEFINE x == p + d
<1>1. x \in 0..(2 * n - 1)
  OBVIOUS
<1> HIDE DEF x
<1>2. x % n \in {x, x - n} /\ x % n \in 0..(n - 1)
  <2>1. CASE x \in 0..(n - 1)
    BY <2>1, ModIn
  <2>2. CASE x \in n..(2 * n - 1)
    BY <2>2, ModUp
  <2> QED BY <1>1, <2>1, <2>2
<1> QED BY <1>2 DEF x

LEMMA StepDown ==
  ASSUME NEW n \in Nat \ {0}, NEW p \in 0..(n - 1), NEW d \in 0..n
  PROVE  (p - d) % n \in {p - d, p - d + n} /\ (p - d) % n \in 0..(n - 1)
<1> DEFINE x == p - d
<1>1. x \in (-n)..(n - 1)
  OBVIOUS
<1> HIDE DEF x
<1>2. x % n \in {x, x + n} /\ x % n \in 0..(n - 1)
  <2>1. CASE x \in 0..(n - 1)
    BY <2>1, ModIn
  <2>2. CASE x \in (-n)..(-1)
    BY <2>2, ModDown
  <2> QED BY <1>1, <2>1, <2>2
<1> QED BY <1>2 DEF x

\* A distance that grows by d and stays below the modulus.
LEMMA DistanceGrows ==
  ASSUME NEW n \in Nat \ {0}, NEW p \in 0..(n - 1), NEW s \in 0..(n - 1), NEW d \in 0..n,
         ((p - s) % n) + d < n
  PROVE  (((p + d) % n) - s) % n = ((p - s) % n) + d
<1> DEFINE q == (p + d) % n
<1>1. q \in {p + d, p + d - n} /\ q \in 0..(n - 1)
  BY StepUp
<1> DEFINE y == (p - s) % n
           z == q - s
<1>2. y \in {p - s, p - s + n} /\ y \in 0..(n - 1) /\ y + d < n
  BY StepDown
<1> HIDE DEF y, q
<1>3. z \in {y + d, y + d - n, y + d - 2 * n} /\ z >= 1 - n /\ y + d \in 0..(n - 1)
  BY <1>1, <1>2
<1> HIDE DEF z
<1>4. z % n = y + d
  <2>1. y + d \in Int /\ z \in {y + d, (y + d) - n}
    BY <1>2, <1>3
  <2>2. CASE z = y + d
    BY <2>2, <1>3, ModIn
  <2>3. CASE z = (y + d) - n
    <3>1. z \in (-n)..(-1) /\ z + n = y + d
      BY <2>3, <1>3
    <3> QED BY <3>1, ModDown
  <2> QED BY <2>1, <2>2, <2>3
<1> QED BY <1>4 DEF y, z, q

-----------------------------------------------------------------------------
(* The inductive invariant *)

\* The list of sessions and their states.
ListOK ==
  /\ audioState \in [Sessions -> StreamStates \cup {"NONE"}]
  /\ sessions \in Seq(Sessions)
  /\ \A i, j \in DOMAIN sessions : sessions[i] = sessions[j] => i = j
  /\ ListedSessions = {s \in Sessions : audioState[s] # "NONE"}

\* The numbers of a write.
WriteOK ==
  /\ buffered \in Nat /\ cur_stamp \in Positions
  /\ writing \in {Never} \cup 1..MaxWrite
  /\ net \in {Never} \cup Positions

MasterOK ==
  /\ (rtp = NoMaster) = (sessions = <<>>)
  /\ rtp # NoMaster => rtp \in RtpType

\* Less than a packet stays in the input buffer between writes; a write has a
\* master session and a stamp.
InputHeld ==
  /\ buffered < PacketSamples + (IF Idle THEN 0 ELSE writing)
  /\ net # Never => rtp # NoMaster
  /\ ~Idle => net # Never

\* AudioAhead, with the room that the samples still buffered leave.
Lead ==
  ~Idle => (rtp.pos - cur_stamp) % PosMod
             \in (OutputBuffer - (PacketSamples - 1))..(OutputBuffer + writing - buffered)

IInv == ListOK /\ WriteOK /\ MasterOK /\ InputHeld /\ MediaClock /\ Lead

\* What the assumptions say of the constants, in the form the steps need.
LEMMA Constants ==
  /\ PosMod \in Nat \ {0} /\ PacketSamples \in Nat \ {0} /\ PacketSamples \in SampleCounts
  /\ OutputBuffer \in Nat /\ MaxWrite \in Nat
  /\ PacketSamples <= OutputBuffer + 1 /\ OutputBuffer + MaxWrite < PosMod
  /\ Positions = 0..(PosMod - 1)
  BY RtpAssumption, StreamAssumption DEF Positions

\* The operators on the RTP session keep its type.
LEMMA TypeIsMaster == ASSUME NEW r \in RtpType PROVE r # NoMaster
<1>1. "seqnum" \in DOMAIN r
  BY DEF RtpType
<1>2. "seqnum" \notin DOMAIN NoMaster
  BY DEF NoMaster
<1> QED BY <1>1, <1>2

LEMMA NewType ==
  ASSUME NEW q \in SeqNums, NEW p \in Positions
  PROVE  RtpNew(q, p) \in RtpType
<1>1. [i \in Slots |-> NoPacket] \in [Slots -> Packets \cup {NoPacket}]
  OBVIOUS
<1>2. 0 \in Slots /\ 0 \in 0..BufSize
  BY RtpAssumption DEF Slots
<1> QED BY <1>1, <1>2 DEF RtpNew, RtpType

LEMMA PollType ==
  ASSUME NEW r \in RtpType
  PROVE  SyncPolled(r) \in RtpType /\ SyncPolled(r).pos = r.pos
  BY DEF SyncPolled, RtpType

LEMMA CommitType ==
  ASSUME NEW r \in RtpType, NEW pkt \in Packets
  PROVE  /\ PacketCommit(r, pkt) \in RtpType
         /\ PacketCommit(r, pkt).pos = (r.pos + pkt.samples) % PosMod
<1>1. /\ r.seqnum \in 0..(SeqNumMod - 1) /\ r.pos \in 0..(PosMod - 1)
      /\ r.pktbuf \in [Slots -> Packets \cup {NoPacket}] /\ r.pktbuf_next \in Slots
      /\ r.pktbuf_len \in 0..BufSize /\ r.sync_counter \in Nat /\ pkt.samples \in Nat
  BY RtpAssumption DEF RtpType, Packets, SeqNums, Positions
<1>2. (r.seqnum + 1) % SeqNumMod \in SeqNums /\ (r.pos + pkt.samples) % PosMod \in Positions
  <2>1. r.seqnum + 1 \in Int /\ r.pos + pkt.samples \in Int
    BY <1>1
  <2>2. SeqNumMod \in Nat \ {0} /\ PosMod \in Nat \ {0}
    BY RtpAssumption
  <2> QED BY <2>1, <2>2, ModRange DEF SeqNums, Positions
<1>3. (r.pktbuf_next + 1) % BufSize \in Slots
  <2>1. r.pktbuf_next + 1 \in Int
    BY <1>1 DEF Slots
  <2> QED BY <2>1, RtpAssumption, ModRange DEF Slots
<1>4. [r.pktbuf EXCEPT ![r.pktbuf_next] = pkt] \in [Slots -> Packets \cup {NoPacket}]
  BY <1>1
<1>5. (IF r.pktbuf_len < BufSize THEN r.pktbuf_len + 1 ELSE r.pktbuf_len) \in 0..BufSize
  BY <1>1, RtpAssumption
<1>6. r.sync_counter + pkt.samples \in Nat
  BY <1>1
<1> QED BY <1>2, <1>3, <1>4, <1>5, <1>6 DEF PacketCommit, RtpType

-----------------------------------------------------------------------------
(* Sessions come and go *)

LEMMA InitHolds == StreamInit => IInv
<1> SUFFICES ASSUME StreamInit PROVE IInv
  OBVIOUS
<1>1. ListOK
  BY DEF StreamInit, ListOK, ListedSessions
<1>2. WriteOK /\ MasterOK /\ InputHeld /\ MediaClock /\ Lead
  BY Constants DEF StreamInit, WriteOK, MasterOK, InputHeld, MediaClock, Lead, Idle, Never
<1> QED BY <1>1, <1>2 DEF IInv

\* A step that leaves the numbers alone between writes keeps their invariants.
NumbersKept == Idle /\ UNCHANGED <<rtp, buffered, cur_stamp, net, writing>>

LEMMA NumbersKeptOK ==
  ASSUME IInv, NumbersKept, (sessions' = <<>>) = (sessions = <<>>)
  PROVE  (WriteOK /\ MasterOK /\ InputHeld /\ MediaClock /\ Lead)'
  BY DEF IInv, NumbersKept, WriteOK, MasterOK, InputHeld, MediaClock, Lead, Idle

\* A listed session changes its state.
LEMMA StateChanged ==
  ASSUME ListOK, NEW s \in ListedSessions, NEW st \in StreamStates,
         audioState' = [audioState EXCEPT ![s] = st], sessions' = sessions
  PROVE  ListOK'
<1>1. s \in Sessions /\ audioState[s] # "NONE" /\ st # "NONE"
  BY DEF ListOK, StreamStates
<1>2. \A t \in Sessions : audioState'[t] = IF t = s THEN st ELSE audioState[t]
  BY <1>1 DEF ListOK
<1>3. ListedSessions' = ListedSessions
  BY DEF ListedSessions
<1> QED BY <1>1, <1>2, <1>3 DEF ListOK

LEMMA ConnectedOK == ASSUME IInv, NEW s \in Sessions, SessionConnected(s) PROVE IInv'
<1>1. ListOK'
  BY StateChanged DEF IInv, SessionConnected, StreamStates
<1> QED BY <1>1, NumbersKeptOK DEF SessionConnected, NumbersKept, IInv

LEMMA SilentOK == ASSUME IInv, NEW s \in Sessions, SessionSilent(s) PROVE IInv'
<1>1. ListOK'
  BY StateChanged DEF IInv, SessionSilent, StreamStates
<1> QED BY <1>1, NumbersKeptOK DEF SessionSilent, NumbersKept, IInv

LEMMA ResendOK == ASSUME IInv, NEW s \in Sessions, ControlSvcCb(s) PROVE IInv'
<1>1. Idle /\ s \in ListedSessions /\ PacketsResend(s)
  BY DEF ControlSvcCb, SessionFindByAddress
<1>2. ListOK'
  BY <1>1, StateChanged DEF IInv, PacketsResend, PacketSend, StreamStates
<1> QED BY <1>1, <1>2, NumbersKeptOK DEF PacketsResend, NumbersKept, IInv

LEMMA MakeOK == ASSUME IInv, NEW s \in Sessions, SessionMake(s) PROVE IInv'
<1> DEFINE new == <<s>> \o sessions
<1>1. /\ Len(new) = Len(sessions) + 1 /\ new \in Seq(Sessions) /\ DOMAIN new = 1..(Len(sessions) + 1)
      /\ new[1] = s /\ \A i \in 2..(Len(sessions) + 1) : new[i] = sessions[i - 1]
  BY ConcatProperties DEF IInv, ListOK
<1>2. new # <<>>
  BY <1>1
<1>3. \A i \in DOMAIN sessions : sessions[i] \in ListedSessions /\ sessions[i] # s
  BY DEF SessionMake, IInv, ListOK, ListedSessions
<1>4. Len(sessions) \in Nat /\ DOMAIN sessions = 1..Len(sessions)
  BY DEF IInv, ListOK
<1>5. sessions' = new
  BY DEF SessionMake
<1> HIDE DEF new
<1>6. \A t \in Sessions : audioState'[t] = IF t = s THEN "OTHER" ELSE audioState[t]
  BY DEF SessionMake, IInv, ListOK
<1>7. ListedSessions' = ListedSessions \cup {s}
  <2>1. \A i \in 1..Len(sessions) : sessions[i] = new[i + 1] /\ i + 1 \in DOMAIN new
    BY <1>1, <1>4
  <2>2. \A i \in DOMAIN new : new[i] \in ListedSessions \cup {s}
    BY <1>1, <1>4 DEF ListedSessions
  <2>3. ListedSessions \cup {s} \subseteq {new[i] : i \in DOMAIN new}
    BY <1>1, <1>4, <2>1 DEF ListedSessions
  <2> QED BY <1>5, <2>2, <2>3 DEF ListedSessions
<1>8. \A i, j \in DOMAIN new : new[i] = new[j] => i = j
  <2>1. \A i \in 2..(Len(sessions) + 1) : new[i] # s /\ i - 1 \in DOMAIN sessions
    BY <1>1, <1>3, <1>4
  <2>2. \A i, j \in 2..(Len(sessions) + 1) : new[i] = new[j] => i - 1 = j - 1
    BY <1>1, <2>1 DEF IInv, ListOK
  <2> QED BY <1>1, <1>4, <2>1, <2>2
<1>9. ListOK'
  <2>1. audioState' \in [Sessions -> StreamStates \cup {"NONE"}]
    BY DEF SessionMake, IInv, ListOK, StreamStates
  <2> QED BY <1>1, <1>5, <1>6, <1>7, <1>8, <2>1 DEF IInv, ListOK, StreamStates
<1>10. CASE sessions # <<>>
  <2>1. (sessions' = <<>>) = (sessions = <<>>)
    BY <1>2, <1>5, <1>10
  <2>2. NumbersKept
    BY <1>10 DEF SessionMake, NumbersKept
  <2> QED BY <1>9, <2>1, <2>2, NumbersKeptOK DEF IInv
<1>11. CASE sessions = <<>>
  <2>1. /\ rtp' \in RtpType /\ buffered' = 0 /\ cur_stamp' = 0 /\ net' = Never
        /\ Idle /\ writing' = writing
    BY <1>11, NewType, StreamAssumption DEF SessionMake
  <2>2. WriteOK' /\ InputHeld' /\ MediaClock' /\ Lead'
    BY <2>1, Constants DEF WriteOK, InputHeld, MediaClock, Lead, Idle, Never
  <2>3. MasterOK'
    BY <2>1, <1>2, <1>5, TypeIsMaster DEF MasterOK
  <2> QED BY <1>9, <2>2, <2>3 DEF IInv
<1> QED BY <1>10, <1>11

\* Unlinking the element at place i.
Unlink(seq, i) == SubSeq(seq, 1, i - 1) \o SubSeq(seq, i + 1, Len(seq))

LEMMA Unlinked ==
  ASSUME NEW S, NEW seq \in Seq(S), NEW i \in 1..Len(seq)
  PROVE  /\ Unlink(seq, i) \in Seq(S) /\ Len(Unlink(seq, i)) = Len(seq) - 1
         /\ DOMAIN Unlink(seq, i) = 1..(Len(seq) - 1)
         /\ \A k \in 1..(Len(seq) - 1) :
              Unlink(seq, i)[k] = IF k < i THEN seq[k] ELSE seq[k + 1]
<1> DEFINE before == SubSeq(seq, 1, i - 1)
           after == SubSeq(seq, i + 1, Len(seq))
<1>1. Len(seq) \in Nat /\ i \in Int /\ \A k \in 1..Len(seq) : seq[k] \in S
  OBVIOUS
<1>2. /\ before \in Seq(S) /\ Len(before) = i - 1
      /\ \A k \in 1..(i - 1) : before[k] = seq[k]
  <2>1. \A k \in 1..(i - 1) : seq[k] \in S
    BY <1>1
  <2>2. /\ before \in Seq(S) /\ Len(before) = IF 1 <= i - 1 THEN (i - 1) - 1 + 1 ELSE 0
        /\ \A k \in 1..((i - 1) - 1 + 1) : before[k] = seq[1 + k - 1]
    BY <2>1, <1>1, SubSeqProperties
  <2> HIDE DEF before
  <2> QED BY <2>2, <1>1
<1>3. /\ after \in Seq(S) /\ Len(after) = Len(seq) - i
      /\ \A k \in 1..(Len(seq) - i) : after[k] = seq[i + k]
  <2>1. \A k \in (i + 1)..Len(seq) : seq[k] \in S
    BY <1>1
  <2>2. /\ after \in Seq(S)
        /\ Len(after) = IF i + 1 <= Len(seq) THEN Len(seq) - (i + 1) + 1 ELSE 0
        /\ \A k \in 1..(Len(seq) - (i + 1) + 1) : after[k] = seq[(i + 1) + k - 1]
    BY <2>1, <1>1, SubSeqProperties
  <2> HIDE DEF after
  <2> QED BY <2>2, <1>1
<1> HIDE DEF before, after
<1> DEFINE m == Len(seq)
           out == before \o after
<1>4. out = Unlink(seq, i) /\ m \in Nat /\ i \in 1..m
  BY <1>1 DEF Unlink, before, after
<1>5. /\ out \in Seq(S) /\ Len(out) = Len(before) + Len(after)
      /\ \A k \in 1..(Len(before) + Len(after)) :
           out[k] = IF k <= Len(before) THEN before[k] ELSE after[k - Len(before)]
  BY <1>2, <1>3, ConcatProperties
<1> HIDE DEF m, out
<1>6. /\ Len(before) = i - 1 /\ Len(after) = m - i /\ Len(out) = m - 1
      /\ \A k \in 1..(m - 1) :
           out[k] = IF k <= i - 1 THEN before[k] ELSE after[k - (i - 1)]
  BY <1>2, <1>3, <1>4, <1>5 DEF m
<1>7. ASSUME NEW k \in 1..(m - 1) PROVE out[k] = IF k < i THEN seq[k] ELSE seq[k + 1]
  <2>1. CASE k < i
    BY <2>1, <1>2, <1>4, <1>6
  <2>2. CASE k >= i
    <3>1. k - (i - 1) \in 1..(m - i) /\ i + (k - (i - 1)) = k + 1
      BY <2>2, <1>4
    <3>2. out[k] = after[k - (i - 1)]
      BY <2>2, <1>4, <1>6
    <3>3. after[k - (i - 1)] = seq[i + (k - (i - 1))]
      BY <3>1, <1>3 DEF m
    <3> QED BY <3>1, <3>2, <3>3, <2>2, <1>4
  <2> QED BY <2>1, <2>2, <1>4
<1>8. out \in Seq(S) /\ DOMAIN out = 1..(m - 1)
  BY <1>5, <1>6
<1> QED BY <1>4, <1>6, <1>7, <1>8 DEF m

LEMMA CleanupOK == ASSUME IInv, NEW s \in Sessions, SessionCleanup(s) PROVE IInv'
<1>1. PICK i \in DOMAIN sessions :
        sessions[i] = s /\ sessions' = Unlink(sessions, i)
  BY DEF SessionCleanup, Unlink
<1> DEFINE n == Len(sessions)
<1>2. n \in Nat /\ DOMAIN sessions = 1..n /\ i \in 1..n /\ sessions \in Seq(Sessions)
  BY DEF IInv, ListOK
<1>3. /\ sessions' \in Seq(Sessions) /\ DOMAIN sessions' = 1..(n - 1)
      /\ \A k \in 1..(n - 1) : sessions'[k] = IF k < i THEN sessions[k] ELSE sessions[k + 1]
  BY <1>1, <1>2, Unlinked
<1> HIDE DEF n
<1>4. \A j \in DOMAIN sessions : sessions[j] = s => j = i
  BY <1>1 DEF IInv, ListOK
<1>5. \A t \in Sessions : audioState'[t] = IF t = s THEN "NONE" ELSE audioState[t]
  BY DEF SessionCleanup, IInv, ListOK
<1>6. ListedSessions' = ListedSessions \ {s}
  <2>1. ASSUME NEW k \in 1..(n - 1) PROVE sessions'[k] \in ListedSessions \ {s}
    <3>1. CASE k < i
      <4>1. sessions'[k] = sessions[k] /\ k \in 1..n /\ k # i
        BY <3>1, <1>2, <1>3
      <4> QED BY <4>1, <1>2, <1>4 DEF ListedSessions
    <3>2. CASE k >= i
      <4>1. sessions'[k] = sessions[k + 1] /\ k + 1 \in 1..n /\ k + 1 # i
        BY <3>2, <1>2, <1>3
      <4> QED BY <4>1, <1>2, <1>4 DEF ListedSessions
    <3> QED BY <3>1, <3>2, <1>2
  <2>2. ASSUME NEW t \in ListedSessions \ {s} PROVE \E k \in DOMAIN sessions' : sessions'[k] = t
    <3>1. PICK j \in 1..n : sessions[j] = t /\ j # i
      BY <1>1, <1>2 DEF ListedSessions
    <3>2. CASE j < i
      BY <3>1, <3>2, <1>2, <1>3
    <3>3. CASE j > i
      <4>1. j - 1 \in 1..(n - 1) /\ ~(j - 1 < i) /\ (j - 1) + 1 = j
        BY <3>3, <1>2
      <4>2. sessions'[j - 1] = sessions[(j - 1) + 1]
        BY <4>1, <1>3
      <4>3. j - 1 \in DOMAIN sessions'
        BY <4>1, <1>3
      <4>4. sessions'[j - 1] = t
        BY <3>1, <4>1, <4>2
      <4> QED BY <4>3, <4>4
    <3> QED BY <3>1, <3>2, <3>3, <1>2
  <2>3. ListedSessions' = {sessions'[k] : k \in 1..(n - 1)}
    BY <1>3 DEF ListedSessions
  <2>4. ListedSessions' \subseteq ListedSessions \ {s}
    BY <2>1, <2>3
  <2>5. \A t \in ListedSessions \ {s} : \E k \in 1..(n - 1) : sessions'[k] = t
    BY <1>3, <2>2
  <2>6. ListedSessions \ {s} \subseteq ListedSessions'
    BY <2>3, <2>5
  <2> QED BY <2>4, <2>6
<1>7. \A j, k \in DOMAIN sessions' : sessions'[j] = sessions'[k] => j = k
  <2> SUFFICES ASSUME NEW j \in 1..(n - 1), NEW k \in 1..(n - 1), sessions'[j] = sessions'[k]
               PROVE  j = k
    BY <1>3
  <2> DEFINE old(x) == IF x < i THEN x ELSE x + 1
  <2>1. old(j) \in 1..n /\ old(k) \in 1..n
    BY <1>2
  <2>2. sessions'[j] = sessions[old(j)] /\ sessions'[k] = sessions[old(k)]
    BY <1>3
  <2>3. old(j) = old(k)
    <3> HIDE DEF old
    <3> QED BY <2>1, <2>2, <1>2 DEF IInv, ListOK
  <2> QED BY <2>3, <1>2
<1>8. ListOK'
  <2>1. audioState' \in [Sessions -> StreamStates \cup {"NONE"}]
    BY DEF SessionCleanup, IInv, ListOK
  <2> QED BY <1>3, <1>5, <1>6, <1>7, <2>1 DEF IInv, ListOK
<1>9. CASE sessions' # <<>>
  <2>1. sessions # <<>>
    BY <1>2
  <2>2. NumbersKept
    BY <1>9 DEF SessionCleanup, NumbersKept
  <2> QED BY <1>8, <1>9, <2>1, <2>2, NumbersKeptOK DEF IInv
<1>10. CASE sessions' = <<>>
  <2>1. /\ rtp' = NoMaster /\ buffered' = 0 /\ cur_stamp' = 0 /\ net' = Never
        /\ Idle /\ writing' = writing
    BY <1>10 DEF SessionCleanup
  <2> QED BY <1>8, <1>10, <2>1, Constants
          DEF IInv, WriteOK, MasterOK, InputHeld, MediaClock, Lead, Idle, Never
<1> QED BY <1>9, <1>10

-----------------------------------------------------------------------------
(* A write *)

\* airplay_write stamps: the first packet is due no earlier than the stamp.
LEMMA BeginOK == ASSUME IInv, NEW n \in 1..MaxWrite, WriteBegin(n) PROVE IInv'
<1>1. /\ rtp \in RtpType /\ rtp.pos \in 0..(PosMod - 1) /\ buffered \in 0..(PacketSamples - 1)
      /\ buffered \in 0..OutputBuffer
  BY Constants DEF WriteBegin, IInv, MasterOK, WriteOK, InputHeld, RtpType
<1>2. /\ rtp' \in RtpType /\ rtp'.pos = rtp.pos /\ buffered' = buffered + n
      /\ cur_stamp' = (rtp.pos + buffered - OutputBuffer) % PosMod
      /\ writing' = n /\ net' = n /\ ~Idle' /\ Idle
  BY <1>1, PollType, Constants DEF WriteBegin, TimestampSet, Idle, Never
<1>3. /\ cur_stamp' \in 0..(PosMod - 1)
      /\ (rtp.pos + buffered - cur_stamp') % PosMod = OutputBuffer
      /\ (rtp.pos - cur_stamp') % PosMod = OutputBuffer - buffered
  <2> DEFINE s == StampOf(PosMod, OutputBuffer, rtp.pos, buffered)
  <2>2. /\ s \in 0..(PosMod - 1) /\ (rtp.pos + buffered - s) % PosMod = OutputBuffer
        /\ Minus(PosMod, rtp.pos, s) = OutputBuffer - buffered
    <3>1. PosMod \in Nat \ {0} /\ OutputBuffer \in 0..(PosMod - 1)
      BY Constants
    <3> QED BY <1>1, <3>1, StampArithmetic
  <2>3. cur_stamp' = s
    BY <1>2 DEF StampOf
  <2> HIDE DEF s
  <2> QED BY <2>2, <2>3 DEF Minus
<1>4. ListOK'
  BY DEF IInv, ListOK, ListedSessions, WriteBegin
<1>5. WriteOK'
  BY <1>1, <1>2, <1>3, Constants DEF WriteOK
<1>6. MasterOK' /\ InputHeld'
  <2>1. sessions' # <<>> /\ rtp' # NoMaster
    BY <1>2, TypeIsMaster DEF WriteBegin
  <2> QED BY <1>1, <1>2, <2>1, Constants DEF MasterOK, InputHeld, Never
<1>7. MediaClock'
  <2>1. rtp.pos + (buffered + n) - cur_stamp' - n = rtp.pos + buffered - cur_stamp'
    BY <1>1, <1>3
  <2>2. rtp'.pos + buffered' - cur_stamp' - net' = rtp.pos + buffered - cur_stamp'
    BY <1>2, <2>1
  <2> QED BY <1>3, <2>2 DEF MediaClock
<1>8. Lead'
  <2>1. /\ OutputBuffer - buffered \in (OutputBuffer - (PacketSamples - 1))..(OutputBuffer + n - (buffered + n))
    BY <1>1, Constants
  <2> QED BY <1>2, <1>3, <2>1 DEF Lead
<1> QED BY <1>4, <1>5, <1>6, <1>7, <1>8 DEF IInv

\* Facts while a packet is taken from the input buffer.
LEMMA Sending ==
  ASSUME IInv, PacketsSend
  PROVE  /\ rtp # NoMaster /\ rtp \in RtpType /\ rtp.pos \in 0..(PosMod - 1)
         /\ cur_stamp \in 0..(PosMod - 1) /\ net \in 0..(PosMod - 1) /\ net # Never
         /\ writing \in 1..MaxWrite /\ ~Idle /\ ~Idle'
         /\ buffered \in PacketSamples..(PacketSamples + MaxWrite - 1)
         /\ buffered < PacketSamples + writing
         /\ buffered' = buffered - PacketSamples
         /\ sessions' = sessions /\ cur_stamp' = cur_stamp /\ writing' = writing
<1>1. ~Idle /\ buffered >= PacketSamples /\ writing' = writing /\ ~Idle'
  BY DEF PacketsSend, FullPacket, Idle
<1>2. writing \in 1..MaxWrite /\ net # Never /\ rtp # NoMaster
  BY <1>1 DEF IInv, WriteOK, InputHeld, Idle
<1>3. rtp \in RtpType /\ rtp.pos \in 0..(PosMod - 1)
  BY <1>2 DEF IInv, MasterOK, RtpType, Positions
<1>4. buffered \in Nat /\ buffered < PacketSamples + writing
  BY <1>1 DEF IInv, WriteOK, InputHeld
<1>5. buffered \in PacketSamples..(PacketSamples + MaxWrite - 1)
  BY <1>1, <1>2, <1>4, Constants
<1>6. cur_stamp \in 0..(PosMod - 1) /\ net \in 0..(PosMod - 1)
  BY <1>2, Constants DEF IInv, WriteOK
<1> QED BY <1>1, <1>2, <1>3, <1>4, <1>5, <1>6 DEF PacketsSend

\* MediaClock and Lead at the same moment.
LEMMA SendingClock ==
  ASSUME IInv, PacketsSend
  PROVE  /\ (rtp.pos + buffered - cur_stamp - net) % PosMod = OutputBuffer
         /\ (rtp.pos - cur_stamp) % PosMod
              \in (OutputBuffer - (PacketSamples - 1))..(OutputBuffer + writing - buffered)
  BY Sending DEF IInv, MediaClock, Lead

\* The arithmetic of a packet of P samples that leaves the input buffer: the
\* position p moves along when it was sent, and the samples received r shrink
\* when it was dropped.
LEMMA PacketTaken ==
  ASSUME NEW M \in Nat \ {0}, NEW P \in 1..M, NEW i \in P..(M - 1),
         NEW p \in 0..(M - 1), NEW c \in 0..(M - 1), NEW r \in 0..(M - 1)
  PROVE  /\ Clock(M, Plus(M, p, P), i - P, c, r) = Clock(M, p, i, c, r)
         /\ Clock(M, p, i - P, c, Minus(M, r, P)) = Clock(M, p, i, c, r)
         /\ Plus(M, p, P) \in 0..(M - 1) /\ Minus(M, r, P) \in 0..(M - 1)
<1> DEFINE a == (p + P) % M
           b == (r - P) % M
           y == p + i - c - r
<1>0. P \in 0..M
  OBVIOUS
<1>1. a \in {p + P, p + P - M} /\ a \in 0..(M - 1)
  BY <1>0, StepUp
<1>2. b \in {r - P, r - P + M} /\ b \in 0..(M - 1)
  BY <1>0, StepDown
<1> HIDE DEF a, b
<1>3. y \in (-(2 * M))..(2 * M - 1)
  OBVIOUS
<1>4. ASSUME NEW z \in (-(2 * M))..(2 * M - 1), z \in {y, y - M}
      PROVE  z % M = y % M
  <2> HIDE DEF y
  <2>1. CASE z = y
    BY <2>1
  <2>2. CASE z = y - M
    BY <1>3, <2>2, ModShift
  <2> QED BY <1>4, <2>1, <2>2
<1>5. (a + (i - P) - c - r) % M = y % M
  <2> DEFINE z == a + (i - P) - c - r
  <2>1. z \in (-(2 * M))..(2 * M - 1) /\ z \in {y, y - M}
    BY <1>1
  <2> HIDE DEF z, y
  <2>2. z % M = y % M
    BY <2>1, <1>4
  <2> QED BY <2>2 DEF z
<1>6. (p + (i - P) - c - b) % M = y % M
  <2> DEFINE z == p + (i - P) - c - b
  <2>1. z \in (-(2 * M))..(2 * M - 1) /\ z \in {y, y - M}
    BY <1>2
  <2> HIDE DEF z, y
  <2>2. z % M = y % M
    BY <2>1, <1>4
  <2> QED BY <2>2 DEF z
<1>7. a = Plus(M, p, P) /\ b = Minus(M, r, P)
  BY DEF a, b, Plus, Minus
<1> QED BY <1>1, <1>2, <1>5, <1>6, <1>7 DEF Clock

\* The same of the variables.
LEMMA Taken ==
  ASSUME IInv, PacketsSend
  PROVE  LET a == (rtp.pos + PacketSamples) % PosMod
             b == (net - PacketSamples) % PosMod
         IN  /\ a \in Positions /\ b \in Positions
             /\ (a + (buffered - PacketSamples) - cur_stamp - net) % PosMod = OutputBuffer
             /\ (a - cur_stamp) % PosMod
                  \in (OutputBuffer - (PacketSamples - 1))
                      ..(OutputBuffer + writing - (buffered - PacketSamples))
             /\ (rtp.pos + (buffered - PacketSamples) - cur_stamp - b) % PosMod = OutputBuffer
<1> DEFINE a == Plus(PosMod, rtp.pos, PacketSamples)
           b == Minus(PosMod, net, PacketSamples)
           d == (rtp.pos - cur_stamp) % PosMod
<1>1. /\ rtp.pos \in 0..(PosMod - 1) /\ cur_stamp \in 0..(PosMod - 1) /\ net \in 0..(PosMod - 1)
      /\ PosMod \in Nat \ {0} /\ PacketSamples \in Nat \ {0} /\ OutputBuffer \in Nat
      /\ PacketSamples <= OutputBuffer + 1 /\ writing \in Nat /\ OutputBuffer + writing < PosMod
      /\ buffered \in Nat /\ buffered >= PacketSamples /\ buffered < PacketSamples + writing
  BY Sending, Constants
<1>2. PacketSamples \in 1..PosMod /\ buffered \in PacketSamples..(PosMod - 1)
  BY <1>1
<1>3. /\ Clock(PosMod, a, buffered - PacketSamples, cur_stamp, net) = OutputBuffer
      /\ Clock(PosMod, rtp.pos, buffered - PacketSamples, cur_stamp, b) = OutputBuffer
      /\ a \in 0..(PosMod - 1) /\ b \in 0..(PosMod - 1)
  <2>1. Clock(PosMod, rtp.pos, buffered, cur_stamp, net) = OutputBuffer
    BY SendingClock DEF Clock
  <2> DEFINE i == buffered
             m == PosMod
             q == PacketSamples
             p == rtp.pos
  <2>2. m \in Nat \ {0} /\ q \in 1..m /\ i \in q..(m - 1)
    BY <1>1, <1>2
  <2>3. p \in 0..(m - 1) /\ cur_stamp \in 0..(m - 1) /\ net \in 0..(m - 1)
    BY <1>1
  <2> HIDE DEF i, m, q, p
  <2>4. /\ Clock(m, Plus(m, p, q), i - q, cur_stamp, net) = Clock(m, p, i, cur_stamp, net)
        /\ Clock(m, p, i - q, cur_stamp, Minus(m, net, q)) = Clock(m, p, i, cur_stamp, net)
        /\ Plus(m, p, q) \in 0..(m - 1) /\ Minus(m, net, q) \in 0..(m - 1)
    BY <2>2, <2>3, PacketTaken
  <2> QED BY <2>1, <2>4 DEF i, m, q, p
<1>5. d \in (OutputBuffer - (PacketSamples - 1))..(OutputBuffer + writing - buffered)
  BY SendingClock
<1> HIDE DEF a, b
<1>6. /\ d + PacketSamples < PosMod
      /\ d + PacketSamples \in (OutputBuffer - (PacketSamples - 1))
                               ..(OutputBuffer + writing - (buffered - PacketSamples))
  <2> HIDE DEF d
  <2> QED BY <1>1, <1>5
<1>7. (a - cur_stamp) % PosMod = d + PacketSamples
  <2>1. PacketSamples \in 0..PosMod
    BY <1>2
  <2> QED BY <1>1, <1>6, <2>1, DistanceGrows DEF a, Plus
<1> HIDE DEF d
<1>8. (a - cur_stamp) % PosMod
        \in (OutputBuffer - (PacketSamples - 1))..(OutputBuffer + writing - (buffered - PacketSamples))
  BY <1>6, <1>7
<1>9. a = (rtp.pos + PacketSamples) % PosMod /\ b = (net - PacketSamples) % PosMod
  BY DEF a, b, Plus, Minus
<1> QED BY <1>3, <1>8, <1>9 DEF Positions, Clock

\* What a packet leaves alone.
LEMMA SendingKeeps ==
  ASSUME IInv, PacketsSend
  PROVE  /\ rtp # NoMaster /\ rtp \in RtpType /\ net # Never /\ ~Idle /\ ~Idle'
         /\ writing \in 1..MaxWrite /\ sessions' = sessions /\ sessions # <<>>
         /\ cur_stamp' = cur_stamp /\ cur_stamp \in Positions /\ writing' = writing
         /\ buffered' = buffered - PacketSamples /\ buffered' \in Nat
         /\ buffered' < PacketSamples + writing
<1>1. sessions # <<>>
  BY Sending DEF IInv, MasterOK
<1>2. buffered' = buffered - PacketSamples /\ buffered \in PacketSamples..(PacketSamples + MaxWrite - 1)
      /\ buffered < PacketSamples + writing /\ writing \in 1..MaxWrite
  BY Sending
<1>3. buffered' \in Nat /\ buffered' < PacketSamples + writing
  BY <1>2, Constants
<1>4. cur_stamp \in Positions
  BY Sending DEF Positions
<1> QED BY <1>1, <1>2, <1>3, <1>4, Sending

\* A packet that was sent: position and input move together.
LEMMA EncodedOK == ASSUME IInv, PacketsSend, PacketEncoded PROVE IInv'
<1>1. PICK payload \in Payloads, broken \in SUBSET {s \in Sessions : Playing(s)} :
        /\ audioState' = [s \in Sessions |-> IF s \in broken THEN "FAILED" ELSE audioState[s]]
        /\ rtp' = PacketCommit(rtp, Kept(PacketNext(rtp, PacketSamples, FALSE, payload)))
        /\ net' = net
  BY DEF PacketEncoded, PacketSend
<1> DEFINE pkt == PacketNext(rtp, PacketSamples, FALSE, payload)
<1>2. pkt \in Packets /\ pkt.samples = PacketSamples
  BY Sending, Constants DEF PacketNext, Packets, RtpType
<1> HIDE DEF pkt
<1>3. Kept(pkt) \in Packets /\ Kept(pkt).samples = PacketSamples
  BY <1>2 DEF Kept, Marked, Packets
<1>4. rtp' \in RtpType /\ rtp'.pos = (rtp.pos + PacketSamples) % PosMod
  BY <1>1, <1>3, Sending, CommitType DEF pkt
<1>5. ListOK'
  <2>1. \A s \in broken : audioState[s] # "NONE"
    BY DEF Playing
  <2>2. /\ \A s \in Sessions : (audioState'[s] # "NONE") = (audioState[s] # "NONE")
        /\ audioState' \in [Sessions -> StreamStates \cup {"NONE"}]
    BY <1>1, <2>1 DEF IInv, ListOK, StreamStates
  <2>3. sessions' = sessions /\ ListedSessions' = ListedSessions
    BY SendingKeeps DEF ListedSessions
  <2> QED BY <2>2, <2>3 DEF IInv, ListOK
<1>6. rtp' # NoMaster
  BY <1>4, TypeIsMaster
<1>7. net' = net /\ net \in Positions /\ net' # Never
  BY <1>1, Sending, SendingKeeps DEF Positions
<1>8. WriteOK' /\ MasterOK' /\ InputHeld'
  BY <1>4, <1>6, <1>7, SendingKeeps DEF WriteOK, MasterOK, InputHeld
<1>9. MediaClock'
  BY <1>4, <1>7, Taken, SendingKeeps DEF MediaClock
<1>10. Lead'
  BY <1>4, Taken, SendingKeeps DEF Lead
<1> QED BY <1>5, <1>8, <1>9, <1>10 DEF IInv

\* A packet the encoder refused: its samples were never received.
LEMMA RefusedOK == ASSUME IInv, PacketsSend, PacketRefused PROVE IInv'
<1>1. rtp' = rtp /\ audioState' = audioState /\ net' = (net - PacketSamples) % PosMod
  BY DEF PacketRefused
<1>2. ListOK'
  BY <1>1, SendingKeeps DEF IInv, ListOK, ListedSessions
<1>3. net' \in Positions /\ net' # Never
  <2>1. net' \in Positions
    BY <1>1, Taken
  <2> QED BY <2>1 DEF Positions, Never
<1>4. WriteOK' /\ MasterOK' /\ InputHeld'
  BY <1>1, <1>3, SendingKeeps DEF IInv, WriteOK, MasterOK, InputHeld
<1>5. MediaClock'
  BY <1>1, <1>3, Taken, SendingKeeps DEF MediaClock
<1>6. Lead'
  <2> DEFINE y == (rtp.pos - cur_stamp) % PosMod
             low == OutputBuffer - (PacketSamples - 1)
  <2>1. y \in low..(OutputBuffer + writing - buffered)
    BY SendingClock
  <2>3. /\ buffered \in Nat /\ writing \in Nat
        /\ OutputBuffer \in Nat /\ PacketSamples \in Nat
    BY Sending, Constants
  <2>2. y \in low..(OutputBuffer + writing - (buffered - PacketSamples))
    <3> HIDE DEF y
    <3> QED BY <2>1, <2>3
  <2> QED BY <1>1, <2>2, SendingKeeps DEF Lead
<1> QED BY <1>2, <1>4, <1>5, <1>6 DEF IInv

\* airplay_write ends with less than a packet left.
LEMMA EndOK == ASSUME IInv, WriteEnd PROVE IInv'
<1>1. /\ Idle' /\ ~Idle /\ buffered < PacketSamples /\ writing' = Never
      /\ UNCHANGED <<sessions, rtp, buffered, cur_stamp, net>>
  <2>1. buffered \in Nat /\ ~(buffered >= PacketSamples)
    BY DEF WriteEnd, FullPacket, IInv, WriteOK
  <2>2. buffered < PacketSamples
    BY <2>1, Constants
  <2> QED BY <2>2 DEF WriteEnd, Idle
<1>2. ListOK'
  <2>1. /\ \A s \in Sessions : (audioState'[s] # "NONE") = (audioState[s] # "NONE")
        /\ audioState' \in [Sessions -> StreamStates \cup {"NONE"}]
    BY DEF WriteEnd, IInv, ListOK, StreamStates
  <2>2. sessions' = sessions /\ ListedSessions' = ListedSessions
    BY <1>1 DEF ListedSessions
  <2> QED BY <2>1, <2>2 DEF IInv, ListOK
<1>3. WriteOK' /\ MasterOK' /\ MediaClock' /\ Lead'
  BY <1>1 DEF IInv, WriteOK, MasterOK, MediaClock, Lead
<1>4. InputHeld'
  <2>1. buffered \in Nat /\ PacketSamples \in Nat /\ buffered < PacketSamples + 0
    BY <1>1, Constants DEF IInv, WriteOK
  <2> QED BY <1>1, <2>1 DEF IInv, InputHeld
<1> QED BY <1>2, <1>3, <1>4 DEF IInv

-----------------------------------------------------------------------------
(* Theorems *)

LEMMA Inductive == IInv /\ [StreamNext]_streamVars => IInv'
<1> SUFFICES ASSUME IInv, [StreamNext]_streamVars PROVE IInv'
  OBVIOUS
<1>1. CASE UNCHANGED streamVars
  BY <1>1 DEF streamVars, IInv, ListOK, ListedSessions, WriteOK, MasterOK, InputHeld, Idle, MediaClock, Lead
<1>2. ASSUME NEW s \in Sessions, SessionMake(s) \/ SessionConnected(s) \/ SessionSilent(s)
             \/ SessionCleanup(s) \/ ControlSvcCb(s)
      PROVE  IInv'
  BY <1>2, MakeOK, ConnectedOK, SilentOK, CleanupOK, ResendOK
<1>3. ASSUME NEW n \in 1..MaxWrite, WriteBegin(n) PROVE IInv'
  BY <1>3, BeginOK
<1>4. CASE PacketsSend
  <2>1. PacketEncoded \/ PacketRefused
    BY <1>4 DEF PacketsSend
  <2> QED BY <1>4, <2>1, EncodedOK, RefusedOK
<1>5. CASE WriteEnd
  BY <1>5, EndOK
<1> QED BY <1>1, <1>2, <1>3, <1>4, <1>5 DEF StreamNext

LEMMA Invariance == StreamSpec => []IInv
BY InitHolds, Inductive, PTL DEF StreamSpec

\* The list of sessions and the master session keep their type, for any number
\* of devices: each session is listed exactly once, and there is a master
\* session exactly while there are sessions.
THEOREM TypeCorrect == StreamSpec => []StreamTypeOK
<1>1. IInv => StreamTypeOK
  BY DEF IInv, ListOK, WriteOK, MasterOK, StreamTypeOK
<1> QED BY <1>1, Invariance, PTL

\* The calculation of timestamp_set: at every moment, across writes of any
\* size, dropped packets and wraps of the position, the next sample received is
\* due the output buffer after the last stamp plus what was received since.
THEOREM MediaClockCorrect == StreamSpec => []MediaClock
<1>1. IInv => MediaClock
  BY DEF IInv
<1> QED BY <1>1, Invariance, PTL

\* airplay_write: no packet is sent after it was due, nor too early, if the
\* output buffer holds a packet less one sample.
THEOREM AudioAheadCorrect == StreamSpec => []AudioAhead
<1>1. IInv => AudioAhead
  <2> SUFFICES ASSUME IInv, ~Idle PROVE AudioAhead
    BY DEF AudioAhead
  <2> DEFINE y == (rtp.pos - cur_stamp) % PosMod
             low == OutputBuffer - (PacketSamples - 1)
  <2>1. /\ y \in low..(OutputBuffer + writing - buffered)
        /\ buffered \in Nat /\ writing \in 1..MaxWrite /\ OutputBuffer \in Nat
    BY Constants DEF IInv, Lead, WriteOK, Idle
  <2>2. y \in low..(OutputBuffer + writing)
    <3> HIDE DEF y
    <3> QED BY <2>1, Constants
  <2> QED BY <2>2 DEF AudioAhead
<1> QED BY <1>1, Invariance, PTL

-----------------------------------------------------------------------------
(* What the devices were sent *)

\* The slot of the ring that was written k packets ago.
Back(r, k) == (r.pktbuf_next - k) % BufSize

\* A packet sent k packets ago, and what the ring has of it.
SentBack(r, k, p) ==
  /\ p.seqnum = (r.seqnum - k) % SeqNumMod
  /\ (p.rtptime + k * PacketSamples) % PosMod = r.pos
  /\ r.pktbuf[Back(r, k)] \in {p, [p EXCEPT !.marker = ~@]}

\* A device that plays was sent every packet since it joined, the last of which the ring
\* still has, and not more audio since its last sync packet than the shared counter says.
Heard(t, r) ==
  /\ Len(t.recent) <= r.pktbuf_len
  /\ t.since <= r.sync_counter
  /\ t.started \/ t.recent = <<>>
  /\ \A i \in 1..Len(t.recent) : SentBack(r, Len(t.recent) + 1 - i, t.recent[i])

ToldType == [sync : {Never} \cup Positions, started : BOOLEAN, recent : Seq(Packets), since : Nat]

\* Who is sent the next packet: from WriteBegin on also a device that has just joined.
Served(s) == audioState[s] = "STREAMING" \/ (audioState[s] = "CONNECTED" /\ ~Idle)

\* The samples a write has not sent yet count, as they are sent without another sync.
CounterOK ==
  rtp # NoMaster =>
    rtp.sync_counter + (IF Idle THEN 0 ELSE buffered) <= SyncEach + MaxWrite + PacketSamples - 1

ToldInv ==
  /\ told \in [Sessions -> ToldType]
  /\ \A s \in Sessions : Playing(s) => Heard(told[s], rtp)
  /\ \A s \in Sessions : Served(s) => told[s].started \/ told[s].sync = rtp.pos
  /\ CounterOK

\* The types of the fields, and what the assumptions say of the ring.
LEMMA RtpFields ==
  ASSUME NEW r \in RtpType
  PROVE  /\ r.seqnum \in 0..(SeqNumMod - 1) /\ r.pos \in 0..(PosMod - 1)
         /\ r.pktbuf \in [Slots -> Packets \cup {NoPacket}] /\ r.pktbuf_next \in 0..(BufSize - 1)
         /\ r.pktbuf_len \in 0..BufSize /\ r.sync_counter \in Nat
  BY DEF RtpType, SeqNums, Positions, Slots

LEMMA RingConstants ==
  /\ SeqNumMod \in Nat \ {0} /\ PosMod \in Nat \ {0} /\ BufSize \in Nat \ {0} /\ BufSize < SeqNumMod
  /\ SyncEach \in Nat \ {0} /\ MaxWrite \in Nat
  /\ PacketSamples \in Nat \ {0} /\ PacketSamples \in SampleCounts /\ Slots = 0..(BufSize - 1)
  BY RtpAssumption, StreamAssumption DEF Slots

LEMMA BackType == ASSUME NEW r \in RtpType, NEW k \in Int PROVE Back(r, k) \in Slots
<1>1. r.pktbuf_next - k \in Int
  BY RtpFields
<1> QED BY <1>1, ModRange, RingConstants DEF Back

\* What a packet does to the fields.
LEMMA CommitFields ==
  ASSUME NEW r \in RtpType, NEW pkt \in Packets
  PROVE  LET new == PacketCommit(r, pkt) IN
         /\ new.seqnum = (r.seqnum + 1) % SeqNumMod /\ new.pos = (r.pos + pkt.samples) % PosMod
         /\ new.pktbuf = [r.pktbuf EXCEPT ![r.pktbuf_next] = pkt]
         /\ new.pktbuf_next = (r.pktbuf_next + 1) % BufSize
         /\ new.pktbuf_len = IF r.pktbuf_len < BufSize THEN r.pktbuf_len + 1 ELSE r.pktbuf_len
         /\ new.sync_counter = r.sync_counter + pkt.samples
  BY DEF PacketCommit

\* A packet that was not overwritten is one further back.
LEMMA SentMovesBack ==
  ASSUME NEW r \in RtpType, NEW kept \in Packets, kept.samples = PacketSamples,
         NEW k \in 1..(BufSize - 1), NEW p \in Packets, SentBack(r, k, p)
  PROVE  SentBack(PacketCommit(r, kept), k + 1, p)
<1> DEFINE new == PacketCommit(r, kept)
           q == r.seqnum
           w == r.pktbuf_next
<1>1. /\ new.seqnum = (q + 1) % SeqNumMod /\ new.pos = (r.pos + PacketSamples) % PosMod
      /\ new.pktbuf = [r.pktbuf EXCEPT ![w] = kept] /\ new.pktbuf_next = (w + 1) % BufSize
  BY CommitFields
<1>2. q \in 0..(SeqNumMod - 1) /\ w \in 0..(BufSize - 1) /\ r.pktbuf \in [Slots -> Packets \cup {NoPacket}]
  BY RtpFields
<1>3. k + 1 \in 1..SeqNumMod /\ k + 1 \in 1..BufSize /\ k + 1 # 1 /\ (k + 1) - 1 = k
  BY RingConstants
<1> HIDE DEF new, q, w
<1>4. p.seqnum = (new.seqnum - (k + 1)) % SeqNumMod
  <2> DEFINE j == k + 1
  <2>1. j \in 1..SeqNumMod /\ j - 1 = k
    BY <1>3
  <2> HIDE DEF j
  <2>2. (((q + 1) % SeqNumMod) - j) % SeqNumMod = (q - (j - 1)) % SeqNumMod
    <3>1. SeqNumMod \in Nat \ {0} /\ q \in 0..(SeqNumMod - 1)
      BY <1>2, RingConstants
    <3> QED BY <2>1, <3>1, ModBack, ZenonT(60)
  <2>3. p.seqnum = (q - k) % SeqNumMod
    BY DEF SentBack, q
  <2> QED BY <1>1, <2>1, <2>2, <2>3 DEF j
<1>5. (p.rtptime + (k + 1) * PacketSamples) % PosMod = new.pos
  <2> DEFINE x == p.rtptime + k * PacketSamples
  <2>1. k \in Int /\ PacketSamples \in Int /\ p.rtptime \in Int
    BY RingConstants DEF Packets, Positions
  <2>2. x \in Int /\ p.rtptime + (k + 1) * PacketSamples = x + PacketSamples
    BY <2>1
  <2>3. x % PosMod = r.pos
    BY DEF SentBack
  <2> DEFINE y == p.rtptime + (k + 1) * PacketSamples
  <2> HIDE DEF x, y
  <2>4. ((x % PosMod) + PacketSamples) % PosMod = (x + PacketSamples) % PosMod
    BY <2>1, <2>2, ModStep, RingConstants
  <2>5. y = x + PacketSamples
    BY <2>2 DEF y
  <2>6. y % PosMod = new.pos
    BY <1>1, <2>3, <2>4, <2>5
  <2> QED BY <2>6 DEF y
<1>6. new.pktbuf[Back(new, k + 1)] = r.pktbuf[Back(r, k)]
  <2> DEFINE j == k + 1
  <2>0. j \in 1..BufSize /\ j # 1 /\ j - 1 = k
    BY <1>3
  <2> HIDE DEF j
  <2>1. (((w + 1) % BufSize) - j) % BufSize = (w - (j - 1)) % BufSize /\ (w - (j - 1)) % BufSize # w
    <3>1. BufSize \in Nat \ {0} /\ w \in 0..(BufSize - 1)
      BY <1>2, RingConstants
    <3> QED BY <2>0, <3>1, ModBack, ZenonT(60)
  <2>2. Back(new, j) = Back(r, k) /\ Back(r, k) # w
    BY <1>1, <2>0, <2>1 DEF Back, w
  <2>3. Back(r, k) \in Slots
    BY BackType
  <2> QED BY <1>1, <1>2, <2>2, <2>3 DEF j
<1> QED BY <1>4, <1>5, <1>6 DEF SentBack, new

\* The packet itself is one back, as the ring has it, whatever its marker bit became.
LEMMA SentNow ==
  ASSUME NEW r \in RtpType, NEW payload \in Payloads, NEW b \in BOOLEAN, NEW c \in BOOLEAN
  PROVE  LET pkt == PacketNext(r, PacketSamples, b, payload)
             kept == [pkt EXCEPT !.marker = c]
         IN /\ pkt \in Packets /\ kept \in Packets /\ kept.samples = PacketSamples
            /\ pkt.samples = PacketSamples /\ pkt.rtptime = r.pos
            /\ SentBack(PacketCommit(r, kept), 1, pkt)
<1> DEFINE pkt == PacketNext(r, PacketSamples, b, payload)
           kept == [pkt EXCEPT !.marker = c]
           new == PacketCommit(r, kept)
<1>1. /\ pkt \in Packets /\ pkt.samples = PacketSamples /\ pkt.rtptime = r.pos /\ pkt.seqnum = r.seqnum
      /\ pkt.marker = b
  BY RingConstants DEF PacketNext, Packets, RtpType
<1>2. kept \in Packets /\ kept.samples = PacketSamples /\ kept \in {pkt, [pkt EXCEPT !.marker = ~@]}
  <2>1. c = b \/ c = ~b
    OBVIOUS
  <2>2. c = b => kept = pkt
    BY DEF PacketNext
  <2>3. c = ~b => kept = [pkt EXCEPT !.marker = ~@]
    BY DEF PacketNext
  <2>4. kept \in Packets /\ kept.samples = PacketSamples
    BY <1>1 DEF Packets
  <2> QED BY <2>1, <2>2, <2>3, <2>4
<1> HIDE DEF pkt, kept
<1>3. /\ new.seqnum = (r.seqnum + 1) % SeqNumMod /\ new.pos = (r.pos + PacketSamples) % PosMod
      /\ new.pktbuf = [r.pktbuf EXCEPT ![r.pktbuf_next] = kept]
      /\ new.pktbuf_next = (r.pktbuf_next + 1) % BufSize
  BY <1>2, CommitFields
<1> HIDE DEF new
<1>4. /\ r.seqnum \in 0..(SeqNumMod - 1) /\ r.pktbuf_next \in 0..(BufSize - 1)
      /\ r.pktbuf \in [Slots -> Packets \cup {NoPacket}]
  BY RtpFields
<1>5. /\ 1 \in 1..SeqNumMod /\ 1 \in 1..BufSize
  BY RingConstants
<1>6. pkt.seqnum = (new.seqnum - 1) % SeqNumMod
  <2>1. (((r.seqnum + 1) % SeqNumMod) - 1) % SeqNumMod = r.seqnum
    BY <1>4, <1>5, ModBack, RingConstants
  <2> QED BY <1>1, <1>3, <2>1
<1>7. (pkt.rtptime + 1 * PacketSamples) % PosMod = new.pos
  <2>1. 1 * PacketSamples = PacketSamples
    BY RingConstants
  <2> QED BY <1>1, <1>3, <2>1
<1>8. new.pktbuf[Back(new, 1)] = kept
  <2>1. (((r.pktbuf_next + 1) % BufSize) - 1) % BufSize = r.pktbuf_next
    BY <1>4, <1>5, ModBack, RingConstants
  <2>2. Back(new, 1) = r.pktbuf_next /\ r.pktbuf_next \in Slots
    BY <1>3, <1>4, <2>1, RingConstants DEF Back
  <2> QED BY <1>3, <1>4, <2>2
<1> QED BY <1>1, <1>2, <1>6, <1>7, <1>8 DEF SentBack, new, pkt, kept

\* The answer to a device that asks for the k-th packet back.
LEMMA GetBack ==
  ASSUME NEW r \in RtpType, NEW k \in 1..r.pktbuf_len
  PROVE  PacketGet(r, (r.seqnum - k) % SeqNumMod) = r.pktbuf[Back(r, k)]
<1> DEFINE q == r.seqnum
           len == r.pktbuf_len
           s == (q - k) % SeqNumMod
<1>1. q \in 0..(SeqNumMod - 1) /\ len \in 0..BufSize /\ r.pktbuf_next \in 0..(BufSize - 1) /\ k \in 1..len
  BY RtpFields
<1> HIDE DEF q, len
<1>2. k \in 1..(SeqNumMod - 1) /\ len \in 1..(SeqNumMod - 1) /\ k \in 1..BufSize
  BY <1>1, RingConstants
<1>3. s \in 0..(SeqNumMod - 1) /\ (q - s) % SeqNumMod = k
  <2>1. q - k \in Int
    BY <1>1, <1>2
  <2> QED BY <1>1, <1>2, <2>1, ModRange, DistanceBack, RingConstants
<1> HIDE DEF s
<1>4. Buffered((q - len) % SeqNumMod, (q - 1) % SeqNumMod, s)
  BY <1>1, <1>2, <1>3, BufferedDistance, RingConstants
<1>5. (r.pktbuf_next + BufSize - k) % BufSize = (r.pktbuf_next - k) % BufSize
  BY <1>1, <1>2, IndexBack, RingConstants
<1>6. len # 0
  BY <1>2
<1> QED BY <1>3, <1>4, <1>5, <1>6 DEF PacketGet, Back, q, len, s

\* A device that joins was sent nothing.
LEMMA HeardNothing ==
  ASSUME NEW r \in RtpType, NEW x \in {Never} \cup Positions
  PROVE  /\ Untold \in ToldType /\ Heard(Untold, r)
         /\ [Untold EXCEPT !.sync = x] \in ToldType /\ Heard([Untold EXCEPT !.sync = x], r)
<1>1. r.pktbuf_len \in Nat /\ r.sync_counter \in Nat
  BY RtpFields, RingConstants
<1>2. Untold \in ToldType /\ [Untold EXCEPT !.sync = x] \in ToldType
  <2>1. <<>> \in Seq(Packets) /\ 0 \in Nat
    OBVIOUS
  <2>2. Untold \in ToldType
    BY <2>1 DEF Untold, ToldType
  <2>3. [Untold EXCEPT !.sync = x] \in ToldType
    BY <2>2 DEF ToldType
  <2> QED BY <2>2, <2>3
<1>3. /\ Untold.recent = <<>> /\ Untold.since = 0
      /\ [Untold EXCEPT !.sync = x].recent = <<>> /\ [Untold EXCEPT !.sync = x].since = 0
  BY DEF Untold
<1>4. Len(<<>>) = 0 /\ 1..0 = {}
  OBVIOUS
<1> QED BY <1>1, <1>2, <1>3, <1>4 DEF Heard

\* The sync that a session is due restarts the count of both.
LEMMA HeardSynced ==
  ASSUME NEW r \in RtpType, NEW t \in ToldType, Heard(t, r)
  PROVE  /\ SyncIsTime(r) => /\ [t EXCEPT !.since = 0] \in ToldType
                             /\ Heard([t EXCEPT !.since = 0], SyncPolled(r))
         /\ ~SyncIsTime(r) => SyncPolled(r) = r
<1>1. CASE SyncIsTime(r)
  <2> DEFINE u == [t EXCEPT !.since = 0]
             p == SyncPolled(r)
  <2>1. u \in ToldType /\ u.recent = t.recent /\ u.started = t.started /\ u.since = 0
    BY DEF ToldType
  <2>2. /\ p.pktbuf = r.pktbuf /\ p.pktbuf_next = r.pktbuf_next /\ p.pktbuf_len = r.pktbuf_len
        /\ p.seqnum = r.seqnum /\ p.pos = r.pos /\ p.sync_counter = 0
    BY <1>1 DEF SyncPolled, RtpType
  <2> HIDE DEF u, p
  <2>3. ASSUME NEW k \in Int, NEW q, SentBack(r, k, q) PROVE SentBack(p, k, q)
    BY <2>2, <2>3 DEF SentBack, Back
  <2>4. Len(t.recent) \in Nat
    BY DEF ToldType
  <2>5. \A i \in 1..Len(u.recent) : SentBack(p, Len(u.recent) + 1 - i, u.recent[i])
    BY <2>1, <2>3, <2>4 DEF Heard
  <2>6. Heard(u, p)
    BY <2>1, <2>2, <2>5 DEF Heard
  <2> QED BY <1>1, <2>1, <2>6 DEF u, p
<1>2. CASE ~SyncIsTime(r)
  BY <1>2 DEF SyncPolled
<1> QED BY <1>1, <1>2

\* A device that is sent the packet; the oldest of those it remembers is gone with the slot.
LEMMA HeardOffered ==
  ASSUME NEW r \in RtpType, NEW t \in ToldType, Heard(t, r),
         NEW payload \in Payloads, NEW b \in BOOLEAN, NEW c \in BOOLEAN
  PROVE  LET pkt == PacketNext(r, PacketSamples, b, payload)
             new == PacketCommit(r, [pkt EXCEPT !.marker = c])
         IN /\ Offered(t, pkt) \in ToldType /\ Offered(t, pkt).started /\ Heard(Offered(t, pkt), new)
            /\ ~t.started => Offered(t, pkt).recent = <<pkt>>
<1> DEFINE pkt == PacketNext(r, PacketSamples, b, payload)
           kept == [pkt EXCEPT !.marker = c]
           new == PacketCommit(r, kept)
           n == Len(t.recent)
           app == Append(t.recent, pkt)
           u == Offered(t, pkt)
<1>1. /\ pkt \in Packets /\ kept \in Packets /\ kept.samples = PacketSamples
      /\ pkt.samples = PacketSamples /\ SentBack(new, 1, pkt)
  BY SentNow
<1>2. /\ new.pktbuf_len = IF r.pktbuf_len < BufSize THEN r.pktbuf_len + 1 ELSE r.pktbuf_len
      /\ new.sync_counter = r.sync_counter + PacketSamples
  BY <1>1, CommitFields
<1>3. /\ t.recent \in Seq(Packets) /\ n \in Nat /\ n <= r.pktbuf_len /\ t.since \in Nat
      /\ r.pktbuf_len \in 0..BufSize /\ r.sync_counter \in Nat /\ t.since <= r.sync_counter
      /\ \A i \in 1..n : SentBack(r, n + 1 - i, t.recent[i])
  BY RtpFields DEF ToldType, Heard
<1> HIDE DEF pkt
<1>4. app \in Seq(Packets) /\ Len(app) = n + 1 /\ app[n + 1] = pkt /\ \A i \in 1..n : app[i] = t.recent[i]
  BY <1>1, <1>3
<1>5. ASSUME NEW i \in 1..(n + 1), n + 2 - i <= BufSize PROVE SentBack(new, n + 2 - i, app[i])
  <2> HIDE DEF app, kept
  <2>1. CASE i = n + 1
    <3>1. n + 2 - i = 1
      BY <1>3, <2>1
    <3> QED BY <1>1, <1>4, <2>1, <3>1
  <2>2. CASE i \in 1..n
    <3> DEFINE k == n + 1 - i
    <3>1. k \in 1..(BufSize - 1) /\ k + 1 = n + 2 - i
      BY <1>3, <1>5, <2>2, RingConstants
    <3>2. SentBack(r, k, t.recent[i]) /\ t.recent[i] \in Packets
      BY <1>3, <2>2
    <3> HIDE DEF k, new
    <3>3. SentBack(new, k + 1, t.recent[i])
      BY <1>1, <3>1, <3>2, SentMovesBack DEF new
    <3> QED BY <1>4, <2>2, <3>1, <3>3
  <2> QED BY <1>3, <2>1, <2>2
<1>6. /\ u.started = TRUE /\ u.sync = Never /\ u.since = t.since + pkt.samples
      /\ u.recent = IF Len(app) > BufSize THEN Tail(app) ELSE app
      /\ u = [sync |-> u.sync, started |-> u.started, recent |-> u.recent, since |-> u.since]
  BY DEF Offered
<1>7. u.since \in Nat /\ u.since <= new.sync_counter
  BY <1>1, <1>2, <1>3, <1>6, RingConstants
<1> HIDE DEF u, app, new, kept
<1>8. ASSUME n + 1 <= BufSize PROVE u \in ToldType /\ Heard(u, new)
  <2>1. u.recent = app
    BY <1>3, <1>4, <1>6, <1>8, RingConstants
  <2>2. n + 1 <= new.pktbuf_len
    BY <1>2, <1>3, <1>8, RingConstants
  <2>3. ASSUME NEW i \in 1..(n + 1) PROVE SentBack(new, (n + 1) + 1 - i, app[i])
    <3>1. n + 2 - i <= BufSize /\ (n + 1) + 1 - i = n + 2 - i
      BY <1>3, <1>8, RingConstants
    <3> QED BY <1>5, <3>1
  <2>4. Heard(u, new)
    BY <1>4, <1>6, <1>7, <2>1, <2>2, <2>3 DEF Heard
  <2>5. u \in ToldType
    BY <1>4, <1>6, <1>7, <2>1 DEF ToldType
  <2> QED BY <2>4, <2>5
<1>9. ASSUME n + 1 > BufSize PROVE u \in ToldType /\ Heard(u, new)
  <2> DEFINE rest == Tail(app)
  <2>1. n = BufSize /\ new.pktbuf_len = BufSize
    BY <1>2, <1>3, <1>9, RingConstants
  <2>2. u.recent = rest
    BY <1>3, <1>4, <1>6, <1>9, RingConstants
  <2>3. rest \in Seq(Packets) /\ Len(rest) = n /\ \A i \in 1..n : rest[i] = app[i + 1]
    <3>1. app # <<>>
      BY <1>3, <1>4
    <3> QED BY <1>3, <1>4, <3>1, HeadTailProperties
  <2> HIDE DEF rest
  <2>4. ASSUME NEW i \in 1..n PROVE SentBack(new, n + 1 - i, rest[i])
    <3> DEFINE j == i + 1
    <3>1. j \in 1..(n + 1) /\ n + 2 - j <= BufSize /\ n + 2 - j = n + 1 - i
      BY <1>3, <2>1
    <3> HIDE DEF j
    <3>2. SentBack(new, n + 2 - j, app[j])
      BY <1>5, <3>1
    <3> QED BY <2>3, <3>1, <3>2 DEF j
  <2>5. Heard(u, new)
    BY <1>3, <1>6, <1>7, <2>1, <2>2, <2>3, <2>4 DEF Heard
  <2>6. u \in ToldType
    BY <1>6, <1>7, <2>2, <2>3 DEF ToldType
  <2> QED BY <2>5, <2>6
<1>10. ASSUME ~t.started PROVE u.recent = <<pkt>>
  <2>1. t.recent = <<>>
    BY <1>10 DEF Heard
  <2>2. Len(app) = 1 /\ app = <<pkt>>
    BY <1>1, <2>1 DEF app
  <2> QED BY <1>6, <2>2, RingConstants
<1> QED BY <1>3, <1>6, <1>8, <1>9, <1>10, RingConstants DEF u, new, kept, pkt

\* A device that plays has a master session.
MasterPlays == \A s \in Sessions : Playing(s) => rtp \in RtpType /\ rtp # NoMaster

LEMMA PlayingHasMaster == IInv => MasterPlays
<1> SUFFICES ASSUME IInv, NEW s \in Sessions, Playing(s) PROVE rtp \in RtpType /\ rtp # NoMaster
  BY DEF MasterPlays
<1>1. s \in ListedSessions
  BY DEF IInv, ListOK, Playing
<1>2. sessions # <<>>
  BY <1>1 DEF ListedSessions
<1> QED BY <1>2 DEF IInv, MasterOK

LEMMA ToldInitial == StreamInit => ToldInv
<1> SUFFICES ASSUME StreamInit PROVE ToldInv
  OBVIOUS
<1>1. Untold \in ToldType
  <2>1. <<>> \in Seq(Packets) /\ 0 \in Nat
    OBVIOUS
  <2> QED BY <2>1 DEF Untold, ToldType
<1>2. told \in [Sessions -> ToldType]
  BY <1>1 DEF StreamInit
<1>3. \A s \in Sessions : ~Playing(s) /\ ~Served(s)
  BY DEF StreamInit, Playing, Served
<1> QED BY <1>2, <1>3 DEF StreamInit, ToldInv, CounterOK

\* A session that does not stream is told anew, between two writes.
LEMMA SilencedTold ==
  ASSUME IInv, MasterPlays', ToldInv, NEW s \in Sessions, NEW st, Idle, st # "STREAMING",
         told' = [told EXCEPT ![s] = Untold], audioState' = [audioState EXCEPT ![s] = st],
         UNCHANGED <<rtp, buffered, writing>>
  PROVE  ToldInv'
<1>1. Idle' /\ CounterOK'
  BY DEF Idle, ToldInv, CounterOK
<1>2. /\ told'[s] = Untold /\ audioState'[s] = st
      /\ \A t \in Sessions : t # s => told'[t] = told[t] /\ audioState'[t] = audioState[t]
  BY DEF ToldInv, IInv, ListOK
<1>3. Untold \in ToldType
  <2>1. <<>> \in Seq(Packets) /\ 0 \in Nat
    OBVIOUS
  <2> QED BY <2>1 DEF Untold, ToldType
<1>4. told' \in [Sessions -> ToldType]
  BY <1>3 DEF ToldInv
<1>5. ASSUME NEW t \in Sessions, Playing(t)' PROVE Heard(told'[t], rtp')
  <2>1. CASE t = s
    <3>1. rtp' \in RtpType /\ Never \in {Never} \cup Positions
      BY <1>5 DEF MasterPlays
    <3> QED BY <1>2, <2>1, <3>1, HeardNothing
  <2>2. CASE t # s
    <3>1. Playing(t)
      BY <1>2, <1>5, <2>2 DEF Playing
    <3> QED BY <1>2, <2>2, <3>1 DEF ToldInv
  <2> QED BY <2>1, <2>2
<1>6. ASSUME NEW t \in Sessions, Served(t)' PROVE told'[t].started \/ told'[t].sync = rtp'.pos
  <2>1. audioState'[t] = "STREAMING"
    BY <1>1, <1>6 DEF Served
  <2>2. t # s /\ Served(t)
    BY <1>2, <2>1 DEF Served
  <2> QED BY <1>2, <2>2 DEF ToldInv
<1> QED BY <1>1, <1>4, <1>5, <1>6 DEF ToldInv

\* Without a device that plays there is only the counter.
LEMMA NobodyTold ==
  ASSUME told' \in [Sessions -> ToldType], CounterOK', \A s \in Sessions : ~Playing(s)'
  PROVE  ToldInv'
  BY DEF ToldInv, Playing, Served

LEMMA SessionTold ==
  ASSUME IInv, IInv', ToldInv, NEW s \in Sessions,
         SessionMake(s) \/ SessionConnected(s) \/ SessionSilent(s) \/ SessionCleanup(s) \/ ControlSvcCb(s)
  PROVE  ToldInv'
<1>1. MasterPlays'
  BY PlayingHasMaster, PTL
<1>2. Untold \in ToldType
  <2>1. <<>> \in Seq(Packets) /\ 0 \in Nat
    OBVIOUS
  <2> QED BY <2>1 DEF Untold, ToldType
<1>3. CASE SessionMake(s)
  <2>1. /\ Idle /\ audioState' = [audioState EXCEPT ![s] = "OTHER"] /\ told' = [told EXCEPT ![s] = Untold]
        /\ writing' = writing
    BY <1>3 DEF SessionMake
  <2>2. CASE sessions # <<>>
    <3>1. UNCHANGED <<rtp, buffered>>
      BY <1>3, <2>2 DEF SessionMake
    <3> QED BY <1>1, <2>1, <3>1, SilencedTold
  <2>3. CASE sessions = <<>>
    <3>1. PICK seqnum \in StartSeqs, pos \in StartPositions : rtp' = RtpNew(seqnum, pos)
      BY <1>3, <2>3 DEF SessionMake
    <3>2. rtp'.sync_counter = 0 /\ Idle'
      BY <2>1, <3>1 DEF RtpNew, Idle
    <3>3. CounterOK'
      <4>1. 0 <= SyncEach + MaxWrite + PacketSamples - 1
        BY RingConstants
      <4> QED BY <3>2, <4>1 DEF CounterOK
    <3>4. \A t \in Sessions : ~Playing(t)'
      <4>1. ListedSessions = {}
        BY <2>3 DEF ListedSessions
      <4>2. \A t \in Sessions : audioState[t] = "NONE"
        BY <4>1 DEF IInv, ListOK
      <4> QED BY <2>1, <4>2 DEF Playing, IInv, ListOK
    <3>5. told' \in [Sessions -> ToldType]
      BY <1>2, <2>1 DEF ToldInv
    <3> QED BY <3>3, <3>4, <3>5, NobodyTold
  <2> QED BY <2>2, <2>3
<1>4. CASE SessionConnected(s)
  BY <1>1, <1>4, SilencedTold DEF SessionConnected
<1>5. CASE SessionSilent(s)
  BY <1>1, <1>5, SilencedTold DEF SessionSilent
<1>6. CASE SessionCleanup(s)
  <2>1. /\ Idle /\ audioState' = [audioState EXCEPT ![s] = "NONE"] /\ told' = [told EXCEPT ![s] = Untold]
        /\ writing' = writing
    BY <1>6 DEF SessionCleanup
  <2>2. CASE sessions' # <<>>
    <3>1. UNCHANGED <<rtp, buffered>>
      BY <1>6, <2>2 DEF SessionCleanup
    <3> QED BY <1>1, <2>1, <3>1, SilencedTold
  <2>3. CASE sessions' = <<>>
    <3>1. rtp' = NoMaster
      BY <1>6, <2>3 DEF SessionCleanup
    <3>2. CounterOK' /\ \A t \in Sessions : ~Playing(t)'
      BY <1>1, <3>1 DEF CounterOK, MasterPlays
    <3>3. told' \in [Sessions -> ToldType]
      BY <1>2, <2>1 DEF ToldInv
    <3> QED BY <3>2, <3>3, NobodyTold
  <2> QED BY <2>2, <2>3
<1>7. CASE ControlSvcCb(s)
  <2>1. Idle /\ PacketsResend(s)
    BY <1>7 DEF ControlSvcCb, SessionFindByAddress
  <2> QED BY <1>1, <2>1, SilencedTold DEF PacketsResend, PacketSend
<1> QED BY <1>3, <1>4, <1>5, <1>6, <1>7

\* packets_sync_send: what each device is told, and the counter of the write.
LEMMA BeginTold == ASSUME IInv, ToldInv, NEW n \in 1..MaxWrite, WriteBegin(n) PROVE ToldInv'
<1>1. /\ told' = [s \in Sessions |-> Synced(s)] /\ rtp' = SyncPolled(rtp) /\ buffered' = buffered + n
      /\ writing' = n /\ audioState' = audioState /\ Idle /\ sessions # <<>>
  BY DEF WriteBegin
<1>2. rtp \in RtpType /\ rtp # NoMaster /\ rtp' \in RtpType /\ rtp'.pos = rtp.pos
  BY <1>1, PollType DEF IInv, MasterOK
<1>3. rtp.pos \in Positions
  BY <1>2 DEF RtpType
<1>4. CounterOK'
  <2>1. rtp'.sync_counter \in Nat /\ rtp'.sync_counter <= SyncEach
    <3>1. CASE SyncIsTime(rtp)
      BY <1>1, <1>2, <3>1, RingConstants DEF SyncPolled, RtpType
    <3>2. CASE ~SyncIsTime(rtp)
      <4>1. rtp' = rtp /\ ~(rtp.sync_counter > SyncEach) /\ rtp.sync_counter \in Nat
        BY <1>1, <1>2, <3>2, RingConstants, RtpFields DEF SyncPolled, SyncIsTime
      <4> QED BY <4>1, RingConstants
    <3> QED BY <3>1, <3>2
  <2>2. buffered \in Nat /\ buffered < PacketSamples
    BY <1>1, RingConstants DEF IInv, WriteOK, InputHeld
  <2>3. ~Idle'
    BY <1>1 DEF Idle, Never
  <2>4. rtp'.sync_counter + buffered' <= SyncEach + MaxWrite + PacketSamples - 1
    <3> DEFINE c == rtp'.sync_counter
    <3>1. c \in Nat /\ c <= SyncEach
      BY <2>1
    <3> HIDE DEF c
    <3>2. c + (buffered + n) <= SyncEach + MaxWrite + PacketSamples - 1
      BY <2>2, <3>1, RingConstants
    <3> QED BY <1>1, <3>2 DEF c
  <2> QED BY <2>3, <2>4 DEF CounterOK
<1>5. ASSUME NEW s \in Sessions
      PROVE  /\ Synced(s) \in ToldType
             /\ Playing(s) => Heard(Synced(s), rtp')
             /\ Playing(s) => Synced(s).started \/ Synced(s).sync = rtp.pos
  <2>1. told[s] \in ToldType
    BY DEF ToldInv
  <2>2. CASE audioState[s] = "CONNECTED"
    <3>1. Synced(s) = [Untold EXCEPT !.sync = rtp.pos]
      BY <2>2 DEF Synced
    <3>2. [Untold EXCEPT !.sync = rtp.pos] \in ToldType /\ Heard([Untold EXCEPT !.sync = rtp.pos], rtp')
      BY <1>2, <1>3, HeardNothing
    <3>3. [Untold EXCEPT !.sync = rtp.pos].sync = rtp.pos
      BY DEF Untold
    <3> QED BY <3>1, <3>2, <3>3
  <2>3. CASE audioState[s] = "STREAMING"
    <3>1. Heard(told[s], rtp) /\ (told[s].started \/ told[s].sync = rtp.pos)
      BY <2>3 DEF ToldInv, Playing, Served
    <3>2. CASE SyncIsTime(rtp)
      <4>1. Synced(s) = [told[s] EXCEPT !.since = 0]
        BY <2>3, <3>2 DEF Synced
      <4>2. [told[s] EXCEPT !.since = 0] \in ToldType /\ Heard([told[s] EXCEPT !.since = 0], rtp')
        BY <1>1, <1>2, <2>1, <3>1, <3>2, HeardSynced
      <4>3. /\ [told[s] EXCEPT !.since = 0].started = told[s].started
            /\ [told[s] EXCEPT !.since = 0].sync = told[s].sync
        BY <2>1 DEF ToldType
      <4> QED BY <3>1, <4>1, <4>2, <4>3
    <3>3. CASE ~SyncIsTime(rtp)
      <4>1. Synced(s) = told[s]
        BY <2>3, <3>3 DEF Synced
      <4>2. rtp' = rtp
        BY <1>1, <3>3 DEF SyncPolled
      <4> QED BY <2>1, <3>1, <4>1, <4>2
    <3> QED BY <3>2, <3>3
  <2>4. CASE audioState[s] \notin {"CONNECTED", "STREAMING"}
    <3>1. Synced(s) = told[s] /\ ~Playing(s)
      BY <2>4 DEF Synced, Playing
    <3> QED BY <2>1, <3>1
  <2> QED BY <2>2, <2>3, <2>4
<1>6. told' \in [Sessions -> ToldType]
  BY <1>1, <1>5
<1>7. ASSUME NEW s \in Sessions, Playing(s)' PROVE Heard(told'[s], rtp')
  BY <1>1, <1>5, <1>7 DEF Playing
<1>8. ASSUME NEW s \in Sessions, Served(s)' PROVE told'[s].started \/ told'[s].sync = rtp'.pos
  <2>1. Playing(s)
    BY <1>1, <1>8 DEF Served, Playing
  <2> QED BY <1>1, <1>2, <1>5, <2>1
<1> QED BY <1>4, <1>6, <1>7, <1>8 DEF ToldInv

\* packets_send to one device: what it is told and what the ring keeps of the packet.
LEMMA OfferedTold ==
  ASSUME IInv, ToldInv, NEW s \in Sessions, Playing(s), NEW payload \in Payloads
  PROVE  LET pkt == PacketNext(rtp, PacketSamples, FALSE, payload)
             t == Offered(told[s], Marked(s, pkt))
         IN /\ t \in ToldType /\ t.started /\ Heard(t, PacketCommit(rtp, Kept(pkt)))
            /\ ~told[s].started => t.recent[1].rtptime = rtp.pos
<1> DEFINE b == (audioState[s] = "CONNECTED")
           pkt == PacketNext(rtp, PacketSamples, FALSE, payload)
           mine == PacketNext(rtp, PacketSamples, b, payload)
<1>1. rtp \in RtpType /\ told[s] \in ToldType /\ Heard(told[s], rtp) /\ b \in BOOLEAN
  BY PlayingHasMaster DEF MasterPlays, ToldInv
<1>2. Marked(s, pkt) = mine
  BY DEF Marked, PacketNext
<1>3. PICK c \in BOOLEAN : Kept(pkt) = [mine EXCEPT !.marker = c]
  <2>1. \E c \in BOOLEAN : Kept(pkt) = [pkt EXCEPT !.marker = c]
    <3>1. [pkt EXCEPT !.marker = FALSE] = pkt
      <4>1. pkt \in Packets /\ pkt.marker = FALSE
        BY <1>1, RingConstants DEF PacketNext, Packets, RtpType
      <4> HIDE DEF pkt
      <4> QED BY <4>1 DEF Packets
    <3>2. ASSUME NEW u PROVE \E c \in BOOLEAN : Marked(u, pkt) = [pkt EXCEPT !.marker = c]
      <4>1. (audioState[u] = "CONNECTED") \in BOOLEAN
        OBVIOUS
      <4> HIDE DEF pkt
      <4> QED BY <4>1 DEF Marked
    <3>3. Kept(pkt) = pkt \/ \E u : Kept(pkt) = Marked(u, pkt)
      <4> HIDE DEF pkt
      <4> QED BY DEF Kept
    <3> HIDE DEF pkt
    <3> QED BY <3>1, <3>2, <3>3
  <2>2. \A c : [pkt EXCEPT !.marker = c] = [mine EXCEPT !.marker = c]
    BY DEF PacketNext
  <2> HIDE DEF pkt, mine
  <2> QED BY <2>1, <2>2
<1>4. mine.rtptime = rtp.pos
  BY DEF PacketNext
<1> DEFINE u == Offered(told[s], mine)
<1>5. /\ u \in ToldType /\ u.started /\ Heard(u, PacketCommit(rtp, [mine EXCEPT !.marker = c]))
      /\ ~told[s].started => u.recent = <<mine>>
  BY <1>1, HeardOffered
<1> HIDE DEF u, mine, pkt
<1>6. ~told[s].started => u.recent[1].rtptime = rtp.pos
  BY <1>4, <1>5
<1> QED BY <1>2, <1>3, <1>5, <1>6 DEF u, pkt

LEMMA SendTold == ASSUME IInv, ToldInv, PacketsSend PROVE ToldInv'
<1>0. /\ rtp \in RtpType /\ rtp # NoMaster /\ ~Idle /\ ~Idle' /\ buffered' = buffered - PacketSamples
      /\ buffered \in Nat /\ rtp.sync_counter \in Nat
      /\ rtp.sync_counter + buffered <= SyncEach + MaxWrite + PacketSamples - 1
  <2>1. /\ rtp \in RtpType /\ rtp # NoMaster /\ ~Idle /\ ~Idle' /\ buffered' = buffered - PacketSamples
    BY Sending
  <2>2. buffered \in Nat /\ rtp.sync_counter \in Nat
    BY <2>1, RtpFields DEF IInv, WriteOK
  <2> QED BY <2>1, <2>2 DEF ToldInv, CounterOK
<1>1. CASE PacketEncoded
  <2>1. PICK payload \in Payloads, broken \in SUBSET {s \in Sessions : Playing(s)} :
          LET pkt == PacketNext(rtp, PacketSamples, FALSE, payload)
          IN  /\ told' = [s \in Sessions |-> IF Playing(s) /\ s \notin broken
                                             THEN Offered(told[s], Marked(s, pkt)) ELSE Untold]
              /\ audioState' = [s \in Sessions |-> PacketSend(s, s \in broken)]
              /\ rtp' = PacketCommit(rtp, Kept(pkt))
    BY <1>1 DEF PacketEncoded
  <2> DEFINE pkt == PacketNext(rtp, PacketSamples, FALSE, payload)
  <2>2. Untold \in ToldType
    <3>1. <<>> \in Seq(Packets) /\ 0 \in Nat
      OBVIOUS
    <3> QED BY <3>1 DEF Untold, ToldType
  <2>3. ASSUME NEW s \in Sessions, Playing(s)
        PROVE  /\ Offered(told[s], Marked(s, pkt)) \in ToldType
               /\ Offered(told[s], Marked(s, pkt)).started
               /\ Heard(Offered(told[s], Marked(s, pkt)), rtp')
    BY <2>1, <2>3, OfferedTold
  <2>4. CounterOK'
    <3>1. pkt \in Packets /\ pkt.samples = PacketSamples
      BY <1>0, RingConstants DEF PacketNext, Packets, RtpType
    <3> HIDE DEF pkt
    <3>2. Kept(pkt).samples = PacketSamples
      BY <3>1 DEF Kept, Marked, Packets
    <3>3. rtp'.sync_counter = rtp.sync_counter + PacketSamples
      BY <2>1, <3>2 DEF PacketCommit, pkt
    <3> DEFINE c == rtp.sync_counter
    <3>4. c \in Nat /\ c + buffered <= SyncEach + MaxWrite + PacketSamples - 1
      BY <1>0
    <3> HIDE DEF c
    <3>5. (c + PacketSamples) + (buffered - PacketSamples) <= SyncEach + MaxWrite + PacketSamples - 1
      BY <1>0, <3>4, RingConstants
    <3> QED BY <1>0, <3>3, <3>5 DEF CounterOK, c
  <2> HIDE DEF pkt
  <2>5. \A s \in Sessions :
          told'[s] = IF Playing(s) /\ s \notin broken THEN Offered(told[s], Marked(s, pkt)) ELSE Untold
    BY <2>1 DEF pkt
  <2>6. told' \in [Sessions -> ToldType]
    <3>1. told' = [s \in Sessions |-> IF Playing(s) /\ s \notin broken
                                      THEN Offered(told[s], Marked(s, pkt)) ELSE Untold]
      BY <2>1 DEF pkt
    <3> QED BY <2>2, <2>3, <3>1
  <2>7. ASSUME NEW s \in Sessions, Playing(s)' PROVE Heard(told'[s], rtp') /\ told'[s].started
    <3>1. s \notin broken /\ Playing(s)
      BY <2>1, <2>7 DEF Playing, PacketSend
    <3> QED BY <2>3, <2>5, <3>1
  <2>8. ASSUME NEW s \in Sessions, Served(s)' PROVE told'[s].started
    BY <2>7, <2>8 DEF Served, Playing
  <2> QED BY <2>4, <2>6, <2>7, <2>8 DEF ToldInv
<1>2. CASE PacketRefused
  <2>1. UNCHANGED <<told, audioState, rtp>>
    BY <1>2 DEF PacketRefused
  <2>2. CounterOK'
    <3> DEFINE c == rtp.sync_counter
    <3>1. c \in Nat /\ c + buffered <= SyncEach + MaxWrite + PacketSamples - 1
      BY <1>0
    <3> HIDE DEF c
    <3>2. c + (buffered - PacketSamples) <= SyncEach + MaxWrite + PacketSamples - 1
      BY <1>0, <3>1, RingConstants
    <3> QED BY <1>0, <2>1, <3>2 DEF CounterOK, c
  <2>3. \A s \in Sessions : (Playing(s)' => Playing(s)) /\ (Served(s)' => Served(s))
    BY <1>0, <2>1 DEF Playing, Served
  <2> QED BY <2>1, <2>2, <2>3 DEF ToldInv
<1> QED BY <1>1, <1>2 DEF PacketsSend

\* The devices that joined stream from now on.
LEMMA EndTold == ASSUME IInv, ToldInv, WriteEnd PROVE ToldInv'
<1>1. /\ audioState' = [s \in Sessions |-> IF audioState[s] = "CONNECTED" THEN "STREAMING" ELSE audioState[s]]
      /\ ~Idle /\ Idle' /\ UNCHANGED <<rtp, told, buffered>>
  BY DEF WriteEnd, Idle
<1>2. \A s \in Sessions : (Playing(s)' => Playing(s)) /\ (Served(s)' => Served(s))
  BY <1>1 DEF Playing, Served
<1>3. CounterOK'
  <2> SUFFICES ASSUME rtp # NoMaster PROVE rtp.sync_counter + 0 <= SyncEach + MaxWrite + PacketSamples - 1
    BY <1>1 DEF CounterOK
  <2> DEFINE c == rtp.sync_counter
  <2>1. c \in Nat /\ buffered \in Nat
    BY RtpFields DEF IInv, MasterOK, WriteOK
  <2>2. c + buffered <= SyncEach + MaxWrite + PacketSamples - 1
    BY <1>1 DEF ToldInv, CounterOK
  <2> HIDE DEF c
  <2>3. c + 0 <= SyncEach + MaxWrite + PacketSamples - 1
    BY <2>1, <2>2, RingConstants
  <2> QED BY <2>3 DEF c
<1> QED BY <1>1, <1>2, <1>3 DEF ToldInv

LEMMA ToldInductive == IInv /\ IInv' /\ ToldInv /\ [StreamNext]_streamVars => ToldInv'
<1> SUFFICES ASSUME IInv, IInv', ToldInv, [StreamNext]_streamVars PROVE ToldInv'
  OBVIOUS
<1>1. CASE UNCHANGED streamVars
  BY <1>1 DEF streamVars, ToldInv, CounterOK, Playing, Served, Idle
<1>2. ASSUME NEW s \in Sessions,
             SessionMake(s) \/ SessionConnected(s) \/ SessionSilent(s) \/ SessionCleanup(s) \/ ControlSvcCb(s)
      PROVE  ToldInv'
  BY <1>2, SessionTold
<1> QED BY <1>1, <1>2, BeginTold, SendTold, EndTold DEF StreamNext

LEMMA ToldInvariance == StreamSpec => []ToldInv
BY Invariance, ToldInitial, ToldInductive, PTL DEF StreamSpec

\* packets_send: the packets a device that plays was sent have consecutive numbers and
\* times up to the next packet's, for any number of devices that come, fail and go, any
\* packets the encoder refuses, and any wraps of number and position.
THEOREM NothingSkippedCorrect == StreamSpec => []NothingSkipped
<1>1. IInv /\ ToldInv => NothingSkipped
  <2> SUFFICES ASSUME IInv, ToldInv, NEW s \in Sessions, Playing(s), NEW i \in DOMAIN told[s].recent
               PROVE  LET n == Len(told[s].recent) + 1 - i
                          p == told[s].recent[i]
                      IN /\ (p.seqnum + n) % SeqNumMod = rtp.seqnum
                         /\ (p.rtptime + n * PacketSamples) % PosMod = rtp.pos
    <3>1. ASSUME ToldInv, NEW t \in Sessions, NEW i \in DOMAIN told[t].recent
          PROVE told[t].recent[i].seqnum + Len(told[t].recent) + 1 - i
                  = told[t].recent[i].seqnum + (Len(told[t].recent) + 1 - i)
      <4>1. told[t].recent \in Seq(Packets)
        BY <3>1 DEF ToldInv, ToldType
      <4>2. told[t].recent[i] \in Packets /\ Len(told[t].recent) \in Int /\ i \in Int
        BY <3>1, <4>1
      <4>3. told[t].recent[i].seqnum \in Int
        BY <4>2, RingConstants DEF Packets, SeqNums
      <4> DEFINE a == told[t].recent[i].seqnum
                 l == Len(told[t].recent)
      <4>4. a \in Int /\ l \in Int /\ i \in Int
        BY <4>2, <4>3
      <4> HIDE DEF a, l
      <4>5. a + l + 1 - i = a + (l + 1 - i)
        BY <4>4
      <4> QED BY <4>5 DEF a, l
    <3> QED BY <3>1 DEF NothingSkipped
  <2> DEFINE p == told[s].recent[i]
             n == Len(told[s].recent) + 1 - i
             q == rtp.seqnum
  <2>1. told[s].recent \in Seq(Packets) /\ Heard(told[s], rtp) /\ rtp \in RtpType
    BY PlayingHasMaster DEF MasterPlays, ToldInv, ToldType
  <2>2. SentBack(rtp, n, p) /\ n \in Int
    <3>1. i \in 1..Len(told[s].recent) /\ Len(told[s].recent) \in Nat
      BY <2>1
    <3> QED BY <2>1, <3>1 DEF Heard
  <2>3. q \in 0..(SeqNumMod - 1)
    BY <2>1, RtpFields
  <2> HIDE DEF p, n, q
  <2>4. p.seqnum = (q - n) % SeqNumMod
    BY <2>2 DEF SentBack, q
  <2>5. (((q - n) % SeqNumMod) + n) % SeqNumMod = ((q - n) + n) % SeqNumMod
    <3>1. q - n \in Int /\ n \in Int /\ SeqNumMod \in Nat \ {0}
      BY <2>2, <2>3, RingConstants
    <3> QED BY <3>1, ModStep
  <2>6. (q - n) + n = q /\ q % SeqNumMod = q
    BY <2>2, <2>3, ModIn, RingConstants
  <2>7. (p.seqnum + n) % SeqNumMod = q
    BY <2>4, <2>5, <2>6
  <2> QED BY <2>2, <2>7 DEF SentBack, p, n, q
<1> QED BY <1>1, Invariance, ToldInvariance, PTL

\* packets_resend: a device that asks for one of the last packets it was sent gets that
\* audio, number and time again, for any number of devices that share the ring.
THEOREM ResentCorrect == StreamSpec => []ResentAudio
<1>1. IInv /\ ToldInv => ResentAudio
  <2> SUFFICES ASSUME IInv, ToldInv, NEW s \in Sessions, Playing(s), NEW i \in DOMAIN told[s].recent
               PROVE  LET p == told[s].recent[i] IN PacketGet(rtp, p.seqnum) \in {p, [p EXCEPT !.marker = ~@]}
    BY DEF ResentAudio
  <2> DEFINE p == told[s].recent[i]
             k == Len(told[s].recent) + 1 - i
  <2>1. told[s].recent \in Seq(Packets) /\ Heard(told[s], rtp) /\ rtp \in RtpType
    BY PlayingHasMaster DEF MasterPlays, ToldInv, ToldType
  <2>2. SentBack(rtp, k, p) /\ k \in 1..rtp.pktbuf_len
    <3>1. i \in 1..Len(told[s].recent) /\ Len(told[s].recent) \in Nat
      BY <2>1
    <3>2. rtp.pktbuf_len \in Nat /\ Len(told[s].recent) <= rtp.pktbuf_len
      BY <2>1, RtpFields, RingConstants DEF Heard
    <3> QED BY <2>1, <3>1, <3>2 DEF Heard
  <2> HIDE DEF p, k
  <2>3. PacketGet(rtp, (rtp.seqnum - k) % SeqNumMod) = rtp.pktbuf[Back(rtp, k)]
    BY <2>1, <2>2, GetBack
  <2> QED BY <2>2, <2>3 DEF SentBack, p
<1> QED BY <1>1, Invariance, ToldInvariance, PTL

\* rtp_sync_is_time: a device that streams gets no more audio without a sync packet than
\* the interval and what one write sends, for any number of devices that share the counter.
THEOREM SyncedOftenCorrect == StreamSpec => []SyncedOften
<1>1. IInv /\ ToldInv => SyncedOften
  <2> SUFFICES ASSUME IInv, ToldInv, NEW s \in Sessions, audioState[s] = "STREAMING"
               PROVE  told[s].since <= SyncEach + MaxWrite + PacketSamples - 1
    BY DEF SyncedOften
  <2> DEFINE c == rtp.sync_counter
             x == told[s].since
             y == IF Idle THEN 0 ELSE buffered
  <2>1. Playing(s)
    BY DEF Playing
  <2>2. rtp \in RtpType /\ rtp # NoMaster /\ x \in Nat /\ x <= c
    BY <2>1, PlayingHasMaster DEF MasterPlays, ToldInv, ToldType, Heard
  <2>3. c \in Nat /\ y \in Nat
    BY <2>2, RtpFields DEF IInv, WriteOK
  <2>4. c + y <= SyncEach + MaxWrite + PacketSamples - 1
    BY <2>2 DEF ToldInv, CounterOK
  <2> HIDE DEF c, x, y
  <2>5. x <= SyncEach + MaxWrite + PacketSamples - 1
    BY <2>2, <2>3, <2>4, RingConstants
  <2> QED BY <2>5 DEF x
<1> QED BY <1>1, Invariance, ToldInvariance, PTL

\* The table above timestamp_set: the first packet a device is sent has the time of the
\* initial sync packet it was sent before, for any number of devices and any start.
LEMMA FirstAudio ==
  IInv /\ ToldInv /\ [StreamNext]_streamVars =>
    \A s \in Sessions :
      ~told[s].started /\ told'[s].started =>
        told[s].sync # Never /\ told'[s].recent[1].rtptime = told[s].sync
<1> SUFFICES ASSUME IInv, ToldInv, [StreamNext]_streamVars,
                    NEW s \in Sessions, ~told[s].started, told'[s].started
             PROVE  told[s].sync # Never /\ told'[s].recent[1].rtptime = told[s].sync
  OBVIOUS
<1>0. ~Untold.started
  BY DEF Untold
<1>1. told' # told
  OBVIOUS
<1>2. ASSUME NEW t \in Sessions, told' = [told EXCEPT ![t] = Untold] PROVE FALSE
  BY <1>0, <1>2 DEF ToldInv
<1>3. ASSUME NEW t \in Sessions,
             SessionMake(t) \/ SessionConnected(t) \/ SessionSilent(t) \/ SessionCleanup(t) \/ ControlSvcCb(t)
      PROVE  FALSE
  <2>1. ~PacketsResend(t)
    BY <1>2 DEF PacketsResend
  <2>2. ~ControlSvcCb(t)
    BY <2>1 DEF ControlSvcCb, SessionFindByAddress
  <2> QED BY <1>2, <1>3, <2>2 DEF SessionMake, SessionConnected, SessionSilent, SessionCleanup
<1>4. ASSUME NEW n \in 1..MaxWrite, WriteBegin(n) PROVE FALSE
  <2>1. told'[s] = Synced(s)
    BY <1>4 DEF WriteBegin
  <2>2. [Untold EXCEPT !.sync = rtp.pos].started = FALSE
    BY DEF Untold
  <2>3. [told[s] EXCEPT !.since = 0].started = told[s].started
    BY DEF ToldInv, ToldType
  <2> QED BY <2>1, <2>2, <2>3 DEF Synced
<1>5. CASE PacketsSend
  <2>1. CASE PacketEncoded
    <3>1. PICK payload \in Payloads, broken \in SUBSET {t \in Sessions : Playing(t)} :
            told' = [t \in Sessions |->
                       IF Playing(t) /\ t \notin broken
                       THEN Offered(told[t], Marked(t, PacketNext(rtp, PacketSamples, FALSE, payload)))
                       ELSE Untold]
      BY <2>1 DEF PacketEncoded
    <3>2. /\ Playing(s)
          /\ told'[s] = Offered(told[s], Marked(s, PacketNext(rtp, PacketSamples, FALSE, payload)))
      BY <1>0, <3>1
    <3>3. told'[s].recent[1].rtptime = rtp.pos
      BY <3>2, OfferedTold
    <3>4. rtp.pos \in Positions /\ told[s].sync = rtp.pos
      <4>1. Served(s)
        BY <1>5, <3>2 DEF PacketsSend, Playing, Served
      <4> QED BY <3>2, <4>1, PlayingHasMaster DEF ToldInv, MasterPlays, RtpType
    <3>5. rtp.pos # Never
      BY <3>4, RingConstants DEF Positions, Never
    <3> QED BY <3>3, <3>4, <3>5
  <2>2. ~PacketRefused
    BY <1>1 DEF PacketRefused
  <2> QED BY <1>5, <2>1, <2>2 DEF PacketsSend
<1>6. ~WriteEnd
  BY <1>1 DEF WriteEnd
<1>7. ~UNCHANGED streamVars
  BY <1>1 DEF streamVars
<1> QED BY <1>3, <1>4, <1>5, <1>6, <1>7 DEF StreamNext

THEOREM SyncedBeforeCorrect == StreamSpec => SyncedBeforeAudio
BY Invariance, ToldInvariance, FirstAudio, PTL DEF StreamSpec, SyncedBeforeAudio
=============================================================================
