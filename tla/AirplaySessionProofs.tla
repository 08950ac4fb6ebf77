------------------------ MODULE AirplaySessionProofs ------------------------
(***************************************************************************)
(* For every set of sessions, configuration and bound: the type invariant  *)
(* of AirplaySession, the exact count of requests in flight, that a        *)
(* promised callback is made or still owed, and what a session has when    *)
(* playback is set up on it and when audio is written to it.               *)
(***************************************************************************)
EXTENDS AirplaySession, FunctionTheorems, FiniteSetTheorems, SequenceTheorems, TLAPS

(***************************************************************************)
(* What the operators of AirplaySequence keep true of a session: its type, *)
(* the steps of its queued requests, the count of its requests in flight,  *)
(* the callback it owes, and the order of its setup. One lemma for each.   *)
(***************************************************************************)
\* Every queued request is at a step its sequence has.
Placed(rs) == \A i \in DOMAIN rs.requests :
                rs.requests[i].step \in DOMAIN seq_request[rs.requests[i].seq]

\* The bookkeeping RequestsCounted asks of each session.
Counted(rs) ==
  /\ rs.reqs_in_flight = Cardinality(InFlight(rs))
  /\ rs.closecb => rs.reqs_in_flight = 0
  /\ rs.con = "IDLE" => rs.requests = <<>>
  /\ rs.con \in {"BUSY", "CONNECTING"} => rs.requests # <<>>

Sound(rs) == rs \in SessionType /\ Placed(rs) /\ Counted(rs)

DeviceType == [listed : BOOLEAN, auth_key : BOOLEAN, requires_auth : BOOLEAN,
               v6_disabled : BOOLEAN, session : Sessions \cup {NoSession},
               addresses : AddressSets]

-----------------------------------------------------------------------------

\* Each sequence has between one and five steps.
LEMMA StepsBound ==
  ASSUME NEW q \in SeqTypes
  PROVE  /\ DOMAIN seq_request[q] = 1..Len(seq_request[q])
         /\ Len(seq_request[q]) \in 1..5
  BY DEF SeqTypes, seq_request

\* Changing fields other than the four the bookkeeping is about.
LEMMA Kept ==
  ASSUME NEW rs, Sound(rs), NEW r \in SessionType,
         r.requests = rs.requests, r.con = rs.con,
         r.reqs_in_flight = rs.reqs_in_flight, r.closecb = rs.closecb
  PROVE  Sound(r)
  BY DEF Sound, Placed, Counted, InFlight

LEMMA NewSessionSound ==
  ASSUME NEW f \in {"v4", "v6"}, NEW c \in Callbacks \cup {NoCallback}
  PROVE  Sound(NewSession(f, c)) /\ NewSession(f, c).con = "DISCONNECTED"
         /\ NewSession(f, c).callback_id = c
<1> DEFINE n == NewSession(f, c)
<1>1. n \in SessionType
  BY DEF NewSession, SessionType, States, Connected, Failed, ConStates
<1>2. InFlight(n) = {}
  BY DEF NewSession, InFlight
<1>3. Placed(n)
  BY DEF NewSession, Placed
<1>4. Counted(n)
  BY <1>2, FS_EmptySet DEF Counted, NewSession
<1> QED BY <1>1, <1>3, <1>4 DEF Sound, NewSession

LEMMA DeferredSound ==
  ASSUME NEW rs, Sound(rs)
  PROVE  /\ Sound(Deferred(rs))
         /\ Deferred(rs).con = rs.con
         /\ Deferred(rs).callback_id = rs.callback_id
         /\ Deferred(rs).requests = rs.requests
         /\ Deferred(rs).reqs_in_flight = rs.reqs_in_flight
<1>1. Deferred(rs) \in SessionType
  BY DEF Sound, Deferred, FailedState, SessionType, States, Connected, Failed
<1>2. Deferred(rs).requests = rs.requests /\ Deferred(rs).con = rs.con
      /\ Deferred(rs).reqs_in_flight = rs.reqs_in_flight
      /\ Deferred(rs).closecb = rs.closecb /\ Deferred(rs).callback_id = rs.callback_id
  BY DEF Sound, Deferred, SessionType
<1> QED BY <1>1, <1>2, Kept

-----------------------------------------------------------------------------
(* The queue *)

\* The four fields of the bookkeeping, changed together.
Booked(rs, q, c, b, n) ==
  [rs EXCEPT !.requests = q, !.con = c, !.closecb = b, !.reqs_in_flight = n]

LEMMA Bookkept ==
  ASSUME NEW rs \in SessionType, NEW q \in Seq(RequestType), NEW c \in ConStates,
         NEW n \in Nat, NEW b \in BOOLEAN
  PROVE  /\ Booked(rs, q, c, b, n) \in SessionType
         /\ Booked(rs, q, c, b, n).requests = q /\ Booked(rs, q, c, b, n).con = c
         /\ Booked(rs, q, c, b, n).closecb = b
         /\ Booked(rs, q, c, b, n).reqs_in_flight = n
         /\ Booked(rs, q, c, b, n).callback_id = rs.callback_id
<1> DEFINE r1 == [rs EXCEPT !.requests = q]
           r2 == [r1 EXCEPT !.con = c]
           r3 == [r2 EXCEPT !.closecb = b]
           r4 == [r3 EXCEPT !.reqs_in_flight = n]
<1>1. r1 \in SessionType /\ r1.requests = q /\ r1.callback_id = rs.callback_id
  BY DEF SessionType
<1> HIDE DEF r1
<1>2. /\ r2 \in SessionType /\ r2.requests = q /\ r2.con = c
      /\ r2.callback_id = rs.callback_id
  BY <1>1 DEF SessionType
<1> HIDE DEF r2
<1>3. /\ r3 \in SessionType /\ r3.requests = q /\ r3.con = c /\ r3.closecb = b
      /\ r3.callback_id = rs.callback_id
  BY <1>2 DEF SessionType
<1> HIDE DEF r3
<1>4. /\ r4 \in SessionType /\ r4.requests = q /\ r4.con = c /\ r4.closecb = b
      /\ r4.reqs_in_flight = n /\ r4.callback_id = rs.callback_id
  BY <1>3 DEF SessionType
<1> QED BY <1>4 DEF r1, r2, r3, Booked

\* A request appended to the queue: the session stays in type, the steps hold,
\* and the requests in flight are one more unless it was freed.
LEMMA Appended ==
  ASSUME NEW rs, Sound(rs), NEW req \in RequestType,
         req.step \in DOMAIN seq_request[req.seq],
         NEW r \in SessionType, r.requests = Append(rs.requests, req)
  PROVE  /\ Placed(r)
         /\ Cardinality(InFlight(r)) = rs.reqs_in_flight + (IF req.freed THEN 0 ELSE 1)
         /\ r.requests # <<>>
<1> DEFINE q == rs.requests
           n == Len(q)
<1>1. q \in Seq(RequestType) /\ n \in Nat /\ DOMAIN q = 1..n
  BY LenProperties DEF Sound, SessionType
<1>2. /\ r.requests \in Seq(RequestType) /\ r.requests # <<>>
      /\ Len(r.requests) = n + 1
      /\ \A i \in 1..n : r.requests[i] = q[i]
      /\ r.requests[n + 1] = req
  BY <1>1, AppendProperties
<1>3. DOMAIN r.requests = 1..(n + 1)
  BY <1>2, LenProperties
<1>4. Placed(r)
  <2>1. SUFFICES ASSUME NEW i \in 1..(n + 1)
                 PROVE  r.requests[i].step \in DOMAIN seq_request[r.requests[i].seq]
    BY <1>3 DEF Placed
  <2>2. CASE i = n + 1
    BY <2>2, <1>2
  <2>3. CASE i \in 1..n
    BY <2>3, <1>1, <1>2 DEF Sound, Placed
  <2> QED BY <2>2, <2>3, <1>1
<1>5. /\ InFlight(rs) = {i \in 1..n : ~q[i].freed}
      /\ InFlight(r) = {i \in 1..(n + 1) : ~r.requests[i].freed}
  BY <1>1, <1>3 DEF InFlight
<1>6. IsFiniteSet(InFlight(rs)) /\ n + 1 \notin InFlight(rs)
  <2>1. IsFiniteSet(1..n)
    BY <1>1, FS_Interval
  <2>2. InFlight(rs) \in SUBSET (1..n)
    BY <1>5
  <2>3. IsFiniteSet(InFlight(rs))
    BY <2>1, <2>2, FS_Subset
  <2> QED BY <2>2, <2>3, <1>1
<1>7. rs.reqs_in_flight = Cardinality(InFlight(rs)) /\ rs.reqs_in_flight \in Nat
  BY DEF Sound, Counted, SessionType
<1>8. CASE req.freed
  <2>1. InFlight(r) = InFlight(rs)
    BY <1>1, <1>2, <1>5, <1>8
  <2> QED BY <2>1, <1>2, <1>4, <1>7, <1>8
<1>9. CASE ~req.freed
  <2>1. InFlight(r) = InFlight(rs) \cup {n + 1}
    BY <1>1, <1>2, <1>5, <1>9
  <2>2. Cardinality(InFlight(r)) = Cardinality(InFlight(rs)) + 1
    BY <2>1, <1>6, FS_AddElement
  <2> QED BY <2>2, <1>2, <1>4, <1>7, <1>9
<1> QED BY <1>8, <1>9

LEMMA QueuedSound ==
  ASSUME NEW rs, Sound(rs), NEW req \in RequestType, ~req.freed,
         req.step \in DOMAIN seq_request[req.seq]
  PROVE  Sound(Queued(rs, req)) /\ Queued(rs, req).callback_id = rs.callback_id
<1> DEFINE r == Queued(rs, req)
<1>1. /\ r.requests = Append(rs.requests, req)
      /\ r.con = Dialled(rs.con) /\ r.closecb = FALSE
      /\ r.reqs_in_flight = rs.reqs_in_flight + 1
      /\ r.callback_id = rs.callback_id
  BY DEF Queued, Sound, SessionType
<1>2. rs.con \in ConStates /\ rs.requests \in Seq(RequestType) /\ rs.reqs_in_flight \in Nat
  BY DEF Sound, SessionType
<1>3. Dialled(rs.con) \in ConStates /\ Dialled(rs.con) # "IDLE"
  BY <1>2 DEF Dialled, ConStates
<1>4. Append(rs.requests, req) \in Seq(RequestType)
  BY <1>2, AppendProperties
<1>5. r \in SessionType
  <2> DEFINE q == Append(rs.requests, req)
             c == Dialled(rs.con)
             n == rs.reqs_in_flight + 1
  <2>1. r = Booked(rs, q, c, FALSE, n)
    BY DEF Queued, Booked
  <2>2. q \in Seq(RequestType) /\ c \in ConStates /\ n \in Nat /\ rs \in SessionType
    BY <1>2, <1>3, <1>4 DEF Sound
  <2> HIDE DEF q, c, n, r
  <2> QED BY <2>1, <2>2, Bookkept
<1>6. Placed(r) /\ Cardinality(InFlight(r)) = rs.reqs_in_flight + 1 /\ r.requests # <<>>
  BY <1>1, <1>5, Appended
<1> HIDE DEF r
<1>7. Counted(r)
  BY <1>1, <1>3, <1>6 DEF Counted
<1> QED BY <1>1, <1>5, <1>6, <1>7 DEF Sound, r

\* A request that is queued and freed: the connection is still not connected.
LEMMA RefusedSound ==
  ASSUME NEW rs, Sound(rs), rs.con = "DISCONNECTED", NEW req \in RequestType, req.freed,
         req.step \in DOMAIN seq_request[req.seq]
  PROVE  LET r == [rs EXCEPT !.requests = Append(@, req)]
         IN  Sound(r) /\ r.callback_id = rs.callback_id
<1> DEFINE r == [rs EXCEPT !.requests = Append(@, req)]
<1>1. rs.requests \in Seq(RequestType) /\ rs.reqs_in_flight \in Nat
  BY DEF Sound, SessionType
<1>2. Append(rs.requests, req) \in Seq(RequestType)
  BY <1>1, AppendProperties
<1>3. /\ r \in SessionType /\ r.requests = Append(rs.requests, req)
      /\ r.con = rs.con /\ r.closecb = rs.closecb /\ r.reqs_in_flight = rs.reqs_in_flight
      /\ r.callback_id = rs.callback_id
  BY <1>2 DEF Sound, SessionType
<1> HIDE DEF r
<1>4. Placed(r) /\ Cardinality(InFlight(r)) = rs.reqs_in_flight + 0 /\ r.requests # <<>>
  BY <1>3, Appended
<1>5. Counted(r)
  BY <1>1, <1>3, <1>4 DEF Counted, Sound
<1> QED BY <1>3, <1>4, <1>5 DEF Sound, r

\* request_headers_add and payload_make leave queue, connection and callback alone.
LEMMA PayloadSound ==
  ASSUME NEW rs, Sound(rs), NEW step
  PROVE  LET r == PayloadMade([rs EXCEPT !.req_has_auth = @ \/ rs.realm], step)
         IN  Sound(r) /\ r.con = rs.con /\ r.callback_id = rs.callback_id
<1> DEFINE h == [rs EXCEPT !.req_has_auth = @ \/ rs.realm]
           r == PayloadMade(h, step)
<1>1. /\ h \in SessionType /\ h.requests = rs.requests /\ h.con = rs.con
      /\ h.reqs_in_flight = rs.reqs_in_flight /\ h.closecb = rs.closecb
      /\ h.callback_id = rs.callback_id
  BY DEF Sound, SessionType
<1> HIDE DEF h
<1>2. /\ r \in SessionType /\ r.requests = h.requests /\ r.con = h.con
      /\ r.reqs_in_flight = h.reqs_in_flight /\ r.closecb = h.closecb
      /\ r.callback_id = h.callback_id
  <2> DEFINE a == [h EXCEPT !.state = "AUTH"]
             t == [h EXCEPT !.state = "TEARDOWN"]
             b(p) == [a EXCEPT !.pair_type = p]
  <2>1. r \in {h, t, b("NORMAL"), b(h.pair_type)}
    BY DEF PayloadMade
  <2>2. /\ a \in SessionType /\ a.requests = h.requests /\ a.con = h.con
        /\ a.reqs_in_flight = h.reqs_in_flight /\ a.closecb = h.closecb
        /\ a.callback_id = h.callback_id
        /\ t \in SessionType /\ t.requests = h.requests /\ t.con = h.con
        /\ t.reqs_in_flight = h.reqs_in_flight /\ t.closecb = h.closecb
        /\ t.callback_id = h.callback_id
        /\ h.pair_type \in {"FRUIT", "NORMAL", "TRANSIENT"}
    BY <1>1 DEF SessionType, States, Connected, Failed
  <2> HIDE DEF a, t, r
  <2>3. ASSUME NEW p \in {"FRUIT", "NORMAL", "TRANSIENT"}
        PROVE  /\ b(p) \in SessionType /\ b(p).requests = h.requests /\ b(p).con = h.con
               /\ b(p).reqs_in_flight = h.reqs_in_flight /\ b(p).closecb = h.closecb
               /\ b(p).callback_id = h.callback_id
    BY <2>2 DEF SessionType
  <2> HIDE DEF b
  <2> QED BY <1>1, <2>1, <2>2, <2>3
<1> HIDE DEF r
<1>3. Sound(r)
  BY <1>1, <1>2, Kept
<1> QED BY <1>1, <1>2, <1>3 DEF r, h

\* sequence_continue, however it goes.
LEMMA SequenceContinueSound ==
  ASSUME NEW rs, Sound(rs), NEW seq \in SeqTypes, NEW i \in DOMAIN seq_request[seq],
         NEW out \in Outcomes, out = "refused" => rs.con = "DISCONNECTED"
  PROVE  /\ Sound(SequenceContinue(rs, seq, i, out))
         /\ SequenceContinue(rs, seq, i, out).callback_id = rs.callback_id
<1> DEFINE payload == PayloadMade([rs EXCEPT !.req_has_auth = @ \/ rs.realm],
                                  seq_request[seq][i])
           req == [seq |-> seq, step |-> i, freed |-> out = "refused"]
           refused == [payload EXCEPT !.requests = Append(@, req)]
           r == SequenceContinue(rs, seq, i, out)
<1>1. /\ Sound(payload) /\ payload.con = rs.con
      /\ payload.callback_id = rs.callback_id
  BY PayloadSound
<1>2. /\ req \in RequestType /\ req.step \in DOMAIN seq_request[req.seq]
      /\ req.freed = (out = "refused")
  BY StepsBound DEF RequestType
<1>3. /\ out = "sent" => r = Queued(payload, req)
      /\ out = "not_built" => r = Deferred(rs)
      /\ out = "refused" => r = Deferred(refused)
      /\ out = "payload_failed" => r = Deferred(payload)
  BY DEF SequenceContinue
<1> SUFFICES Sound(r) /\ r.callback_id = rs.callback_id
  OBVIOUS
<1> HIDE DEF payload, req, r
<1>4. CASE out = "sent"
  BY <1>1, <1>2, <1>3, <1>4, QueuedSound
<1>5. CASE out = "not_built"
  BY <1>3, <1>5, DeferredSound
<1>6. CASE out = "refused"
  <2>1. Sound(refused) /\ refused.callback_id = rs.callback_id
    BY <1>1, <1>2, <1>6, RefusedSound
  <2> HIDE DEF refused
  <2> QED BY <1>3, <1>6, <2>1, DeferredSound
<1>7. CASE out = "payload_failed"
  BY <1>1, <1>3, <1>7, DeferredSound
<1> QED BY <1>4, <1>5, <1>6, <1>7 DEF Outcomes

LEMMA SequenceStartSound ==
  ASSUME NEW rs, Sound(rs), NEW seq \in SeqTypes,
         NEW out \in Outcomes, out = "refused" => rs.con = "DISCONNECTED"
  PROVE  /\ Sound(SequenceStart(rs, seq, out))
         /\ SequenceStart(rs, seq, out).callback_id = rs.callback_id
<1>1. 1 \in DOMAIN seq_request[seq]
  BY StepsBound
<1> QED BY <1>1, SequenceContinueSound DEF SequenceStart

\* airplay_metadata_send_generic: up to three sequences, each built or not.
LEMMA MetadataSentSound ==
  ASSUME NEW rs, Sound(rs), NEW out \in MetadataOutcomes
  PROVE  Sound(MetadataSent(rs, out)) /\ MetadataSent(rs, out).callback_id = rs.callback_id
<1> DEFINE start(r, seq) == IF seq \in Wanted THEN SequenceStart(r, seq, out[seq]) ELSE r
<1>1. ASSUME NEW r, Sound(r), NEW seq \in MetadataSeqs
      PROVE  Sound(start(r, seq)) /\ start(r, seq).callback_id = r.callback_id
  <2>1. CASE seq \in Wanted
    <3>1. out[seq] \in Outcomes /\ out[seq] # "refused" /\ seq \in SeqTypes
      BY <2>1 DEF MetadataOutcomes, Outcomes, MetadataSeqs, SeqTypes, seq_request
    <3> QED BY <2>1, <3>1, <1>1, SequenceStartSound
  <2> QED BY <2>1, <1>1
<1> DEFINE r1 == start(rs, "SEND_PROGRESS")
           r2 == start(r1, "SEND_TEXT")
           r3 == start(r2, "SEND_ARTWORK")
<1>2. r3 = MetadataSent(rs, out)
  BY DEF MetadataSent
<1> HIDE DEF start
<1>3. Sound(r1) /\ r1.callback_id = rs.callback_id
  BY <1>1 DEF MetadataSeqs
<1>4. Sound(r2) /\ r2.callback_id = rs.callback_id
  BY <1>1, <1>3 DEF MetadataSeqs
<1>5. Sound(r3) /\ r3.callback_id = rs.callback_id
  BY <1>1, <1>4 DEF MetadataSeqs
<1> QED BY <1>2, <1>5

\* sequence_continue_cb's first lines: the head of the queue was in flight, so
\* there is one request less, and a close callback only when none is left.
LEMMA DequeuedSound ==
  ASSUME NEW rs, Sound(rs), rs.requests # <<>>, ~Head(rs.requests).freed,
         NEW con \in ConStates,
         con = "IDLE" => Tail(rs.requests) = <<>>,
         con \in {"BUSY", "CONNECTING"} => Tail(rs.requests) # <<>>
  PROVE  Sound(Dequeued(rs, con)) /\ Dequeued(rs, con).callback_id = rs.callback_id
<1> DEFINE q == rs.requests
           n == Len(q)
           t == Tail(q)
           r == Dequeued(rs, con)
<1>1. q \in Seq(RequestType) /\ n \in Nat \ {0} /\ DOMAIN q = 1..n
  BY LenProperties, EmptySeq DEF Sound, SessionType
<1>2. /\ t \in Seq(RequestType) /\ Len(t) = n - 1 /\ DOMAIN t = 1..(n - 1)
      /\ \A i \in 1..(n - 1) : t[i] = q[i + 1]
  BY <1>1, HeadTailProperties, LenProperties
<1>3. Head(q) = q[1]
  BY <1>1
<1>4. InFlight(rs) = {i \in 1..n : ~q[i].freed}
  BY <1>1 DEF InFlight
<1>5. IsFiniteSet(InFlight(rs)) /\ 1 \in InFlight(rs)
  <2>1. IsFiniteSet(1..n)
    BY <1>1, FS_Interval
  <2>2. InFlight(rs) \in SUBSET (1..n) /\ 1 \in InFlight(rs)
    BY <1>1, <1>3, <1>4
  <2> QED BY <2>1, <2>2, FS_Subset
<1>6. Cardinality({i \in 1..(n - 1) : ~t[i].freed}) = Cardinality(InFlight(rs)) - 1
  <2> DEFINE a == InFlight(rs) \ {1}
             b == {i \in 1..(n - 1) : ~t[i].freed}
             f == [i \in a |-> i - 1]
  <2>1. IsFiniteSet(a) /\ Cardinality(a) = Cardinality(InFlight(rs)) - 1
    BY <1>5, FS_RemoveElement
  <2>2. a = {i \in 2..n : ~t[i - 1].freed}
    <3>1. \A i \in 2..n : i - 1 \in 1..(n - 1) /\ t[i - 1] = q[i]
      BY <1>1, <1>2
    <3> QED BY <3>1, <1>1, <1>4
  <2> HIDE DEF a
  <2>3. f \in [a -> b]
    BY <1>1, <2>2
  <2>4. f \in Bijection(a, b)
    <3>1. \A x, y \in a : f[x] = f[y] => x = y
      BY <1>1, <2>2
    <3>2. \A y \in b : y + 1 \in a /\ f[y + 1] = y
      BY <1>1, <2>2
    <3> QED BY <2>3, <3>1, <3>2, Fun_IsBij
  <2> QED BY <2>1, <2>4, FS_Bijection DEF ExistsBijection
<1>7. rs.reqs_in_flight = Cardinality(InFlight(rs)) /\ rs.reqs_in_flight \in Nat \ {0}
  BY <1>5, FS_CardinalityType, FS_EmptySet DEF Sound, Counted
<1>8. /\ r \in SessionType /\ r.requests = t /\ r.con = con
      /\ r.reqs_in_flight = rs.reqs_in_flight - 1
      /\ r.closecb = ((rs.reqs_in_flight = 1) \/ rs.closecb)
      /\ r.callback_id = rs.callback_id
  <2> DEFINE m == rs.reqs_in_flight - 1
             c == (rs.reqs_in_flight = 1) \/ rs.closecb
  <2>1. r = Booked(rs, t, con, c, m)
    BY DEF Dequeued, Booked
  <2>2. m \in Nat /\ c \in BOOLEAN /\ rs \in SessionType
    BY <1>7 DEF Sound, SessionType
  <2>3. /\ r \in SessionType /\ r.requests = t /\ r.con = con /\ r.closecb = c
        /\ r.reqs_in_flight = m /\ r.callback_id = rs.callback_id
    <3>1. t \in Seq(RequestType) /\ m \in Nat /\ rs \in SessionType /\ con \in ConStates
      BY <1>2, <2>2
    <3> HIDE DEF m, c, r, t
    <3>2. ASSUME NEW b \in BOOLEAN
          PROVE  LET k == Booked(rs, t, con, b, m)
                 IN  /\ k \in SessionType /\ k.requests = t /\ k.con = con /\ k.closecb = b
                     /\ k.reqs_in_flight = m /\ k.callback_id = rs.callback_id
      BY <3>1, Bookkept
    <3> QED BY <2>1, <2>2, <3>2, Zenon
  <2> QED BY <2>3
<1> SUFFICES Sound(r) /\ r.callback_id = rs.callback_id
  OBVIOUS
<1> HIDE DEF r, t
<1>9. Placed(r)
  <2>1. SUFFICES ASSUME NEW i \in 1..(n - 1)
                 PROVE  t[i].step \in DOMAIN seq_request[t[i].seq]
    BY <1>2, <1>8 DEF Placed
  <2>2. i + 1 \in 1..n /\ t[i] = q[i + 1]
    BY <1>1, <1>2
  <2> QED BY <2>2, <1>1 DEF Sound, Placed
<1>10. Counted(r)
  <2>1. r.reqs_in_flight = Cardinality(InFlight(r))
    BY <1>2, <1>6, <1>7, <1>8 DEF InFlight
  <2>2. r.closecb => r.reqs_in_flight = 0
    <3>1. ~rs.closecb
      BY <1>7 DEF Sound, Counted
    <3>2. rs.reqs_in_flight # 1 => ~r.closecb
      BY <1>8, <3>1
    <3>3. rs.reqs_in_flight = 1 => r.reqs_in_flight = 0
      BY <1>8
    <3> QED BY <3>2, <3>3
  <2> QED BY <2>1, <2>2, <1>8 DEF Counted, t
<1> QED BY <1>8, <1>9, <1>10 DEF Sound

-----------------------------------------------------------------------------
(* The response handlers *)

\* What a handler leaves alone: the queue, the connection and the callback.
Frame(r, rs) ==
  /\ r \in SessionType
  /\ r.requests = rs.requests /\ r.con = rs.con /\ r.closecb = rs.closecb
  /\ r.reqs_in_flight = rs.reqs_in_flight /\ r.callback_id = rs.callback_id

\* A handler's device: in type, at its addresses, with its session.
Same(d, dev) == d \in DeviceType /\ d.addresses = dev.addresses /\ d.session = dev.session

Proper(h, rs, dev) == Frame(h.session, rs) /\ Same(h.device, dev)

LEMMA Fields ==
  ASSUME NEW rs, NEW r, Frame(r, rs)
  PROVE  /\ \A x \in States : Frame([r EXCEPT !.state = x], rs)
         /\ \A x \in {"FRUIT", "NORMAL", "TRANSIENT"} : Frame([r EXCEPT !.pair_type = x], rs)
         /\ \A x \in BOOLEAN : /\ Frame([r EXCEPT !.server = x], rs)
                             /\ Frame([r EXCEPT !.cipher = x], rs)
                             /\ Frame([r EXCEPT !.realm = x], rs)
         /\ Frame([r EXCEPT !.next_seq = "START_PLAYBACK"], rs)
<1>1. \A x \in States : Frame([r EXCEPT !.state = x], rs)
  BY DEF Frame, SessionType
<1>2. \A x \in {"FRUIT", "NORMAL", "TRANSIENT"} : Frame([r EXCEPT !.pair_type = x], rs)
  BY DEF Frame, SessionType
<1>3. \A x \in BOOLEAN : Frame([r EXCEPT !.server = x], rs)
  BY DEF Frame, SessionType
<1>4. \A x \in BOOLEAN : Frame([r EXCEPT !.cipher = x], rs)
  BY DEF Frame, SessionType
<1>5. \A x \in BOOLEAN : Frame([r EXCEPT !.realm = x], rs)
  BY DEF Frame, SessionType
<1>6. Frame([r EXCEPT !.next_seq = "START_PLAYBACK"], rs)
  BY DEF Frame, SessionType
<1> QED BY <1>1, <1>2, <1>3, <1>4, <1>5, <1>6

LEMMA DeviceFields ==
  ASSUME NEW dev \in DeviceType, NEW d, Same(d, dev)
  PROVE  /\ Same([d EXCEPT !.requires_auth = TRUE], dev)
         /\ \A x \in BOOLEAN : Same([d EXCEPT !.auth_key = x], dev)
  BY DEF Same, DeviceType

LEMMA HandledProper ==
  ASSUME NEW rs, NEW r, NEW dev, NEW d, NEW n, Frame(r, rs), Same(d, dev)
  PROVE  Proper(Handled(r, d, n), rs, dev)
  BY DEF Handled, Proper

LEMMA Unhandled ==
  ASSUME NEW rs \in SessionType, NEW dev \in DeviceType
  PROVE  Frame(rs, rs) /\ Same(dev, dev)
  BY DEF Frame, Same

LEMMA InfoProper ==
  ASSUME NEW rs \in SessionType, NEW dev \in DeviceType, NEW ans
  PROVE  Proper(InfoHandled(rs, dev, ans), rs, dev)
<1> DEFINE p(x) == [rs EXCEPT !.pair_type = x]
           q(x, y) == [rs EXCEPT !.pair_type = x, !.state = y]
           auth == [dev EXCEPT !.requires_auth = TRUE]
           keyless == [dev EXCEPT !.requires_auth = TRUE, !.auth_key = FALSE]
<1>1. Frame(rs, rs) /\ Same(dev, dev) /\ rs.state \in States
  BY Unhandled DEF SessionType
<1>2. ASSUME NEW x \in {"NORMAL", "TRANSIENT"}, NEW y \in States
      PROVE  Frame(q(x, y), rs)
  <2>1. Frame(p(x), rs)
    BY <1>1, Fields
  <2>2. q(x, y) = [p(x) EXCEPT !.state = y]
    OBVIOUS
  <2> HIDE DEF p, q
  <2> QED BY <2>1, <2>2, Fields
<1>3. Same(auth, dev) /\ Same(keyless, dev)
  <2>1. Same(auth, dev) /\ keyless = [auth EXCEPT !.auth_key = FALSE]
    BY <1>1, DeviceFields
  <2> HIDE DEF auth, keyless
  <2> QED BY <2>1, DeviceFields
<1>4. InfoHandled(rs, dev, ans) \in
        {Handled(rs, dev, "ABORT"), Handled(q("NORMAL", "AUTH"), auth, "PIN_START"),
         Handled(q("NORMAL", "AUTH"), keyless, "PIN_START"),
         Handled(q("NORMAL", rs.state), dev, "ABORT"),
         Handled(q("NORMAL", "AUTH"), dev, "PAIR_SETUP"),
         Handled(q("NORMAL", "INFO"), dev, "PAIR_VERIFY"),
         Handled(q("TRANSIENT", "INFO"), dev, "PAIR_TRANSIENT")}
  BY DEF InfoHandled
<1> HIDE DEF p, q, auth, keyless
<1>5. "AUTH" \in States /\ "INFO" \in States
  BY DEF States, Failed
<1> QED BY <1>1, <1>2, <1>3, <1>4, <1>5, HandledProper

LEMMA InfoStartProper ==
  ASSUME NEW rs \in SessionType, NEW dev \in DeviceType, NEW ans
  PROVE  Proper(InfoStartHandled(rs, dev, ans), rs, dev)
  BY InfoProper, Fields DEF InfoStartHandled, InfoHandled, Handled, Proper

LEMMA InfoProbeProper ==
  ASSUME NEW rs \in SessionType, NEW dev \in DeviceType, NEW ans
  PROVE  Proper(InfoProbeHandled(rs, dev, ans), rs, dev)
  BY InfoProper DEF InfoProbeHandled, Proper

LEMMA SetupProper ==
  ASSUME NEW rs \in SessionType, NEW dev \in DeviceType, NEW ans
  PROVE  /\ Proper(SetupSessionHandled(rs, dev, ans), rs, dev)
         /\ Proper(SetupStreamHandled(rs, dev, ans), rs, dev)
<1> DEFINE realm == AuthHeaderParse(rs, ans)
           server == [rs EXCEPT !.server = TRUE]
           setup == [rs EXCEPT !.server = TRUE, !.state = "SETUP"]
<1>1. Frame(rs, rs) /\ Same(dev, dev)
  BY Unhandled
<1>2. Frame(realm, rs) /\ Frame(server, rs)
  <2>1. (ans.body = "good") \in BOOLEAN /\ realm = [rs EXCEPT !.realm = ans.body = "good"]
    BY DEF AuthHeaderParse
  <2>2. \A b \in BOOLEAN : Frame([rs EXCEPT !.realm = b], rs)
    BY <1>1, Fields
  <2>3. Frame(realm, rs)
    BY <2>1, <2>2
  <2> QED BY <2>3, <1>1, Fields
<1>3. Frame(setup, rs)
  <2>1. setup = [server EXCEPT !.state = "SETUP"] /\ "SETUP" \in States
    BY DEF States
  <2> HIDE DEF server, setup
  <2> QED BY <1>2, <2>1, Fields
<1>4. /\ SetupSessionHandled(rs, dev, ans) \in
           {Handled(realm, dev, "START_PLAYBACK"), Handled(realm, dev, "ABORT"),
            Handled(rs, dev, "CONTINUE"), Handled(rs, dev, "ABORT")}
      /\ SetupStreamHandled(rs, dev, ans) \in
           {Handled(setup, dev, "CONTINUE"), Handled(rs, dev, "ABORT")}
  BY DEF SetupSessionHandled, SetupStreamHandled
<1> HIDE DEF realm, server, setup
<1> QED BY <1>1, <1>2, <1>3, <1>4, HandledProper

\* session_cipher_setup keeps the frame.
LEMMA CipheredFrame ==
  ASSUME NEW rs, NEW r, Frame(r, rs)
  PROVE  Frame(Ciphered(r), rs)
<1> DEFINE c == [r EXCEPT !.cipher = TRUE]
<1>1. Frame(c, rs)
  BY Fields
<1>2. Ciphered(r) = [c EXCEPT !.state = "ENCRYPTED"] /\ "ENCRYPTED" \in States
  BY DEF Ciphered, States
<1> HIDE DEF c
<1>3. \A x \in States : Frame([c EXCEPT !.state = x], rs)
  BY <1>1, Fields
<1> QED BY <1>2, <1>3

LEMMA PairSetupProper ==
  ASSUME NEW rs \in SessionType, NEW dev \in DeviceType, NEW ans
  PROVE  /\ Proper(PairSetup1Handled(rs, dev, ans), rs, dev)
         /\ Proper(PairSetup2Handled(rs, dev, ans), rs, dev)
         /\ Proper(PairSetup3Handled(rs, dev, ans), rs, dev)
<1> DEFINE normal == [rs EXCEPT !.pair_type = "NORMAL"]
           failed == [rs EXCEPT !.state = "FAILED"]
           stopped == [rs EXCEPT !.state = "STOPPED"]
           auth == [dev EXCEPT !.requires_auth = TRUE]
           keyed == [dev EXCEPT !.auth_key = TRUE]
<1>1. Frame(rs, rs) /\ Same(dev, dev)
  BY Unhandled
<1>2. "FAILED" \in States /\ "STOPPED" \in States
  BY DEF States, Failed
<1>3. /\ Frame(normal, rs) /\ Frame(failed, rs) /\ Frame(stopped, rs)
      /\ Frame(Ciphered(rs), rs)
  BY <1>1, <1>2, Fields, CipheredFrame
<1>4. Same(auth, dev) /\ Same(keyed, dev)
  BY <1>1, DeviceFields
<1>5. PairSetup1Handled(rs, dev, ans) \in
        {Handled(normal, auth, "PIN_START"), Handled(rs, dev, "ABORT"),
         Handled(rs, dev, "CONTINUE")}
  BY DEF PairSetup1Handled
<1>6. PairSetup2Handled(rs, dev, ans) \in
        {Handled(rs, dev, "ABORT"), Handled(rs, dev, "CONTINUE"),
         Handled(Ciphered(rs), dev, "CONTINUE"), Handled(failed, dev, "ABORT")}
  BY DEF PairSetup2Handled
<1>7. PairSetup3Handled(rs, dev, ans) \in
        {Handled(stopped, keyed, "CONTINUE"), Handled(rs, dev, "ABORT")}
  BY DEF PairSetup3Handled
<1> HIDE DEF normal, failed, stopped, auth, keyed
<1>8. Proper(PairSetup1Handled(rs, dev, ans), rs, dev)
  BY <1>1, <1>3, <1>4, <1>5, HandledProper
<1>9. Proper(PairSetup2Handled(rs, dev, ans), rs, dev)
  BY <1>1, <1>3, <1>4, <1>6, HandledProper
<1>10. Proper(PairSetup3Handled(rs, dev, ans), rs, dev)
  BY <1>1, <1>3, <1>4, <1>7, HandledProper
<1> QED BY <1>8, <1>9, <1>10

LEMMA PairVerifyProper ==
  ASSUME NEW rs \in SessionType, NEW dev \in DeviceType, NEW ans
  PROVE  /\ Proper(PairVerify1Handled(rs, dev, ans), rs, dev)
         /\ Proper(PairVerify2Handled(rs, dev, ans), rs, dev)
<1> DEFINE auth == [rs EXCEPT !.state = "AUTH"]
<1>1. Frame(rs, rs) /\ Same(dev, dev)
  BY Unhandled
<1>2. Frame(auth, rs) /\ Frame(Ciphered(rs), rs)
  <2>1. "AUTH" \in States
    BY DEF States, Failed
  <2> QED BY <1>1, <2>1, Fields, CipheredFrame
<1>3. Same(KeyCleared(dev), dev)
  BY <1>1, DeviceFields DEF KeyCleared, DeviceType
<1>4. /\ PairVerify1Handled(rs, dev, ans) \in
           {Handled(rs, dev, "CONTINUE"), Handled(auth, KeyCleared(dev), "ABORT")}
      /\ PairVerify2Handled(rs, dev, ans) \in
           {Handled(Ciphered(rs), dev, "CONTINUE"), Handled(auth, KeyCleared(dev), "ABORT"),
            Handled(rs, dev, "ABORT")}
  BY DEF PairVerify1Handled, PairVerify2Handled
<1> HIDE DEF auth
<1> QED BY <1>1, <1>2, <1>3, <1>4, HandledProper

\* evrtsp_connection_reset: not connected, and the queue is as it was.
LEMMA ResetSound ==
  ASSUME NEW rs, Sound(rs)
  PROVE  /\ Sound(Reset(rs)) /\ Reset(rs).callback_id = rs.callback_id
         /\ Reset(rs).requests = rs.requests
<1> DEFINE d == IF rs.closecb /\ rs.con \notin {"DISCONNECTED", "CONNECTING"}
                THEN Deferred(rs) ELSE rs
           r == Reset(rs)
<1>1. Sound(d) /\ d.callback_id = rs.callback_id /\ d.requests = rs.requests
  BY DeferredSound
<1>2. r = [d EXCEPT !.con = "DISCONNECTED"]
  BY DEF Reset
<1> HIDE DEF d, r
<1>3. /\ r \in SessionType /\ r.con = "DISCONNECTED" /\ r.callback_id = d.callback_id
      /\ r.requests = d.requests /\ r.closecb = d.closecb
      /\ r.reqs_in_flight = d.reqs_in_flight
  BY <1>1, <1>2 DEF Sound, SessionType, ConStates
<1>4. Sound(r)
  BY <1>1, <1>3 DEF Sound, Placed, Counted, InFlight
<1> QED BY <1>1, <1>3, <1>4 DEF r

\* A session that keeps the frame of a sound one is sound.
LEMMA FrameSound ==
  ASSUME NEW rs, Sound(rs), NEW r, Frame(r, rs)
  PROVE  Sound(r) /\ r.con = rs.con /\ r.callback_id = rs.callback_id
  BY Kept DEF Frame

\* cur_request->response_handler, whatever the step and the answer.
LEMMA ResponseSound ==
  ASSUME NEW rs, Sound(rs), NEW dev \in DeviceType, NEW step, NEW ans,
         NEW m, NEW out \in MetadataOutcomes
  PROVE  LET h == ResponseHandled(rs, dev, step, ans, m, out)
         IN  /\ Sound(h.session) /\ h.session.callback_id = rs.callback_id
             /\ Same(h.device, dev)
<1> DEFINE h == ResponseHandled(rs, dev, step, ans, m, out)
           at(x) == [rs EXCEPT !.state = x]
<1>1. rs \in SessionType /\ Frame(rs, rs) /\ Same(dev, dev)
  BY Unhandled DEF Sound
<1>2. \A x \in {"RECORD", "CONNECTED", "STOPPED", "AUTH"} : Frame(at(x), rs)
  BY <1>1, Fields DEF States, Connected, Failed
<1>3. CASE step = "volume_start"
  <2> DEFINE r == IF m THEN MetadataSent(rs, out) ELSE rs
  <2>1. h = Handled(r, dev, "CONTINUE")
    BY <1>3 DEF ResponseHandled, VolumeStartHandled
  <2>2. Sound(r) /\ r.callback_id = rs.callback_id
    BY MetadataSentSound
  <2> HIDE DEF r
  <2> QED BY <1>1, <2>1, <2>2 DEF Handled
<1>4. CASE step # "volume_start"
  <2>1. h \in {InfoStartHandled(rs, dev, ans), InfoProbeHandled(rs, dev, ans),
               SetupSessionHandled(rs, dev, ans), SetupStreamHandled(rs, dev, ans),
               Handled(at("RECORD"), dev, "CONTINUE"), Handled(at("CONNECTED"), dev, "CONTINUE"),
               Handled(at("STOPPED"), dev, "CONTINUE"), Handled(at("AUTH"), dev, "CONTINUE"),
               PairSetup1Handled(rs, dev, ans), PairSetup2Handled(rs, dev, ans),
               PairSetup3Handled(rs, dev, ans), PairVerify1Handled(rs, dev, ans),
               PairVerify2Handled(rs, dev, ans), Handled(rs, dev, "CONTINUE")}
    BY <1>4 DEF ResponseHandled
  <2> HIDE DEF at, h
  <2>2. Proper(h, rs, dev)
    BY <1>1, <1>2, <2>1, HandledProper, InfoStartProper, InfoProbeProper, SetupProper,
       PairSetupProper, PairVerifyProper
  <2> QED BY <2>2, FrameSound DEF Proper, h
<1> QED BY <1>3, <1>4

-----------------------------------------------------------------------------
(* What a session has before a sequence may go on: the requests that set it up *)
(* are made one at a time, so what one of them needs no other takes away.      *)

SetupSeqs == {"START", "PROBE", "PAIR_SETUP", "PAIR_VERIFY", "PAIR_TRANSIENT", "PIN_START",
              "START_PLAYBACK"}

\* What the session has when step i of the sequence is queued.
Due(rs, seq, i) ==
  /\ seq = "FLUSH" \/ (seq = "START_PLAYBACK" /\ i > 3) => rs.server
  /\ ~HasPassword =>
       /\ seq = "START_PLAYBACK" => rs.cipher
       /\ seq \in {"START", "PROBE", "PAIR_SETUP"} => rs.next_seq = "CONTINUE"
       /\ seq = "PAIR_TRANSIENT" => rs.pair_type = "TRANSIENT"

\* What it has when the sequence is at its end.
Finished(rs, seq) ==
  /\ seq = "START_PLAYBACK" => rs.server
  /\ ~HasPassword /\ OnSuccess[seq] = "session_pair_success" /\ rs.next_seq # "CONTINUE"
       => rs.cipher

NoSetup(q) == \A i \in DOMAIN q : q[i].seq \notin SetupSeqs
Alone(q) == \A i, j \in DOMAIN q : q[i].seq \in SetupSeqs /\ q[j].seq \in SetupSeqs => i = j

Established(rs) == rs.state \in {"CONNECTED", "STREAMING"} => rs.server

Orderly(rs) ==
  /\ Established(rs)
  /\ Alone(rs.requests)
  /\ \A i \in DOMAIN rs.requests : Due(rs, rs.requests[i].seq, rs.requests[i].step)

\* Fields change while the queue stays: nothing is lost, or no request sets up.
LEMMA OrderlyKept ==
  ASSUME NEW rs \in SessionType, Orderly(rs), NEW r \in SessionType, r.requests = rs.requests,
         rs.server => r.server, rs.cipher => r.cipher, Established(r),
         NoSetup(rs.requests) \/ (r.next_seq = rs.next_seq /\ r.pair_type = rs.pair_type)
  PROVE  Orderly(r)
<1>1. ASSUME NEW i \in DOMAIN rs.requests PROVE Due(r, rs.requests[i].seq, rs.requests[i].step)
  <2> DEFINE seq == rs.requests[i].seq
             n == rs.requests[i].step
  <2>1. Due(rs, seq, n) /\ (NoSetup(rs.requests) => seq \notin SetupSeqs)
    BY DEF Orderly, NoSetup
  <2> HIDE DEF seq, n
  <2>2. Due(r, seq, n)
    BY <2>1 DEF Due, SetupSeqs
  <2> QED BY <2>2 DEF seq, n
<1> QED BY <1>1 DEF Orderly

\* A request is queued that what the session has is enough for.
LEMMA OrderlyAppended ==
  ASSUME NEW rs \in SessionType, Orderly(rs), NEW req \in RequestType,
         NEW r \in SessionType, r.requests = Append(rs.requests, req),
         r.server = rs.server, r.cipher = rs.cipher, Established(r),
         r.next_seq = rs.next_seq, r.pair_type = rs.pair_type,
         Due(rs, req.seq, req.step), req.seq \in SetupSeqs => NoSetup(rs.requests)
  PROVE  /\ Orderly(r)
         /\ req.seq \notin SetupSeqs /\ NoSetup(rs.requests) => NoSetup(r.requests)
<1> DEFINE q == rs.requests
           n == Len(q)
<1>1. q \in Seq(RequestType) /\ n \in Nat /\ DOMAIN q = 1..n
  BY LenProperties DEF SessionType
<1>2. /\ DOMAIN r.requests = 1..(n + 1)
      /\ \A i \in 1..n : r.requests[i] = q[i]
      /\ r.requests[n + 1] = req
  BY <1>1, AppendProperties, LenProperties
<1>3. Alone(r.requests)
  <2> SUFFICES ASSUME NEW i \in 1..(n + 1), NEW j \in 1..(n + 1),
                      r.requests[i].seq \in SetupSeqs, r.requests[j].seq \in SetupSeqs
               PROVE  i = j
    BY <1>2 DEF Alone
  <2>1. \A x, y \in 1..n : q[x].seq \in SetupSeqs /\ q[y].seq \in SetupSeqs => x = y
    BY <1>1 DEF Orderly, Alone
  <2>2. req.seq \in SetupSeqs => \A x \in 1..n : q[x].seq \notin SetupSeqs
    BY <1>1 DEF NoSetup
  <2> HIDE DEF q, n
  <2> QED BY <1>1, <1>2, <2>1, <2>2
<1>4. ASSUME NEW i \in 1..(n + 1) PROVE Due(r, r.requests[i].seq, r.requests[i].step)
  <2>1. CASE i = n + 1
    BY <1>2, <2>1 DEF Due
  <2>2. CASE i \in 1..n
    <3>1. Due(rs, q[i].seq, q[i].step) /\ r.requests[i] = q[i]
      BY <1>1, <1>2, <2>2 DEF Orderly
    <3> HIDE DEF q
    <3> QED BY <3>1 DEF Due
  <2> QED BY <1>1, <2>1, <2>2
<1>5. req.seq \notin SetupSeqs /\ NoSetup(q) => NoSetup(r.requests)
  BY <1>1, <1>2 DEF NoSetup
<1> QED BY <1>2, <1>3, <1>4, <1>5 DEF Orderly

\* The step names tell the sequences apart.
LEMMA StepNames ==
  ASSUME NEW seq \in SeqTypes, NEW i \in DOMAIN seq_request[seq]
  PROVE  /\ seq_request[seq][i] = "pair_setup1" => seq = "PAIR_SETUP"
         /\ seq_request[seq][i] = "transient1" => seq = "PAIR_TRANSIENT"
BY DEF SeqTypes, seq_request

LEMMA DeferredOrderly ==
  ASSUME NEW rs \in SessionType, Orderly(rs)
  PROVE  /\ Orderly(Deferred(rs)) /\ Deferred(rs) \in SessionType
         /\ Deferred(rs).requests = rs.requests
         /\ Deferred(rs).server = rs.server
<1> DEFINE r == Deferred(rs)
<1>1. /\ r \in SessionType /\ r.requests = rs.requests /\ r.server = rs.server
      /\ r.cipher = rs.cipher /\ r.next_seq = rs.next_seq /\ r.pair_type = rs.pair_type
      /\ r.state \in {"AUTH", "FAILED"}
  BY DEF Deferred, FailedState, SessionType, States, Failed
<1> HIDE DEF r
<1>2. Established(r)
  BY <1>1 DEF Established
<1>3. Orderly(r)
  BY <1>1, <1>2, OrderlyKept
<1> QED BY <1>1, <1>3 DEF r

LEMMA PayloadOrderly ==
  ASSUME NEW rs \in SessionType, Orderly(rs), NEW seq \in SeqTypes,
         NEW i \in DOMAIN seq_request[seq], Due(rs, seq, i),
         seq \in SetupSeqs => NoSetup(rs.requests)
  PROVE  LET r == PayloadMade([rs EXCEPT !.req_has_auth = @ \/ rs.realm], seq_request[seq][i])
         IN  /\ Orderly(r) /\ r \in SessionType /\ Due(r, seq, i)
             /\ r.requests = rs.requests /\ r.server = rs.server
<1> DEFINE h == [rs EXCEPT !.req_has_auth = @ \/ rs.realm]
           step == seq_request[seq][i]
           r == PayloadMade(h, step)
           Like(x, y) == /\ x \in SessionType /\ x.requests = y.requests /\ x.server = y.server
                         /\ x.cipher = y.cipher /\ x.next_seq = y.next_seq
<1>1. Like(h, rs) /\ h.pair_type = rs.pair_type /\ h.state = rs.state
  BY DEF SessionType
<1> HIDE DEF h
<1>2. /\ Like(r, rs)
      /\ r.state = rs.state \/ r.state \in {"AUTH", "TEARDOWN"}
      /\ r.pair_type = rs.pair_type \/ step = "pair_setup1" \/ (step = "transient1" /\ HasPassword)
  <2>1. CASE step = "pair_setup1"
    <3> DEFINE a == [h EXCEPT !.state = "AUTH"]
    <3>1. Like(a, rs) /\ a.state = "AUTH"
      BY <1>1 DEF SessionType, States, Failed
    <3>2. r = [a EXCEPT !.pair_type = "NORMAL"]
      BY <2>1 DEF PayloadMade
    <3> HIDE DEF a
    <3>3. Like(r, rs) /\ r.state = "AUTH"
      BY <3>1, <3>2 DEF SessionType
    <3> QED BY <2>1, <3>3
  <2>2. CASE step = "transient1"
    <3> DEFINE a == [h EXCEPT !.state = "AUTH"]
               p == IF HasPassword THEN "NORMAL" ELSE h.pair_type
    <3>1. Like(a, rs) /\ a.state = "AUTH" /\ a.pair_type = rs.pair_type
          /\ p \in {"FRUIT", "NORMAL", "TRANSIENT"} /\ (~HasPassword => p = rs.pair_type)
      BY <1>1 DEF SessionType, States, Failed
    <3>2. r = [a EXCEPT !.pair_type = p]
      BY <2>2 DEF PayloadMade
    <3> HIDE DEF a, p
    <3>3. Like(r, rs) /\ r.state = "AUTH" /\ r.pair_type = p
      BY <3>1, <3>2 DEF SessionType
    <3> QED BY <2>2, <3>1, <3>3
  <2>3. CASE step = "teardown"
    BY <1>1, <2>3 DEF PayloadMade, SessionType, States, Connected
  <2>4. CASE step \notin {"pair_setup1", "transient1", "teardown"}
    BY <1>1, <2>4 DEF PayloadMade
  <2> QED BY <2>1, <2>2, <2>3, <2>4
<1>3. (step = "pair_setup1" => seq = "PAIR_SETUP") /\ (step = "transient1" => seq = "PAIR_TRANSIENT")
  BY StepNames
<1> HIDE DEF r, step
<1>4. Established(r)
  BY <1>2 DEF Established, Orderly
<1>5. Orderly(r)
  BY <1>2, <1>3, <1>4, OrderlyKept DEF SetupSeqs
<1>6. Due(r, seq, i)
  BY <1>2, <1>3 DEF Due
<1> QED BY <1>2, <1>5, <1>6 DEF r, h, step

\* sequence_continue, however it goes.
LEMMA SequenceContinueOrderly ==
  ASSUME NEW rs \in SessionType, Orderly(rs), NEW seq \in SeqTypes,
         NEW i \in DOMAIN seq_request[seq], Due(rs, seq, i), NEW out \in Outcomes,
         seq \in SetupSeqs => NoSetup(rs.requests)
  PROVE  LET r == SequenceContinue(rs, seq, i, out)
         IN  /\ Orderly(r) /\ r.server = rs.server
             /\ seq \notin SetupSeqs /\ NoSetup(rs.requests) => NoSetup(r.requests)
<1> DEFINE payload == PayloadMade([rs EXCEPT !.req_has_auth = @ \/ rs.realm],
                                  seq_request[seq][i])
           req == [seq |-> seq, step |-> i, freed |-> out = "refused"]
           refused == [payload EXCEPT !.requests = Append(@, req)]
           r == SequenceContinue(rs, seq, i, out)
<1>1. /\ Orderly(payload) /\ payload \in SessionType /\ Due(payload, seq, i)
      /\ payload.requests = rs.requests /\ payload.server = rs.server
  BY PayloadOrderly
<1>2. req \in RequestType /\ req.seq = seq /\ req.step = i
  BY StepsBound DEF RequestType
<1>3. /\ out = "sent" => r = Queued(payload, req)
      /\ out = "not_built" => r = Deferred(rs)
      /\ out = "refused" => r = Deferred(refused)
      /\ out = "payload_failed" => r = Deferred(payload)
  BY DEF SequenceContinue
<1> SUFFICES /\ Orderly(r) /\ r.server = rs.server
             /\ seq \notin SetupSeqs /\ NoSetup(rs.requests) => NoSetup(r.requests)
  OBVIOUS
<1> HIDE DEF payload, req, r
<1>4. /\ payload.requests \in Seq(RequestType) /\ payload.con \in ConStates
      /\ payload.reqs_in_flight \in Nat
      /\ Append(payload.requests, req) \in Seq(RequestType)
  BY <1>1, <1>2, AppendProperties DEF SessionType
<1> DEFINE Grown(x) ==
      /\ x \in SessionType /\ x.requests = Append(payload.requests, req)
      /\ x.server = payload.server /\ x.cipher = payload.cipher /\ x.next_seq = payload.next_seq
      /\ x.pair_type = payload.pair_type /\ x.state = payload.state
<1>5. ASSUME NEW x, Grown(x)
      PROVE  /\ Orderly(x) /\ x.server = rs.server /\ x \in SessionType
             /\ seq \notin SetupSeqs /\ NoSetup(rs.requests) => NoSetup(x.requests)
  <2>1. Established(x)
    BY <1>1, <1>5 DEF Established, Orderly
  <2> QED BY <1>1, <1>2, <1>5, <2>1, OrderlyAppended
<1>6. CASE out = "sent"
  <2> DEFINE q == Append(payload.requests, req)
             c == Dialled(payload.con)
             n == payload.reqs_in_flight + 1
             a == [payload EXCEPT !.requests = q]
             b == [a EXCEPT !.con = c]
             d == [b EXCEPT !.closecb = FALSE]
  <2>1. c \in ConStates /\ n \in Nat /\ q \in Seq(RequestType)
    BY <1>4 DEF Dialled, ConStates
  <2>2. r = [d EXCEPT !.reqs_in_flight = n]
    BY <1>3, <1>6 DEF Queued
  <2> HIDE DEF c, n
  <2>3. Grown(a)
    BY <1>1, <1>4 DEF SessionType
  <2> HIDE DEF a
  <2>4. Grown(b)
    BY <2>1, <2>3 DEF SessionType
  <2> HIDE DEF b
  <2>5. Grown(d)
    BY <2>4 DEF SessionType
  <2> HIDE DEF d
  <2>6. Grown(r)
    BY <2>1, <2>2, <2>5 DEF SessionType
  <2> QED BY <2>6, <1>5
<1>7. CASE out = "not_built"
  BY <1>3, <1>7, DeferredOrderly
<1>8. CASE out = "refused"
  <2>1. Grown(refused)
    BY <1>1, <1>4 DEF SessionType
  <2> HIDE DEF refused, Grown
  <2>2. /\ Orderly(refused) /\ refused.server = rs.server /\ refused \in SessionType
        /\ seq \notin SetupSeqs /\ NoSetup(rs.requests) => NoSetup(refused.requests)
    BY <1>5, <2>1
  <2> QED BY <1>3, <1>8, <2>2, DeferredOrderly
<1>9. CASE out = "payload_failed"
  BY <1>1, <1>3, <1>9, DeferredOrderly
<1> QED BY <1>6, <1>7, <1>8, <1>9 DEF Outcomes

LEMMA SequenceStartOrderly ==
  ASSUME NEW rs \in SessionType, Orderly(rs), NEW seq \in SeqTypes, Due(rs, seq, 1),
         NEW out \in Outcomes, seq \in SetupSeqs => NoSetup(rs.requests)
  PROVE  LET r == SequenceStart(rs, seq, out)
         IN  /\ Orderly(r) /\ r.server = rs.server
             /\ seq \notin SetupSeqs /\ NoSetup(rs.requests) => NoSetup(r.requests)
<1>1. 1 \in DOMAIN seq_request[seq]
  BY StepsBound
<1> QED BY <1>1, SequenceContinueOrderly DEF SequenceStart

\* airplay_metadata_send_generic adds no request that sets up.
LEMMA MetadataSentOrderly ==
  ASSUME NEW rs, Sound(rs), Orderly(rs), NEW out \in MetadataOutcomes
  PROVE  LET r == MetadataSent(rs, out)
         IN  Orderly(r) /\ r.server = rs.server /\ (NoSetup(rs.requests) => NoSetup(r.requests))
<1> DEFINE start(r, seq) == IF seq \in Wanted THEN SequenceStart(r, seq, out[seq]) ELSE r
           Goes(r) == /\ Sound(r) /\ Orderly(r) /\ r.server = rs.server
                      /\ NoSetup(rs.requests) => NoSetup(r.requests)
<1>1. ASSUME NEW r, Goes(r), NEW seq \in MetadataSeqs
      PROVE  Goes(start(r, seq))
  <2>1. CASE seq \in Wanted
    <3>1. /\ out[seq] \in Outcomes /\ out[seq] # "refused" /\ seq \in SeqTypes
          /\ seq \notin SetupSeqs /\ Due(r, seq, 1)
      BY <2>1 DEF MetadataOutcomes, Outcomes, MetadataSeqs, SeqTypes, seq_request, SetupSeqs, Due
    <3>2. start(r, seq) = SequenceStart(r, seq, out[seq])
      BY <2>1
    <3>3. Sound(SequenceStart(r, seq, out[seq]))
      BY <1>1, <3>1, SequenceStartSound
    <3>4. r \in SessionType
      BY <1>1 DEF Sound
    <3> HIDE DEF start
    <3> QED BY <1>1, <3>1, <3>2, <3>3, <3>4, SequenceStartOrderly
  <2> QED BY <2>1, <1>1
<1> DEFINE r1 == start(rs, "SEND_PROGRESS")
           r2 == start(r1, "SEND_TEXT")
           r3 == start(r2, "SEND_ARTWORK")
<1>2. r3 = MetadataSent(rs, out)
  BY DEF MetadataSent
<1>3. Goes(rs)
  OBVIOUS
<1> HIDE DEF start
<1>4. {"SEND_PROGRESS", "SEND_TEXT", "SEND_ARTWORK"} \subseteq MetadataSeqs
  BY DEF MetadataSeqs
<1>5. Goes(r1)
  BY <1>1, <1>3, <1>4
<1>6. Goes(r2)
  BY <1>1, <1>4, <1>5
<1>7. Goes(r3)
  BY <1>1, <1>4, <1>6
<1> QED BY <1>2, <1>7

\* The head of the queue goes, and what it needed stays; if it set up, it was the only one.
LEMMA DequeuedOrderly ==
  ASSUME NEW rs \in SessionType, Orderly(rs), rs.requests # <<>>, NEW con,
         Dequeued(rs, con) \in SessionType
  PROVE  LET r == Dequeued(rs, con)   req == Head(rs.requests)
         IN  /\ Orderly(r) /\ Due(r, req.seq, req.step)
             /\ req.seq \in SetupSeqs => NoSetup(r.requests)
<1> DEFINE r == Dequeued(rs, con)
           q == rs.requests
           n == Len(q)
           req == Head(q)
<1>1. /\ q \in Seq(RequestType) /\ n \in Nat \ {0} /\ DOMAIN q = 1..n
      /\ req = q[1]
      /\ DOMAIN Tail(q) = 1..(n - 1)
      /\ \A i \in 1..(n - 1) : Tail(q)[i] = q[i + 1]
  <2>1. q \in Seq(RequestType) /\ q # <<>>
    BY DEF SessionType
  <2> HIDE DEF q
  <2>2. n \in Nat /\ n # 0 /\ DOMAIN q = 1..n /\ req = q[1]
    BY <2>1, HeadTailProperties, EmptySeq, LenProperties
  <2>3. Tail(q) \in Seq(RequestType) /\ Len(Tail(q)) = n - 1
        /\ \A i \in 1..(n - 1) : Tail(q)[i] = q[i + 1]
    BY <2>1, HeadTailProperties
  <2>4. DOMAIN Tail(q) = 1..(n - 1)
    BY <2>3, LenProperties
  <2> QED BY <2>1, <2>2, <2>3, <2>4
<1>2. /\ r.requests = Tail(q) /\ r.server = rs.server /\ r.cipher = rs.cipher
      /\ r.next_seq = rs.next_seq /\ r.pair_type = rs.pair_type /\ r.state = rs.state
  BY DEF Dequeued, SessionType
<1> HIDE DEF r, req
<1>3. \A i, j \in 1..n : q[i].seq \in SetupSeqs /\ q[j].seq \in SetupSeqs => i = j
  BY <1>1 DEF Orderly, Alone
<1>4. \A i \in 1..n : Due(rs, q[i].seq, q[i].step)
  BY <1>1 DEF Orderly
<1>5. \A seq, i : Due(rs, seq, i) => Due(r, seq, i)
  BY <1>2 DEF Due
<1> HIDE DEF q, n
<1>6. Alone(r.requests)
  <2> SUFFICES ASSUME NEW i \in 1..(n - 1), NEW j \in 1..(n - 1),
                      Tail(q)[i].seq \in SetupSeqs, Tail(q)[j].seq \in SetupSeqs
               PROVE  i = j
    BY <1>1, <1>2 DEF Alone
  <2>1. i + 1 \in 1..n /\ j + 1 \in 1..n
    BY <1>1
  <2>2. i + 1 = j + 1
    BY <1>1, <1>3, <2>1
  <2> QED BY <2>2
<1>7. ASSUME NEW i \in 1..(n - 1)
      PROVE  Due(r, Tail(q)[i].seq, Tail(q)[i].step) /\ (req.seq \in SetupSeqs => Tail(q)[i].seq \notin SetupSeqs)
  <2>1. i + 1 \in 1..n /\ 1 \in 1..n /\ Tail(q)[i] = q[i + 1] /\ i + 1 # 1
    BY <1>1
  <2> QED BY <1>1, <1>3, <1>4, <1>5, <2>1
<1>8. Due(r, req.seq, req.step)
  BY <1>1, <1>4, <1>5
<1>9. Established(r)
  BY <1>2 DEF Orderly, Established
<1> QED BY <1>1, <1>2, <1>6, <1>7, <1>8, <1>9 DEF Orderly, NoSetup, r, req, q

LEMMA ResetOrderly ==
  ASSUME NEW rs, Sound(rs), Orderly(rs)
  PROVE  Orderly(Reset(rs))
<1> DEFINE d == IF rs.closecb /\ rs.con \notin {"DISCONNECTED", "CONNECTING"}
                THEN Deferred(rs) ELSE rs
           r == Reset(rs)
<1>1. rs \in SessionType /\ Orderly(d) /\ d \in SessionType
  BY DeferredOrderly DEF Sound
<1>2. r = [d EXCEPT !.con = "DISCONNECTED"]
  BY DEF Reset
<1> HIDE DEF d, r
<1>3. /\ r \in SessionType /\ r.requests = d.requests /\ r.server = d.server
      /\ r.cipher = d.cipher /\ r.next_seq = d.next_seq /\ r.pair_type = d.pair_type
      /\ r.state = d.state
  BY <1>1, <1>2 DEF SessionType, ConStates
<1>4. Established(r)
  BY <1>1, <1>3 DEF Orderly, Established
<1>5. Orderly(r)
  BY <1>1, <1>3, <1>4, OrderlyKept
<1> QED BY <1>5 DEF r

\* What a handler leaves of the session: the queue, the server and the cipher.
Grows(r, rs) ==
  /\ r \in SessionType /\ r.requests = rs.requests
  /\ rs.server => r.server
  /\ rs.cipher => r.cipher
  /\ Established(r)

\* What a handler of step i of a sequence makes of the session is enough to go on with.
HandlesWell(h, seq, i) ==
  /\ Orderly(h.session)
  /\ seq \in SetupSeqs => NoSetup(h.session.requests)
  /\ h.next \in SeqTypes => seq \in SetupSeqs /\ Due(h.session, h.next, 1)
  /\ h.next = "CONTINUE" /\ i < Len(seq_request[seq]) => Due(h.session, seq, i + 1)
  /\ h.next = "CONTINUE" /\ i = Len(seq_request[seq]) => Finished(h.session, seq)

LEMMA SetUpGrows ==
  ASSUME NEW rs \in SessionType, Orderly(rs), NoSetup(rs.requests), NEW r, Grows(r, rs)
  PROVE  Orderly(r) /\ NoSetup(r.requests)
  BY OrderlyKept DEF Grows

\* A session in a state audio is not written to.
LEMMA StateGrows ==
  ASSUME NEW rs \in SessionType, NEW x \in States \ {"CONNECTED", "STREAMING"}
  PROVE  LET r == [rs EXCEPT !.state = x]
         IN  Grows(r, rs) /\ r.next_seq = rs.next_seq /\ r.pair_type = rs.pair_type
  BY DEF Grows, Established, SessionType

LEMMA CipheredGrows ==
  ASSUME NEW rs \in SessionType, Established(rs)
  PROVE  /\ Grows(rs, rs)
         /\ Grows(Ciphered(rs), rs) /\ Ciphered(rs).cipher
         /\ Ciphered(rs).next_seq = rs.next_seq /\ Ciphered(rs).pair_type = rs.pair_type
<1> DEFINE c == [rs EXCEPT !.cipher = TRUE]
<1>1. Grows(c, rs) /\ c.cipher /\ c.next_seq = rs.next_seq /\ c.pair_type = rs.pair_type
  BY DEF Grows, Established, SessionType
<1>2. Ciphered(rs) = [c EXCEPT !.state = "ENCRYPTED"] /\ "ENCRYPTED" \in States \ {"CONNECTED", "STREAMING"}
  BY DEF Ciphered, States
<1>3. Grows(rs, rs)
  BY DEF Grows
<1> HIDE DEF c
<1>4. Grows(Ciphered(rs), rs) /\ Ciphered(rs).cipher /\ Ciphered(rs).next_seq = rs.next_seq
      /\ Ciphered(rs).pair_type = rs.pair_type
  BY <1>1, <1>2 DEF Grows, Established, SessionType
<1> QED BY <1>3, <1>4

\* GET /info: the pairing that follows, and what it needs.
LEMMA InfoOrderly ==
  ASSUME NEW rs \in SessionType, Orderly(rs), NoSetup(rs.requests),
         ~HasPassword => rs.next_seq = "CONTINUE",
         NEW dev, NEW ans
  PROVE  /\ HandlesWell(InfoStartHandled(rs, dev, ans), "START", 1)
         /\ HandlesWell(InfoProbeHandled(rs, dev, ans), "PROBE", 1)
<1> DEFINE q(x, y) == [rs EXCEPT !.pair_type = x, !.state = y]
           Paired(r, x) == Grows(r, rs) /\ r.pair_type = x /\ (~HasPassword => r.next_seq = "CONTINUE")
<1>1. Established(rs) /\ rs.state \in States
  BY DEF Orderly, SessionType
<1>2. ASSUME NEW x \in {"NORMAL", "TRANSIENT"}, NEW y \in {"AUTH", "INFO", rs.state}
      PROVE  Paired(q(x, y), x)
  <2> DEFINE p == [rs EXCEPT !.pair_type = x]
  <2>1. Paired(p, x) /\ p.state = rs.state
    BY <1>1 DEF SessionType, Grows, Established
  <2>2. q(x, y) = [p EXCEPT !.state = y]
    OBVIOUS
  <2> HIDE DEF p, q
  <2>3. y \in States /\ (y \in {"CONNECTED", "STREAMING"} => y = rs.state)
    BY <1>1 DEF States, Failed
  <2> QED BY <1>1, <2>1, <2>2, <2>3 DEF SessionType, Grows, Established
<1> DEFINE h == InfoHandled(rs, dev, ans)
<1>3. \/ /\ h.next = "ABORT" /\ h.session = rs
      \/ /\ h.next = "ABORT" /\ h.session = q("NORMAL", rs.state)
      \/ /\ h.next = "PIN_START" /\ h.session = q("NORMAL", "AUTH")
      \/ /\ h.next = "PAIR_SETUP" /\ HasPassword /\ h.session = q("NORMAL", "AUTH")
      \/ /\ h.next = "PAIR_VERIFY" /\ h.session = q("NORMAL", "INFO")
      \/ /\ h.next = "PAIR_TRANSIENT" /\ h.session = q("TRANSIENT", "INFO")
  BY SequenceAssumption DEF InfoHandled, Handled
<1>4. h = [session |-> h.session, device |-> h.device, next |-> h.next]
  BY DEF InfoHandled, Handled
<1> HIDE DEF q, h
<1>5. /\ Grows(h.session, rs) /\ h.next # "CONTINUE"
      /\ h.next \in {"ABORT", "PIN_START", "PAIR_SETUP", "PAIR_VERIFY", "PAIR_TRANSIENT"}
      /\ h.next = "PAIR_SETUP" => HasPassword
      /\ h.next = "PAIR_TRANSIENT" => h.session.pair_type = "TRANSIENT"
  BY <1>1, <1>2, <1>3 DEF Grows
<1>6. HandlesWell(InfoStartHandled(rs, dev, ans), "START", 1)
  <2> DEFINE k == InfoStartHandled(rs, dev, ans)
             r == [h.session EXCEPT !.next_seq = "START_PLAYBACK"]
  <2>1. k.next = h.next /\ k.session \in {h.session, r}
    BY <1>4, <1>5 DEF InfoStartHandled, h
  <2>2. Grows(r, rs) /\ r.pair_type = h.session.pair_type
    BY <1>5 DEF Grows, Established, SessionType
  <2> HIDE DEF r, k
  <2>3. Orderly(k.session) /\ NoSetup(k.session.requests)
    BY <1>5, <2>1, <2>2, SetUpGrows
  <2>4. Due(k.session, k.next, 1)
    BY <1>5, <2>1, <2>2 DEF Due
  <2>5. HandlesWell(k, "START", 1)
    BY <1>5, <2>1, <2>3, <2>4 DEF HandlesWell, SetupSeqs
  <2> QED BY <2>5 DEF k
<1>7. HandlesWell(InfoProbeHandled(rs, dev, ans), "PROBE", 1)
  <2> DEFINE k == InfoProbeHandled(rs, dev, ans)
  <2>1. /\ k.session = h.session
        /\ k.next \in {"ABORT", "CONTINUE", "PIN_START", "PAIR_SETUP"}
        /\ k.next = "PAIR_SETUP" => HasPassword
    BY <1>4, <1>5 DEF InfoProbeHandled, h
  <2> HIDE DEF k
  <2>2. Orderly(k.session) /\ NoSetup(k.session.requests)
    BY <1>5, <2>1, SetUpGrows
  <2>3. k.next # "CONTINUE" => Due(k.session, k.next, 1)
    BY <2>1 DEF Due
  <2>4. Len(seq_request["PROBE"]) = 1 /\ Finished(k.session, "PROBE") /\ "CONTINUE" \notin SeqTypes
    BY DEF seq_request, Finished, OnSuccess, SeqTypes
  <2>5. HandlesWell(k, "PROBE", 1)
    BY <2>1, <2>2, <2>3, <2>4 DEF HandlesWell, SetupSeqs
  <2> QED BY <2>5 DEF k
<1> QED BY <1>6, <1>7

\* A request of a sequence that sets up was answered.
LEMMA SetUpHandled ==
  ASSUME NEW rs \in SessionType, Orderly(rs), NoSetup(rs.requests), NEW seq \in SetupSeqs,
         NEW i \in DOMAIN seq_request[seq], NEW h, Grows(h.session, rs),
         \/ h.next = "ABORT"
         \/ h.next \in SeqTypes /\ Due(h.session, h.next, 1)
         \/ h.next = "CONTINUE" /\ i < Len(seq_request[seq]) /\ Due(h.session, seq, i + 1)
         \/ h.next = "CONTINUE" /\ i = Len(seq_request[seq]) /\ Finished(h.session, seq)
  PROVE  HandlesWell(h, seq, i)
<1>1. Orderly(h.session) /\ NoSetup(h.session.requests)
  BY SetUpGrows
<1>2. "ABORT" \notin SeqTypes /\ "CONTINUE" \notin SeqTypes
  BY DEF SeqTypes, seq_request
<1>3. Len(seq_request[seq]) \in Nat /\ i \in Nat
  BY StepsBound DEF SetupSeqs, SeqTypes, seq_request
<1> QED BY <1>1, <1>2, <1>3 DEF HandlesWell

\* POST /pair-setup: it pairs for a probe or an authorization, which no playback follows
\* unless a password is configured.
LEMMA PairSetupOrderly ==
  ASSUME NEW rs \in SessionType, Orderly(rs), NoSetup(rs.requests),
         Due(rs, "PAIR_SETUP", 1), NEW dev, NEW ans
  PROVE  /\ HandlesWell(PairSetup1Handled(rs, dev, ans), "PAIR_SETUP", 1)
         /\ HandlesWell(PairSetup2Handled(rs, dev, ans), "PAIR_SETUP", 2)
         /\ HandlesWell(PairSetup3Handled(rs, dev, ans), "PAIR_SETUP", 3)
<1> DEFINE normal == [rs EXCEPT !.pair_type = "NORMAL"]
           failed == [rs EXCEPT !.state = "FAILED"]
           stopped == [rs EXCEPT !.state = "STOPPED"]
           Like(r) == Grows(r, rs) /\ r.next_seq = rs.next_seq
           seq == "PAIR_SETUP"
<1>1. Established(rs) /\ (~HasPassword => rs.next_seq = "CONTINUE")
  BY DEF Orderly, Due
<1>2. Like(rs) /\ Like(Ciphered(rs))
  BY <1>1, CipheredGrows
<1>3. Like(failed) /\ Like(stopped)
  BY StateGrows DEF States, Failed
<1>4. Like(normal)
  BY <1>1 DEF Grows, Established, SessionType
<1>5. ASSUME NEW r, Like(r)
      PROVE  Due(r, seq, 2) /\ Due(r, seq, 3) /\ Finished(r, seq) /\ Due(r, "PIN_START", 1)
  BY <1>1, <1>5 DEF Due, Finished
<1>6. /\ seq \in SetupSeqs /\ Len(seq_request[seq]) = 3 /\ DOMAIN seq_request[seq] = 1..3
      /\ "PIN_START" \in SeqTypes
  BY DEF SetupSeqs, seq_request, SeqTypes
<1> HIDE DEF normal, failed, stopped, seq
<1>7. HandlesWell(PairSetup1Handled(rs, dev, ans), seq, 1)
  <2> DEFINE h == PairSetup1Handled(rs, dev, ans)
  <2>1. \/ h.session = normal /\ h.next = "PIN_START"
        \/ h.session = rs /\ h.next \in {"ABORT", "CONTINUE"}
    BY DEF PairSetup1Handled, Handled, normal
  <2> HIDE DEF h
  <2>2. HandlesWell(h, seq, 1)
    BY <1>2, <1>4, <1>5, <1>6, <2>1, SetUpHandled
  <2> QED BY <2>2 DEF h
<1>8. HandlesWell(PairSetup2Handled(rs, dev, ans), seq, 2)
  <2> DEFINE h == PairSetup2Handled(rs, dev, ans)
  <2>1. h.session \in {rs, Ciphered(rs), failed} /\ h.next \in {"ABORT", "CONTINUE"}
    BY DEF PairSetup2Handled, Handled, failed
  <2> HIDE DEF h
  <2>2. HandlesWell(h, seq, 2)
    BY <1>2, <1>3, <1>5, <1>6, <2>1, SetUpHandled
  <2> QED BY <2>2 DEF h
<1>9. HandlesWell(PairSetup3Handled(rs, dev, ans), seq, 3)
  <2> DEFINE h == PairSetup3Handled(rs, dev, ans)
  <2>1. h.session \in {rs, stopped} /\ h.next \in {"ABORT", "CONTINUE"}
    BY DEF PairSetup3Handled, Handled, stopped
  <2> HIDE DEF h
  <2>2. Grows(h.session, rs) /\ (h.next = "CONTINUE" => Finished(h.session, seq))
    BY <1>2, <1>3, <1>5, <2>1
  <2>3. 3 \in DOMAIN seq_request[seq] /\ 3 = Len(seq_request[seq])
    BY <1>6
  <2>4. HandlesWell(h, seq, 3)
    BY <1>6, <2>1, <2>2, <2>3, SetUpHandled
  <2> QED BY <2>4 DEF h
<1> QED BY <1>7, <1>8, <1>9 DEF seq

\* POST /pair-verify ends with a session key.
LEMMA PairVerifyOrderly ==
  ASSUME NEW rs \in SessionType, Orderly(rs), NoSetup(rs.requests), NEW dev, NEW ans
  PROVE  /\ HandlesWell(PairVerify1Handled(rs, dev, ans), "PAIR_VERIFY", 1)
         /\ HandlesWell(PairVerify2Handled(rs, dev, ans), "PAIR_VERIFY", 2)
<1> DEFINE auth == [rs EXCEPT !.state = "AUTH"]
           seq == "PAIR_VERIFY"
<1>1. Established(rs)
  BY DEF Orderly
<1>2. Grows(rs, rs) /\ Grows(Ciphered(rs), rs) /\ Ciphered(rs).cipher
  BY <1>1, CipheredGrows
<1>3. Grows(auth, rs)
  BY StateGrows DEF States, Failed
<1>4. Due(rs, seq, 2)
  BY DEF Due
<1>5. Finished(Ciphered(rs), seq)
  BY <1>2 DEF Finished
<1>6. /\ seq \in SetupSeqs /\ Len(seq_request[seq]) = 2 /\ DOMAIN seq_request[seq] = 1..2
  BY DEF SetupSeqs, seq_request
<1> HIDE DEF auth, seq
<1>7. HandlesWell(PairVerify1Handled(rs, dev, ans), seq, 1)
  <2> DEFINE h == PairVerify1Handled(rs, dev, ans)
  <2>1. \/ h.session = rs /\ h.next = "CONTINUE"
        \/ h.session = auth /\ h.next = "ABORT"
    BY DEF PairVerify1Handled, Handled, auth
  <2> HIDE DEF h
  <2>2. HandlesWell(h, seq, 1)
    BY <1>2, <1>3, <1>4, <1>6, <2>1, SetUpHandled
  <2> QED BY <2>2 DEF h
<1>8. HandlesWell(PairVerify2Handled(rs, dev, ans), seq, 2)
  <2> DEFINE h == PairVerify2Handled(rs, dev, ans)
  <2>1. \/ h.session = Ciphered(rs) /\ h.next = "CONTINUE"
        \/ h.session \in {auth, rs} /\ h.next = "ABORT"
    BY DEF PairVerify2Handled, Handled, auth
  <2> HIDE DEF h
  <2>2. Grows(h.session, rs) /\ (h.next = "CONTINUE" => Finished(h.session, seq))
    BY <1>2, <1>3, <1>5, <1>6, <2>1
  <2>3. 2 \in DOMAIN seq_request[seq] /\ 2 = Len(seq_request[seq])
    BY <1>6
  <2>4. HandlesWell(h, seq, 2)
    BY <1>6, <2>1, <2>2, <2>3, SetUpHandled
  <2> QED BY <2>4 DEF h
<1> QED BY <1>7, <1>8 DEF seq

\* The transient pairing ends with a session key, unless the type of pairing was
\* changed for a password.
LEMMA TransientOrderly ==
  ASSUME NEW rs \in SessionType, Orderly(rs), NoSetup(rs.requests),
         Due(rs, "PAIR_TRANSIENT", 1), NEW dev, NEW ans
  PROVE  /\ HandlesWell(PairSetup1Handled(rs, dev, ans), "PAIR_TRANSIENT", 1)
         /\ HandlesWell(PairSetup2Handled(rs, dev, ans), "PAIR_TRANSIENT", 2)
<1> DEFINE normal == [rs EXCEPT !.pair_type = "NORMAL"]
           failed == [rs EXCEPT !.state = "FAILED"]
           seq == "PAIR_TRANSIENT"
<1>1. Established(rs) /\ (~HasPassword => rs.pair_type = "TRANSIENT")
  BY DEF Orderly, Due
<1>2. Grows(rs, rs) /\ Grows(Ciphered(rs), rs) /\ Ciphered(rs).cipher
  BY <1>1, CipheredGrows
<1>3. Grows(failed, rs)
  BY StateGrows DEF States, Failed
<1>4. Grows(normal, rs)
  BY <1>1 DEF Grows, Established, SessionType
<1>5. Due(rs, seq, 2) /\ Due(normal, "PIN_START", 1)
  BY <1>1 DEF Due
<1>6. Finished(Ciphered(rs), seq) /\ (rs.pair_type # "TRANSIENT" => Finished(rs, seq))
  BY <1>1, <1>2 DEF Finished
<1>7. /\ seq \in SetupSeqs /\ Len(seq_request[seq]) = 2 /\ DOMAIN seq_request[seq] = 1..2
      /\ "PIN_START" \in SeqTypes
  BY DEF SetupSeqs, seq_request, SeqTypes
<1> HIDE DEF normal, failed, seq
<1>8. HandlesWell(PairSetup1Handled(rs, dev, ans), seq, 1)
  <2> DEFINE h == PairSetup1Handled(rs, dev, ans)
  <2>1. \/ h.session = normal /\ h.next = "PIN_START"
        \/ h.session = rs /\ h.next \in {"ABORT", "CONTINUE"}
    BY DEF PairSetup1Handled, Handled, normal
  <2> HIDE DEF h
  <2>2. HandlesWell(h, seq, 1)
    BY <1>2, <1>4, <1>5, <1>7, <2>1, SetUpHandled
  <2> QED BY <2>2 DEF h
<1>9. HandlesWell(PairSetup2Handled(rs, dev, ans), seq, 2)
  <2> DEFINE h == PairSetup2Handled(rs, dev, ans)
  <2>1. \/ h.session = rs /\ h.next = "ABORT"
        \/ h.session = failed /\ h.next = "ABORT"
        \/ h.session = rs /\ rs.pair_type # "TRANSIENT" /\ h.next = "CONTINUE"
        \/ h.session = Ciphered(rs) /\ h.next = "CONTINUE"
    BY DEF PairSetup2Handled, Handled, failed
  <2> HIDE DEF h
  <2>2. Grows(h.session, rs) /\ (h.next = "CONTINUE" => Finished(h.session, seq))
    BY <1>2, <1>3, <1>6, <1>7, <2>1
  <2>3. 2 \in DOMAIN seq_request[seq] /\ 2 = Len(seq_request[seq])
    BY <1>7
  <2>4. HandlesWell(h, seq, 2)
    BY <1>7, <2>1, <2>2, <2>3, SetUpHandled
  <2> QED BY <2>4 DEF h
<1> QED BY <1>8, <1>9 DEF seq

\* SETUP, SETPEERS, SETUP and RECORD: the third answer connects the data socket.
LEMMA PlaybackOrderly ==
  ASSUME NEW rs, Sound(rs), Orderly(rs), NoSetup(rs.requests), NEW i \in 1..5,
         Due(rs, "START_PLAYBACK", i), NEW dev, NEW ans, NEW m, NEW out \in MetadataOutcomes
  PROVE  HandlesWell(ResponseHandled(rs, dev, seq_request["START_PLAYBACK"][i], ans, m, out),
                     "START_PLAYBACK", i)
<1> DEFINE seq == "START_PLAYBACK"
           h == ResponseHandled(rs, dev, seq_request[seq][i], ans, m, out)
           realm == AuthHeaderParse(rs, ans)
           server == [rs EXCEPT !.server = TRUE]
           setup == [rs EXCEPT !.server = TRUE, !.state = "SETUP"]
           record == [rs EXCEPT !.state = "RECORD"]
<1>1. /\ rs \in SessionType /\ Established(rs) /\ Grows(rs, rs)
      /\ i > 3 => rs.server
      /\ ~HasPassword => rs.cipher
  BY DEF Sound, Orderly, Due, Grows
<1>2. /\ seq \in SetupSeqs /\ Len(seq_request[seq]) = 5 /\ DOMAIN seq_request[seq] = 1..5
      /\ "START_PLAYBACK" \in SeqTypes
  BY DEF SetupSeqs, seq_request, SeqTypes
<1>3. ASSUME NEW r, Grows(r, rs), NEW j \in 1..5, j > 3 => r.server
      PROVE  Due(r, seq, j)
  BY <1>1, <1>3 DEF Due, Grows
<1>4. Grows(realm, rs)
  <2>1. (ans.body = "good") \in BOOLEAN /\ realm = [rs EXCEPT !.realm = ans.body = "good"]
    BY DEF AuthHeaderParse
  <2> DEFINE b == (ans.body = "good")
  <2>2. b \in BOOLEAN /\ realm = [rs EXCEPT !.realm = b]
    BY <2>1
  <2> HIDE DEF b, realm
  <2> QED BY <1>1, <2>2 DEF Grows, Established, SessionType
<1>5. Grows(setup, rs) /\ setup.server
  <2>1. Grows(server, rs) /\ server.server
    BY <1>1 DEF Grows, Established, SessionType
  <2>2. setup = [server EXCEPT !.state = "SETUP"] /\ "SETUP" \in States
    BY DEF States
  <2> HIDE DEF server, setup
  <2> QED BY <2>1, <2>2 DEF Grows, Established, SessionType
<1>6. Grows(record, rs) /\ record.server = rs.server
  BY <1>1 DEF Grows, Established, SessionType, States
<1> HIDE DEF realm, server, setup, record, seq
<1>7. CASE i = 1
  <2>1. \/ h.session \in {rs, realm} /\ h.next = "ABORT"
        \/ h.session = realm /\ h.next = "START_PLAYBACK"
        \/ h.session = rs /\ h.next = "CONTINUE"
    BY <1>7 DEF ResponseHandled, SetupSessionHandled, Handled, seq_request, seq, realm
  <2>2. Due(h.session, "START_PLAYBACK", 1) /\ Due(h.session, seq, i + 1) /\ Grows(h.session, rs)
    BY <1>1, <1>3, <1>4, <1>7, <2>1 DEF seq
  <2> HIDE DEF h
  <2>3. HandlesWell(h, seq, i)
    BY <1>1, <1>2, <1>7, <2>1, <2>2, SetUpHandled
  <2> QED BY <2>3 DEF h, seq
<1>8. CASE i = 2
  <2>1. h.session = rs /\ h.next = "CONTINUE"
    BY <1>8 DEF ResponseHandled, Handled, seq_request, seq
  <2>2. Due(h.session, seq, i + 1) /\ Grows(h.session, rs)
    BY <1>1, <1>3, <1>8, <2>1 DEF seq
  <2> HIDE DEF h
  <2>3. HandlesWell(h, seq, i)
    BY <1>1, <1>2, <1>8, <2>1, <2>2, SetUpHandled
  <2> QED BY <2>3 DEF h, seq
<1>9. CASE i = 3
  <2>1. \/ h.session = rs /\ h.next = "ABORT"
        \/ h.session = setup /\ h.next = "CONTINUE"
    BY <1>9 DEF ResponseHandled, SetupStreamHandled, Handled, seq_request, seq, setup
  <2>2. Due(setup, seq, i + 1) /\ Grows(h.session, rs)
    BY <1>1, <1>3, <1>5, <1>9, <2>1 DEF seq
  <2> HIDE DEF h
  <2>3. HandlesWell(h, seq, i)
    BY <1>1, <1>2, <1>9, <2>1, <2>2, SetUpHandled
  <2> QED BY <2>3 DEF h, seq
<1>10. CASE i = 4
  <2>1. h.session = record /\ h.next = "CONTINUE"
    BY <1>10 DEF ResponseHandled, Handled, seq_request, seq, record
  <2>2. Due(h.session, seq, i + 1) /\ Grows(h.session, rs)
    BY <1>1, <1>3, <1>6, <1>10, <2>1 DEF seq
  <2> HIDE DEF h
  <2>3. HandlesWell(h, seq, i)
    BY <1>1, <1>2, <1>10, <2>1, <2>2, SetUpHandled
  <2> QED BY <2>3 DEF h, seq
<1>11. CASE i = 5
  <2> DEFINE r == MetadataSent(rs, out)
  <2>1. h.session \in {rs, r} /\ h.next = "CONTINUE"
    BY <1>11 DEF ResponseHandled, VolumeStartHandled, Handled, seq_request, seq
  <2>2. Orderly(r) /\ r.server = rs.server /\ NoSetup(r.requests)
    BY MetadataSentOrderly
  <2> HIDE DEF h, r
  <2>3. Orderly(h.session) /\ NoSetup(h.session.requests) /\ h.session.server
    BY <1>1, <1>11, <2>1, <2>2
  <2>4. Finished(h.session, seq)
    BY <2>3 DEF Finished, OnSuccess, SeqTypes, seq_request, seq
  <2>5. h.next \notin SeqTypes
    BY <2>1 DEF SeqTypes, seq_request
  <2>6. HandlesWell(h, seq, i)
    BY <1>2, <1>11, <2>1, <2>3, <2>4, <2>5 DEF HandlesWell
  <2> QED BY <2>6 DEF h, seq
<1> QED BY <1>7, <1>8, <1>9, <1>10, <1>11 DEF h, seq

\* The sequences of a single request that change nothing a sequence needs.
PlainSeqs == SeqTypes \ {"START", "PROBE", "PAIR_SETUP", "PAIR_VERIFY", "PAIR_TRANSIENT",
                         "START_PLAYBACK"}

LEMMA PlainOrderly ==
  ASSUME NEW rs \in SessionType, Orderly(rs), NEW seq \in PlainSeqs, Due(rs, seq, 1),
         seq \in SetupSeqs => NoSetup(rs.requests),
         NEW dev, NEW ans, NEW m, NEW out
  PROVE  HandlesWell(ResponseHandled(rs, dev, seq_request[seq][1], ans, m, out), seq, 1)
<1> DEFINE step == seq_request[seq][1]
           h == ResponseHandled(rs, dev, step, ans, m, out)
           at(x) == [rs EXCEPT !.state = x]
<1>1. /\ h.next = "CONTINUE"
      /\ \/ h.session = rs
         \/ h.session = at("CONNECTED") /\ seq = "FLUSH"
         \/ h.session = at("STOPPED")
         \/ h.session = at("AUTH")
  <2>1. /\ step \in {"flush", "teardown", "pin_start", "volume", "progress", "text", "artwork",
                     "feedback"}
        /\ step = "flush" => seq = "FLUSH"
    BY DEF seq_request, SeqTypes, PlainSeqs
  <2> HIDE DEF step
  <2>2. /\ step = "flush" => h = Handled(at("CONNECTED"), dev, "CONTINUE")
        /\ step = "teardown" => h = Handled(at("STOPPED"), dev, "CONTINUE")
        /\ step = "pin_start" => h = Handled(at("AUTH"), dev, "CONTINUE")
        /\ step \in {"volume", "progress", "text", "artwork", "feedback"} =>
             h = Handled(rs, dev, "CONTINUE")
    <3>1. ASSUME step = "flush" PROVE h = Handled(at("CONNECTED"), dev, "CONTINUE")
      BY <3>1 DEF ResponseHandled
    <3>2. ASSUME step = "teardown" PROVE h = Handled(at("STOPPED"), dev, "CONTINUE")
      BY <3>2 DEF ResponseHandled
    <3>3. ASSUME step = "pin_start" PROVE h = Handled(at("AUTH"), dev, "CONTINUE")
      BY <3>3 DEF ResponseHandled
    <3>4. ASSUME step \in {"volume", "progress", "text", "artwork", "feedback"}
          PROVE  h = Handled(rs, dev, "CONTINUE")
      BY <3>4 DEF ResponseHandled
    <3> QED BY <3>1, <3>2, <3>3, <3>4
  <2> HIDE DEF h, at
  <2> QED BY <2>1, <2>2 DEF Handled
<1>2. ASSUME NEW x \in {"CONNECTED", "STOPPED", "AUTH"}, x = "CONNECTED" => rs.server
      PROVE  Orderly(at(x)) /\ at(x).requests = rs.requests
  <2> DEFINE r == at(x)
  <2>1. /\ r \in SessionType /\ r.requests = rs.requests /\ r.server = rs.server
        /\ r.cipher = rs.cipher /\ r.next_seq = rs.next_seq /\ r.pair_type = rs.pair_type
        /\ r.state = x
    BY DEF SessionType, States, Connected, Failed
  <2> HIDE DEF r
  <2>2. Established(r)
    BY <1>2, <2>1 DEF Established
  <2>3. Orderly(r)
    BY <2>1, <2>2, OrderlyKept
  <2> QED BY <2>1, <2>3 DEF r
<1>3. seq = "FLUSH" => rs.server
  BY DEF Due
<1> HIDE DEF h, at, step
<1>4. Orderly(h.session) /\ h.session.requests = rs.requests
  BY <1>1, <1>2, <1>3
<1>5. /\ Len(seq_request[seq]) = 1 /\ seq # "START_PLAYBACK"
      /\ OnSuccess[seq] # "session_pair_success" /\ "CONTINUE" \notin SeqTypes
  BY DEF seq_request, SeqTypes, PlainSeqs, OnSuccess
<1>6. HandlesWell(h, seq, 1)
  BY <1>1, <1>4, <1>5 DEF HandlesWell, Finished
<1> QED BY <1>6 DEF h, step

\* cur_request->response_handler, of any request that was in the queue.
LEMMA ResponseOrderly ==
  ASSUME NEW rs, Sound(rs), Orderly(rs), NEW seq \in SeqTypes,
         NEW i \in DOMAIN seq_request[seq], Due(rs, seq, i),
         seq \in SetupSeqs => NoSetup(rs.requests),
         NEW dev, NEW ans, NEW m, NEW out \in MetadataOutcomes
  PROVE  HandlesWell(ResponseHandled(rs, dev, seq_request[seq][i], ans, m, out), seq, i)
<1> DEFINE h == ResponseHandled(rs, dev, seq_request[seq][i], ans, m, out)
<1>1. rs \in SessionType
  BY DEF Sound
<1>2. CASE seq \in {"START", "PROBE"}
  <2>1. /\ i = 1 /\ NoSetup(rs.requests) /\ (~HasPassword => rs.next_seq = "CONTINUE")
        /\ seq = "START" => h = InfoStartHandled(rs, dev, ans)
        /\ seq = "PROBE" => h = InfoProbeHandled(rs, dev, ans)
    BY <1>2 DEF seq_request, SetupSeqs, Due, ResponseHandled
  <2> HIDE DEF h
  <2>2. HandlesWell(h, seq, i)
    BY <1>1, <1>2, <2>1, InfoOrderly
  <2> QED BY <2>2 DEF h
<1>3. CASE seq = "PAIR_SETUP"
  <2>1. /\ i \in 1..3 /\ NoSetup(rs.requests) /\ Due(rs, "PAIR_SETUP", 1)
        /\ i = 1 => h = PairSetup1Handled(rs, dev, ans)
        /\ i = 2 => h = PairSetup2Handled(rs, dev, ans)
        /\ i = 3 => h = PairSetup3Handled(rs, dev, ans)
    BY <1>3 DEF seq_request, SetupSeqs, Due, ResponseHandled
  <2> HIDE DEF h
  <2>2. /\ HandlesWell(PairSetup1Handled(rs, dev, ans), "PAIR_SETUP", 1)
        /\ HandlesWell(PairSetup2Handled(rs, dev, ans), "PAIR_SETUP", 2)
        /\ HandlesWell(PairSetup3Handled(rs, dev, ans), "PAIR_SETUP", 3)
    BY <1>1, <2>1, PairSetupOrderly
  <2>3. HandlesWell(h, seq, i)
    BY <1>3, <2>1, <2>2
  <2> QED BY <2>3 DEF h
<1>4. CASE seq = "PAIR_VERIFY"
  <2>1. /\ i \in 1..2 /\ NoSetup(rs.requests)
        /\ i = 1 => h = PairVerify1Handled(rs, dev, ans)
        /\ i = 2 => h = PairVerify2Handled(rs, dev, ans)
    BY <1>4 DEF seq_request, SetupSeqs, ResponseHandled
  <2> HIDE DEF h
  <2>2. /\ HandlesWell(PairVerify1Handled(rs, dev, ans), "PAIR_VERIFY", 1)
        /\ HandlesWell(PairVerify2Handled(rs, dev, ans), "PAIR_VERIFY", 2)
    BY <1>1, <2>1, PairVerifyOrderly
  <2>3. HandlesWell(h, seq, i)
    BY <1>4, <2>1, <2>2
  <2> QED BY <2>3 DEF h
<1>5. CASE seq = "PAIR_TRANSIENT"
  <2>1. /\ i \in 1..2 /\ NoSetup(rs.requests) /\ Due(rs, "PAIR_TRANSIENT", 1)
        /\ i = 1 => h = PairSetup1Handled(rs, dev, ans)
        /\ i = 2 => h = PairSetup2Handled(rs, dev, ans)
    BY <1>5 DEF seq_request, SetupSeqs, Due, ResponseHandled
  <2> HIDE DEF h
  <2>2. /\ HandlesWell(PairSetup1Handled(rs, dev, ans), "PAIR_TRANSIENT", 1)
        /\ HandlesWell(PairSetup2Handled(rs, dev, ans), "PAIR_TRANSIENT", 2)
    BY <1>1, <2>1, TransientOrderly
  <2>3. HandlesWell(h, seq, i)
    BY <1>5, <2>1, <2>2
  <2> QED BY <2>3 DEF h
<1>6. CASE seq = "START_PLAYBACK"
  <2>1. i \in 1..5 /\ NoSetup(rs.requests)
    BY <1>6 DEF seq_request, SetupSeqs
  <2> QED BY <1>6, <2>1, PlaybackOrderly
<1>7. CASE seq \in PlainSeqs
  <2>1. i = 1
    BY <1>7 DEF seq_request, PlainSeqs, SeqTypes
  <2> QED BY <1>1, <1>7, <2>1, PlainOrderly
<1> QED BY <1>2, <1>3, <1>4, <1>5, <1>6, <1>7 DEF PlainSeqs

\* START_PLAYBACK is on its way: what next_seq is told apart for is no more needed.
LEMMA ContinueOrderly ==
  ASSUME NEW rs \in SessionType, Orderly(rs)
  PROVE  Orderly([rs EXCEPT !.next_seq = "CONTINUE"])
<1> DEFINE r == [rs EXCEPT !.next_seq = "CONTINUE"]
<1>1. /\ r.requests = rs.requests /\ r.server = rs.server /\ r.cipher = rs.cipher
      /\ r.next_seq = "CONTINUE" /\ r.pair_type = rs.pair_type /\ r.state = rs.state
  BY DEF SessionType
<1> HIDE DEF r
<1>2. \A seq, i : Due(rs, seq, i) => Due(r, seq, i)
  BY <1>1 DEF Due
<1>3. Orderly(r)
  BY <1>1, <1>2 DEF Orderly, Established, Alone
<1> QED BY <1>3 DEF r

\* A session just made: nothing is queued.
LEMMA NewSessionOrderly ==
  ASSUME NEW f \in {"v4", "v6"}, NEW c \in Callbacks \cup {NoCallback}
  PROVE  LET n == NewSession(f, c)
         IN  /\ n \in SessionType /\ Orderly(n) /\ NoSetup(n.requests)
             /\ \A seq \in {"START", "PROBE", "PAIR_SETUP"} : Due(n, seq, 1)
<1> DEFINE n == NewSession(f, c)
<1>1. n \in SessionType
  BY NewSessionSound DEF Sound
<1>2. n.requests = <<>> /\ n.next_seq = "CONTINUE" /\ n.state = "STOPPED"
  BY DEF NewSession
<1> HIDE DEF n
<1>3. Orderly(n) /\ NoSetup(n.requests)
  BY <1>2 DEF Orderly, Established, Alone, NoSetup
<1>4. \A seq \in {"START", "PROBE", "PAIR_SETUP"} : Due(n, seq, 1)
  BY <1>2 DEF Due
<1> QED BY <1>1, <1>3, <1>4 DEF n

-----------------------------------------------------------------------------
(***************************************************************************)
(* The same of the events of the sessions, and the invariants of all.      *)
(***************************************************************************)
\* What an event of the session at s, which owes the callback id, comes to: the
\* session goes on; or it reports, and goes on or ends; or, only for a device
\* without an IPv4 address, it is gone unreported.
Ended(s, id) ==
  \/ \E r : /\ Sound(r) /\ r.callback_id = id
            /\ session' = [session EXCEPT ![s] = r] /\ calls' = calls
  \/ \E r, x : /\ r \in SessionType /\ r.callback_id = id /\ calls' = Told(r)
               /\ x = NoSession \/ (Sound(x) /\ x.callback_id = NoCallback)
               /\ session' = [session EXCEPT ![s] = x]
  \/ /\ "v4" \notin device.addresses
     /\ session' = [session EXCEPT ![s] = NoSession] /\ calls' = calls

\* The device stays in type and at its addresses, and gets a session only if
\* sessions are registered; and the program goes on, or has a fault.
DeviceKept ==
  /\ device' \in DeviceType /\ device'.addresses = device.addresses
  /\ ~SessionRegistered /\ device.session = NoSession => device'.session = NoSession
  /\ phase' \in {phase, "faulted"}

-----------------------------------------------------------------------------

LEMMA DeviceSame ==
  ASSUME NEW dev, device \in DeviceType, Same(dev, device)
  PROVE  /\ dev \in DeviceType /\ dev.addresses = device.addresses
         /\ dev.addresses \subseteq {"v4", "v6"}
         /\ Same(dev, dev)
  BY SessionAssumption DEF Same, DeviceType

LEMMA RegistryKept ==
  ASSUME NEW dev \in DeviceType, NEW s \in Sessions
  PROVE  /\ Unregistered(dev) \in DeviceType /\ Unregistered(dev).addresses = dev.addresses
         /\ Unregistered(dev).session \in {NoSession, dev.session}
         /\ Registered(dev, s) \in DeviceType /\ Registered(dev, s).addresses = dev.addresses
         /\ ~SessionRegistered => Registered(dev, s).session = dev.session
  BY DEF Unregistered, Registered, DeviceType

LEMMA SuccessEnded ==
  ASSUME NEW s \in Sessions, NEW rs \in SessionType, NEW dev, device \in DeviceType,
         Same(dev, device), Success(s, rs, dev)
  PROVE  Ended(s, rs.callback_id) /\ DeviceKept
<1>1. /\ calls' = Told(rs) /\ session' = [session EXCEPT ![s] = NoSession]
      /\ device' = Unregistered(dev) /\ phase' \in {phase, "faulted"}
  BY DEF Success, SessionCleanup, FreeRequests
<1>2. Ended(s, rs.callback_id)
  BY <1>1 DEF Ended
<1>3. DeviceKept
  BY <1>1, DeviceSame, RegistryKept DEF DeviceKept, Same
<1> QED BY <1>2, <1>3

LEMMA FailureEnded ==
  ASSUME NEW s \in Sessions, NEW rs \in SessionType, NEW dev, device \in DeviceType,
         Same(dev, device), Failure(s, rs, dev)
  PROVE  Ended(s, rs.callback_id) /\ DeviceKept
<1> DEFINE r == [rs EXCEPT !.state = FailedState(@)]
<1>1. r \in SessionType /\ r.callback_id = rs.callback_id
  BY DEF FailedState, SessionType, States, Connected, Failed
<1>2. Success(s, r, dev)
  BY DEF Failure
<1> HIDE DEF r
<1> QED BY <1>1, <1>2, SuccessEnded

LEMMA StartFailureEnded ==
  ASSUME NEW s \in Sessions, NEW rs \in SessionType, NEW dev, device \in DeviceType,
         Same(dev, device), StartFailure(s, rs, dev)
  PROVE  Ended(s, rs.callback_id) /\ DeviceKept
<1> DEFINE d == IF dev.listed /\ dev.auth_key
                THEN [dev EXCEPT !.auth_key = FALSE, !.requires_auth = TRUE] ELSE dev
<1>1. Same(d, device) /\ Failure(s, rs, d)
  BY DEF StartFailure, Same, DeviceType
<1> HIDE DEF d
<1> QED BY <1>1, FailureEnded

LEMMA StatusEnded ==
  ASSUME NEW s \in Sessions, NEW rs, Sound(rs), NEW dev, device \in DeviceType,
         Same(dev, device), Status(s, rs, dev), phase' = phase
  PROVE  Ended(s, rs.callback_id) /\ DeviceKept
<1> DEFINE x == [rs EXCEPT !.callback_id = NoCallback]
<1>1. rs \in SessionType
  BY DEF Sound
<1>2. /\ x \in SessionType /\ x.requests = rs.requests /\ x.con = rs.con
      /\ x.reqs_in_flight = rs.reqs_in_flight /\ x.closecb = rs.closecb
      /\ x.callback_id = NoCallback
  BY <1>1 DEF SessionType
<1>3. session' = [session EXCEPT ![s] = x] /\ calls' = Told(rs) /\ device' = dev
  BY DEF Status
<1> HIDE DEF x
<1>4. Sound(x)
  BY <1>2, Kept
<1>5. Ended(s, rs.callback_id)
  BY <1>1, <1>2, <1>3, <1>4 DEF Ended
<1>6. DeviceKept
  BY <1>3, DeviceSame DEF DeviceKept, Same
<1> QED BY <1>5, <1>6

\* start_retry: another session takes the place, the address and the callback.
LEMMA StartRetryEnded ==
  ASSUME NEW s \in Sessions, NEW rs \in SessionType, NEW dev, device \in DeviceType,
         Same(dev, device), NEW out \in Outcomes, StartRetry(s, rs, dev, out)
  PROVE  Ended(s, rs.callback_id) /\ DeviceKept
<1> DEFINE d == [Unregistered(dev) EXCEPT !.v6_disabled = TRUE]
<1>1. CASE Failure(s, rs, dev)
  BY <1>1, FailureEnded
<1>2. CASE Restarted(s, d, rs.callback_id, out) /\ FreeRequests(rs) /\ UNCHANGED calls
  <2>1. /\ d \in DeviceType /\ d.addresses = device.addresses
        /\ d.session \in {NoSession, dev.session}
    <3>1. /\ Unregistered(dev) \in DeviceType
          /\ Unregistered(dev).addresses = dev.addresses
          /\ Unregistered(dev).session \in {NoSession, dev.session}
      BY DeviceSame, RegistryKept
    <3> HIDE DEF d
    <3>2. d = [Unregistered(dev) EXCEPT !.v6_disabled = TRUE]
      BY DEF d
    <3> QED BY <3>1, <3>2, DeviceSame DEF DeviceType
  <2> HIDE DEF d
  <2>2. dev.session = device.session /\ d.addresses \subseteq {"v4", "v6"}
    BY <2>1, DeviceSame DEF Same
  <2>3. rs.callback_id \in Callbacks \cup {NoCallback}
    BY DEF SessionType
  <2>4. phase' \in {phase, "faulted"}
    BY <1>2 DEF FreeRequests
  <2>5. CASE "v4" \notin d.addresses /\ session' = [session EXCEPT ![s] = NoSession]
             /\ device' = d
    <3>1. Ended(s, rs.callback_id)
      BY <1>2, <2>1, <2>5 DEF Ended
    <3> QED BY <2>1, <2>2, <2>4, <2>5, <3>1 DEF DeviceKept
  <2>6. ASSUME NEW f \in d.addresses,
               MayEnd(NewSession(f, rs.callback_id), "START", 1, out),
               session' = [session EXCEPT ![s] =
                             SequenceStart(NewSession(f, rs.callback_id), "START", out)],
               device' = Registered(d, s)
        PROVE  Ended(s, rs.callback_id) /\ DeviceKept
    <3> DEFINE n == NewSession(f, rs.callback_id)
               r == SequenceStart(n, "START", out)
    <3>1. Sound(n) /\ n.con = "DISCONNECTED" /\ n.callback_id = rs.callback_id
      BY <2>2, <2>3, <2>6, NewSessionSound
    <3>2. "START" \in SeqTypes
      BY DEF SeqTypes, seq_request
    <3> HIDE DEF n
    <3>3. Sound(r) /\ r.callback_id = rs.callback_id
      BY <3>1, <3>2, SequenceStartSound
    <3>4. session' = [session EXCEPT ![s] = r]
      BY <2>6 DEF n
    <3> HIDE DEF r
    <3>5. Ended(s, rs.callback_id)
      BY <1>2, <3>3, <3>4 DEF Ended
    <3>6. DeviceKept
      BY <2>1, <2>2, <2>4, <2>6, RegistryKept DEF DeviceKept
    <3> QED BY <3>5, <3>6
  <2> QED BY <1>2, <2>5, <2>6 DEF Restarted
<1> QED BY <1>1, <1>2 DEF StartRetry

\* seq_ctx->on_error, whichever it is.
LEMMA ErroredEnded ==
  ASSUME NEW s \in Sessions, NEW rs \in SessionType, NEW dev, device \in DeviceType,
         Same(dev, device), NEW seq, NEW out \in Outcomes, Errored(s, rs, dev, seq, out)
  PROVE  Ended(s, rs.callback_id) /\ DeviceKept
<1>1. StartRetry(s, rs, dev, out) \/ StartFailure(s, rs, dev) \/ Failure(s, rs, dev)
  BY DEF Errored
<1> QED BY <1>1, StartRetryEnded, StartFailureEnded, FailureEnded

\* A session that goes on with a sequence of its own.
LEMMA GoesOn ==
  ASSUME NEW s \in Sessions, NEW id, NEW r, Sound(r), r.callback_id = id,
         NEW dev, device \in DeviceType, Same(dev, device),
         session' = [session EXCEPT ![s] = r], device' = dev, UNCHANGED <<calls, phase>>
  PROVE  Ended(s, id) /\ DeviceKept
<1>1. Ended(s, id)
  BY DEF Ended
<1>2. DeviceKept
  BY DeviceSame DEF DeviceKept, Same
<1> QED BY <1>1, <1>2

LEMMA PairSuccessEnded ==
  ASSUME NEW s \in Sessions, NEW rs, Sound(rs), NEW dev, device \in DeviceType,
         Same(dev, device), NEW out \in Outcomes, PairSuccess(s, rs, dev, out)
  PROVE  Ended(s, rs.callback_id) /\ DeviceKept
<1>1. rs \in SessionType /\ rs.next_seq \in {"CONTINUE", "START_PLAYBACK"}
  BY DEF Sound, SessionType
<1>2. CASE Success(s, rs, dev)
  BY <1>1, <1>2, SuccessEnded
<1>3. CASE /\ rs.next_seq # "CONTINUE" /\ MayEnd(rs, rs.next_seq, 1, out)
           /\ session' = [session EXCEPT ![s] =
                            [SequenceStart(rs, rs.next_seq, out) EXCEPT !.next_seq = "CONTINUE"]]
           /\ device' = dev
           /\ UNCHANGED <<calls, phase>>
  <2> DEFINE q == SequenceStart(rs, rs.next_seq, out)
             r == [q EXCEPT !.next_seq = "CONTINUE"]
  <2>1. rs.next_seq \in SeqTypes
    BY <1>1, <1>3 DEF SeqTypes, seq_request
  <2>2. out = "refused" => rs.con = "DISCONNECTED"
    BY <1>3 DEF MayEnd
  <2>3. Sound(q) /\ q.callback_id = rs.callback_id
    BY <2>1, <2>2, SequenceStartSound
  <2> HIDE DEF q
  <2>4. Frame(r, q)
    BY <2>3 DEF Sound, SessionType, Frame
  <2>5. session' = [session EXCEPT ![s] = r]
    BY <1>3 DEF q
  <2> HIDE DEF r
  <2>6. Sound(r) /\ r.callback_id = rs.callback_id
    BY <2>3, <2>4, FrameSound
  <2> QED BY <1>3, <2>5, <2>6, GoesOn
<1> QED BY <1>2, <1>3 DEF PairSuccess

\* seq_ctx->on_success, whichever it is.
LEMMA SucceededEnded ==
  ASSUME NEW s \in Sessions, NEW rs, Sound(rs), NEW dev, device \in DeviceType,
         Same(dev, device), NEW seq, NEW out \in Outcomes, Succeeded(s, rs, dev, seq, out)
  PROVE  Ended(s, rs.callback_id) /\ DeviceKept
<1> DEFINE c == [rs EXCEPT !.state = "CONNECTED"]
<1>1. rs \in SessionType /\ "CONNECTED" \in States
  BY DEF Sound, States, Connected
<1>2. Sound(c) /\ c.callback_id = rs.callback_id
  BY <1>1, Unhandled, Fields, FrameSound, Kept DEF Frame, SessionType
<1>3. \/ PairSuccess(s, rs, dev, out)
      \/ Success(s, rs, dev)
      \/ Status(s, c, dev) /\ UNCHANGED phase
      \/ Status(s, rs, dev) /\ UNCHANGED phase
      \/ /\ session' = [session EXCEPT ![s] = rs]
         /\ device' = dev
         /\ UNCHANGED <<calls, phase>>
  BY DEF Succeeded
<1> HIDE DEF c
<1>4. CASE PairSuccess(s, rs, dev, out)
  BY <1>4, PairSuccessEnded
<1>5. CASE Success(s, rs, dev)
  BY <1>1, <1>5, SuccessEnded
<1>6. CASE Status(s, c, dev) /\ UNCHANGED phase
  BY <1>2, <1>6, StatusEnded
<1>7. CASE Status(s, rs, dev) /\ UNCHANGED phase
  BY <1>7, StatusEnded
<1>8. CASE /\ session' = [session EXCEPT ![s] = rs]
           /\ device' = dev
           /\ UNCHANGED <<calls, phase>>
  BY <1>8, GoesOn
<1> QED BY <1>3, <1>4, <1>5, <1>6, <1>7, <1>8

\* sequence_continue_cb with an answer: the head of the queue is dequeued, its
\* handler runs, and the sequence goes on, ends, or gives way to another.
LEMMA AnsweredEnded ==
  ASSUME NEW s \in Sessions, Sound(session[s]), session[s].requests # <<>>,
         device \in DeviceType, NEW con \in ConStates,
         con = "IDLE" => Tail(session[s].requests) = <<>>,
         con \in {"BUSY", "CONNECTING"} => Tail(session[s].requests) # <<>>,
         NEW ans, Answered(s, con, ans)
  PROVE  Ended(s, session[s].callback_id) /\ DeviceKept
<1> DEFINE req == Head(session[s].requests)
           step == seq_request[req.seq][req.step]
           rs == Dequeued(session[s], con)
           h(mout) == ResponseHandled(rs, device, step, ans, metadata, mout)
           id == session[s].callback_id
<1>1. ~req.freed /\ req.seq \in SeqTypes /\ req.step \in DOMAIN seq_request[req.seq]
  <2>1. session[s].requests \in Seq(RequestType)
    BY DEF Sound, SessionType
  <2>2. /\ req \in RequestType /\ req = session[s].requests[1]
        /\ 1 \in DOMAIN session[s].requests
    BY <2>1, HeadTailProperties, EmptySeq, LenProperties
  <2> QED BY <2>2 DEF Answered, RequestType, Sound, Placed
<1>2. Sound(rs) /\ rs.callback_id = id /\ rs \in SessionType
  BY <1>1, DequeuedSound DEF Sound
<1>3. Same(device, device)
  BY DEF Same
<1>4. PICK out \in Outcomes, mout \in MetadataOutcomes :
        \/ Errored(s, rs, device, req.seq, out)
        \/ Errored(s, h(mout).session, h(mout).device, req.seq, out)
        \/ /\ h(mout).next \in SeqTypes
           /\ MayEnd(h(mout).session, h(mout).next, 1, out)
           /\ session' = [session EXCEPT ![s] =
                            SequenceStart(h(mout).session, h(mout).next, out)]
           /\ device' = h(mout).device
           /\ UNCHANGED <<calls, phase>>
        \/ /\ req.step < Len(seq_request[req.seq])
           /\ MayEnd(h(mout).session, req.seq, req.step + 1, out)
           /\ session' = [session EXCEPT ![s] =
                            SequenceContinue(h(mout).session, req.seq, req.step + 1, out)]
           /\ device' = h(mout).device
           /\ UNCHANGED <<calls, phase>>
        \/ Succeeded(s, h(mout).session, h(mout).device, req.seq, out)
  BY DEF Answered
<1> DEFINE r == h(mout).session
           d == h(mout).device
           next == h(mout).next
<1>5. Sound(r) /\ r.callback_id = id /\ Same(d, device) /\ r \in SessionType
  <2> HIDE DEF rs, step, id
  <2>1. Sound(h(mout).session) /\ h(mout).session.callback_id = rs.callback_id
        /\ Same(h(mout).device, device)
    BY <1>2, ResponseSound
  <2> QED BY <1>2, <2>1 DEF Sound
<1> HIDE DEF r, d, next
<1>6. CASE Errored(s, rs, device, req.seq, out)
  <2> HIDE DEF rs, req
  <2> QED BY <1>2, <1>3, <1>6, ErroredEnded
<1>7. CASE Errored(s, r, d, req.seq, out)
  <2> HIDE DEF req
  <2> QED BY <1>5, <1>7, ErroredEnded
<1>8. CASE /\ next \in SeqTypes /\ MayEnd(r, next, 1, out)
           /\ session' = [session EXCEPT ![s] = SequenceStart(r, next, out)]
           /\ device' = d
           /\ UNCHANGED <<calls, phase>>
  <2>1. out = "refused" => r.con = "DISCONNECTED"
    BY <1>8 DEF MayEnd
  <2>2. Sound(SequenceStart(r, next, out)) /\ SequenceStart(r, next, out).callback_id = id
    BY <1>5, <1>8, <2>1, SequenceStartSound
  <2> QED BY <1>5, <1>8, <2>2, GoesOn
<1>9. CASE /\ req.step < Len(seq_request[req.seq])
           /\ MayEnd(r, req.seq, req.step + 1, out)
           /\ session' = [session EXCEPT ![s] = SequenceContinue(r, req.seq, req.step + 1, out)]
           /\ device' = d
           /\ UNCHANGED <<calls, phase>>
  <2> HIDE DEF req
  <2> DEFINE q == SequenceContinue(r, req.seq, req.step + 1, out)
  <2>1. out = "refused" => r.con = "DISCONNECTED"
    BY <1>9 DEF MayEnd
  <2>2. req.step + 1 \in DOMAIN seq_request[req.seq]
    BY <1>1, <1>9, StepsBound
  <2>3. Sound(q) /\ q.callback_id = id
    BY <1>1, <1>5, <2>1, <2>2, SequenceContinueSound
  <2> QED BY <1>5, <1>9, <2>3, GoesOn
<1>10. CASE Succeeded(s, r, d, req.seq, out)
  <2> HIDE DEF req
  <2> QED BY <1>5, <1>10, SucceededEnded
<1> QED BY <1>4, <1>6, <1>7, <1>8, <1>9, <1>10 DEF r, d, next

-----------------------------------------------------------------------------
(* The inductive invariant *)

SessionsSound(f) ==
  /\ f \in [Sessions -> SessionType \cup {NoSession}]
  /\ \A t \in Sessions : f[t] = NoSession \/ Sound(f[t])

CallsType == [Callbacks -> Seq({OutputState[x] : x \in States})]

\* TypeOK and RequestsCounted, session by session.
Core ==
  /\ SessionsSound(session)
  /\ device \in DeviceType
  /\ issued \in 0..MaxCallbacks
  /\ calls \in CallsType
  /\ metadata \in BOOLEAN /\ keep_alive \in BOOLEAN
  /\ phase \in {"up", "down", "faulted"}

LEMMA CoreForm == Core <=> TypeOK /\ RequestsCounted
<1>1. Core => TypeOK
  BY DEF Core, TypeOK, SessionsSound, Sound, Placed, Live, DeviceType, CallsType
<1>2. Core => RequestsCounted
  BY DEF Core, RequestsCounted, SessionsSound, Sound, Counted, Live
<1>3. TypeOK /\ RequestsCounted => Core
  BY DEF Core, TypeOK, RequestsCounted, SessionsSound, Sound, Placed, Counted, Live,
         DeviceType, CallsType
<1> QED BY <1>1, <1>2, <1>3

LEMMA InitCore == Init => Core
<1> SUFFICES ASSUME Init PROVE Core
  OBVIOUS
<1>1. SessionsSound(session)
  BY DEF Init, SessionsSound
<1>2. device \in DeviceType
  BY DEF Init, DeviceType
<1>3. calls \in CallsType
  BY EmptySeq DEF Init, CallsType
<1>4. issued \in 0..MaxCallbacks
  BY SessionAssumption DEF Init
<1> QED BY <1>1, <1>2, <1>3, <1>4 DEF Init, Core

LEMMA SessionChanged ==
  ASSUME NEW f, SessionsSound(f), NEW s \in Sessions, NEW x, x = NoSession \/ Sound(x)
  PROVE  SessionsSound([f EXCEPT ![s] = x])
  BY DEF SessionsSound, Sound

LEMMA ToldType ==
  ASSUME NEW r \in SessionType, calls \in CallsType
  PROVE  Told(r) \in CallsType
<1> DEFINE id == r.callback_id
           S == {OutputState[x] : x \in States}
<1>1. CASE id = NoCallback
  BY <1>1 DEF Told
<1>2. CASE id # NoCallback
  <2>1. id \in Callbacks /\ OutputState[r.state] \in S
    BY <1>2 DEF SessionType
  <2> HIDE DEF id, S
  <2>2. calls[id] \in Seq(S)
    BY <2>1 DEF CallsType, S
  <2>3. Append(calls[id], OutputState[r.state]) \in Seq(S)
    BY <2>1, <2>2, AppendProperties
  <2>4. Told(r) = [calls EXCEPT ![id] = Append(calls[id], OutputState[r.state])]
    BY <1>2 DEF Told, id
  <2> QED BY <2>1, <2>3, <2>4 DEF CallsType, S
<1> QED BY <1>1, <1>2

LEMMA EndedCore ==
  ASSUME Core, NEW s \in Sessions, NEW id, Ended(s, id), DeviceKept,
         UNCHANGED <<issued, metadata, keep_alive>>
  PROVE  Core'
<1>1. SessionsSound(session)
  BY DEF Core
<1>2. SessionsSound(session')
  BY <1>1, SessionChanged DEF Ended
<1>3. calls' \in CallsType
  BY ToldType DEF Ended, Core
<1> QED BY <1>2, <1>3 DEF Core, DeviceKept

-----------------------------------------------------------------------------
(* The kinds of steps *)

\* A callback is promised: to a new session, or to the device's.
Asked ==
  \E s \in Sessions, c \in Callbacks, r \in SessionType :
    /\ Issue(c)
    /\ s \notin Live \/ device.session = s
    /\ Sound(r) /\ r.callback_id = c
    /\ session' = [session EXCEPT ![s] = r] /\ calls' = calls
    /\ DeviceKept /\ phase' = phase /\ UNCHANGED <<metadata, keep_alive>>

\* An event of one session.
Event ==
  /\ \E s \in Live : Ended(s, session[s].callback_id)
  /\ DeviceKept /\ UNCHANGED <<issued, metadata, keep_alive>>

\* The sessions remain, each with the callback it owes.
Stays ==
  /\ SessionsSound(session')
  /\ \A t \in Sessions :
       \/ session[t] = NoSession /\ session'[t] = NoSession
       \/ /\ session[t] # NoSession /\ session'[t] # NoSession
          /\ session'[t].callback_id = session[t].callback_id
  /\ DeviceKept /\ UNCHANGED <<issued, calls>>
  /\ metadata' \in BOOLEAN /\ keep_alive' \in BOOLEAN

LEMMA CoreFields ==
  ASSUME Core
  PROVE  /\ SessionsSound(session) /\ device \in DeviceType /\ device.addresses \subseteq {"v4", "v6"}
         /\ issued \in 0..MaxCallbacks /\ calls \in CallsType
         /\ metadata \in BOOLEAN /\ keep_alive \in BOOLEAN
         /\ phase \in {"up", "down", "faulted"}
         /\ \A s \in Live : s \in Sessions /\ Sound(session[s]) /\ session[s] \in SessionType
         /\ Same(device, device)
  BY SessionAssumption DEF Core, SessionsSound, Live, DeviceType, Sound, Same

LEMMA OpenAsked ==
  ASSUME Core, NEW seq \in SeqTypes, NEW out \in Outcomes, Open(seq, out)
  PROVE  Asked
<1>1. PICK s \in Sessions \ Live, f \in device.addresses, c \in Callbacks :
        /\ Issue(c)
        /\ MayEnd(NewSession(f, c), seq, 1, out)
        /\ session' = [session EXCEPT ![s] = SequenceStart(NewSession(f, c), seq, out)]
        /\ device' = Registered(device, s)
        /\ UNCHANGED <<calls, metadata, keep_alive, phase>>
  BY DEF Open
<1> DEFINE n == NewSession(f, c)
           r == SequenceStart(n, seq, out)
<1>2. Sound(n) /\ n.con = "DISCONNECTED" /\ n.callback_id = c
  BY CoreFields, NewSessionSound
<1> HIDE DEF n
<1>3. Sound(r) /\ r.callback_id = c
  BY <1>2, SequenceStartSound
<1>4. session' = [session EXCEPT ![s] = r]
  BY <1>1 DEF n
<1>5. DeviceKept
  BY <1>1, CoreFields, RegistryKept DEF DeviceKept
<1> HIDE DEF r
<1>6. r \in SessionType
  BY <1>3 DEF Sound
<1> QED BY <1>1, <1>3, <1>4, <1>5, <1>6 DEF Asked

LEMMA DeviceUnchanged ==
  ASSUME Core, device' = device, phase' \in {phase, "faulted"}
  PROVE  DeviceKept
  BY CoreFields DEF DeviceKept

LEMMA CommandAsked ==
  ASSUME Core, NEW s \in Live, device.session = s, NEW seq \in SeqTypes,
         NEW out \in Outcomes, Command(s, seq, out)
  PROVE  Asked
<1> DEFINE rs(c) == [session[s] EXCEPT !.callback_id = c]
<1>1. PICK c \in Callbacks :
        /\ Issue(c)
        /\ MayEnd(rs(c), seq, 1, out)
        /\ session' = [session EXCEPT ![s] = SequenceStart(rs(c), seq, out)]
        /\ UNCHANGED <<device, calls, metadata, keep_alive, phase>>
  BY DEF Command
<1> DEFINE n == rs(c)
           r == SequenceStart(n, seq, out)
<1>2. Sound(n) /\ n.callback_id = c
  <2>1. session[s] \in SessionType /\ Sound(session[s])
    BY CoreFields
  <2>2. /\ n \in SessionType /\ n.requests = session[s].requests /\ n.con = session[s].con
        /\ n.reqs_in_flight = session[s].reqs_in_flight /\ n.closecb = session[s].closecb
        /\ n.callback_id = c
    BY <2>1 DEF SessionType
  <2> HIDE DEF n
  <2> QED BY <2>1, <2>2, Kept
<1>3. MayEnd(n, seq, 1, out) /\ session' = [session EXCEPT ![s] = r]
  BY <1>1
<1> HIDE DEF n
<1>4. Sound(r) /\ r.callback_id = c
  BY <1>2, <1>3, SequenceStartSound DEF MayEnd
<1> HIDE DEF r
<1>5. DeviceKept
  BY <1>1, DeviceUnchanged
<1>6. r \in SessionType
  BY <1>4 DEF Sound
<1> QED BY <1>1, <1>3, <1>4, <1>5, <1>6, CoreFields DEF Asked

LEMMA CbSetAsked == ASSUME Core, DeviceCbSet PROVE Asked
<1>1. PICK s \in Live, c \in Callbacks :
        /\ device.session = s
        /\ Issue(c)
        /\ session' = [session EXCEPT ![s].callback_id = c]
        /\ UNCHANGED <<device, calls, metadata, keep_alive, phase>>
  BY DEF DeviceCbSet
<1> DEFINE r == [session[s] EXCEPT !.callback_id = c]
<1>2. session[s] \in SessionType /\ Sound(session[s])
  BY CoreFields
<1>3. /\ r \in SessionType /\ r.requests = session[s].requests /\ r.con = session[s].con
      /\ r.reqs_in_flight = session[s].reqs_in_flight /\ r.closecb = session[s].closecb
      /\ r.callback_id = c
  BY <1>2 DEF SessionType
<1>4. session' = [session EXCEPT ![s] = r]
  BY <1>1
<1> HIDE DEF r
<1>5. Sound(r)
  BY <1>2, <1>3, Kept
<1>6. DeviceKept
  BY <1>1, DeviceUnchanged
<1> QED BY <1>1, <1>3, <1>4, <1>5, <1>6, CoreFields DEF Asked

LEMMA RequestDoneEvent == ASSUME Core, NEW s \in Sessions, RequestDone(s) PROVE Event
<1>1. s \in Live /\ session[s].con = "BUSY"
  BY DEF RequestDone, Waiting
<1>2. Sound(session[s]) /\ session[s].requests # <<>> /\ device \in DeviceType
  BY <1>1, CoreFields DEF Sound, Counted
<1> DEFINE con == NextOn(Tail(session[s].requests))
<1>3. /\ con \in ConStates
      /\ con = "IDLE" => Tail(session[s].requests) = <<>>
      /\ con \in {"BUSY", "CONNECTING"} => Tail(session[s].requests) # <<>>
  BY DEF NextOn, ConStates
<1>4. PICK ans : Answered(s, con, ans)
  BY DEF RequestDone
<1> HIDE DEF con
<1>5. Ended(s, session[s].callback_id) /\ DeviceKept
  BY <1>2, <1>3, <1>4, AnsweredEnded
<1> QED BY <1>1, <1>5 DEF Event, RequestDone

LEMMA RequestFailedEvent == ASSUME Core, NEW s \in Sessions, RequestFailed(s) PROVE Event
<1>1. s \in Live /\ session[s].con = "BUSY"
  BY DEF RequestFailed, Waiting
<1>2. /\ Sound(session[s]) /\ session[s].requests # <<>> /\ Same(device, device)
      /\ device \in DeviceType
  BY <1>1, CoreFields DEF Sound, Counted
<1> DEFINE con == IF Tail(session[s].requests) = <<>> THEN "DISCONNECTED" ELSE "CONNECTING"
           rs == Reset(session[s])
           r == Dequeued(rs, con)
<1>3. /\ ~Head(session[s].requests).freed
      /\ \E out \in Outcomes : Errored(s, r, device, Head(session[s].requests).seq, out)
  BY DEF RequestFailed
<1>4. /\ Sound(rs) /\ rs.requests = session[s].requests
      /\ rs.callback_id = session[s].callback_id
  BY <1>2, ResetSound
<1> HIDE DEF rs
<1>5. Sound(r) /\ r.callback_id = session[s].callback_id /\ r \in SessionType
  <2>1. /\ con \in ConStates /\ con # "IDLE"
        /\ con \in {"BUSY", "CONNECTING"} => Tail(rs.requests) # <<>>
    BY <1>4 DEF ConStates
  <2> HIDE DEF con
  <2> QED BY <1>2, <1>3, <1>4, <2>1, DequeuedSound DEF Sound
<1> HIDE DEF r
<1>6. Ended(s, session[s].callback_id) /\ DeviceKept
  BY <1>2, <1>3, <1>5, ErroredEnded
<1> QED BY <1>1, <1>6 DEF Event, RequestFailed

LEMMA FailureTimerEvent == ASSUME Core, NEW s \in Sessions, FailureTimer(s) PROVE Event
<1>1. /\ s \in Live /\ session[s] \in SessionType /\ Same(device, device)
      /\ device \in DeviceType
  BY CoreFields DEF FailureTimer
<1> QED BY <1>1, FailureEnded DEF FailureTimer, Event

\* Every session as it was, and nobody is told.
LEMMA Unmoved ==
  ASSUME Core, UNCHANGED <<session, issued, calls, metadata, keep_alive>>, DeviceKept
  PROVE  Stays
  BY CoreFields DEF Stays

LEMMA ConnectionRefusedKind ==
  ASSUME Core, NEW s \in Sessions, ConnectionRefused(s) PROVE Event \/ Stays
<1>1. s \in Live /\ session[s].con = "CONNECTING"
  BY DEF ConnectionRefused, Waiting
<1>2. /\ Sound(session[s]) /\ session[s].requests # <<>> /\ device \in DeviceType
  BY <1>1, CoreFields DEF Sound, Counted
<1> DEFINE ans == [code |-> "OTHER", body |-> "bad", flags |-> "NONE"]
<1> HIDE DEF ans
<1>3. CASE Answered(s, "DISCONNECTED", ans)
  <2>1. Ended(s, session[s].callback_id) /\ DeviceKept
    BY <1>2, <1>3, AnsweredEnded DEF ConStates
  <2> QED BY <1>1, <2>1 DEF Event, ConnectionRefused
<1>4. CASE phase' = "faulted" /\ UNCHANGED <<session, device, calls>>
  <2>1. DeviceKept
    BY <1>4, DeviceUnchanged
  <2> QED BY <1>4, <2>1, Unmoved DEF ConnectionRefused
<1> QED BY <1>3, <1>4 DEF ConnectionRefused, ans

\* One session changes, and keeps its callback.
LEMMA OneStays ==
  ASSUME Core, NEW s \in Live, NEW r, Sound(r), r.callback_id = session[s].callback_id,
         session' = [session EXCEPT ![s] = r],
         UNCHANGED <<issued, calls, metadata, keep_alive>>, DeviceKept
  PROVE  Stays
<1>1. SessionsSound(session) /\ s \in Sessions /\ session[s] # NoSession /\ r # NoSession
  BY CoreFields, NoSessionAssumption DEF Live, Sound
<1>2. SessionsSound(session')
  BY <1>1, SessionChanged
<1>3. \A t \in Sessions : session'[t] = IF t = s THEN r ELSE session[t]
  BY <1>1 DEF SessionsSound
<1> QED BY <1>1, <1>2, <1>3, CoreFields DEF Stays

LEMMA ConnectionMadeStays == ASSUME Core, NEW s \in Sessions, ConnectionMade(s) PROVE Stays
<1>1. s \in Live /\ session[s].con = "CONNECTING" /\ UNCHANGED device
      /\ UNCHANGED <<issued, calls, metadata, keep_alive>>
  BY DEF ConnectionMade, Waiting
<1>2. DeviceKept
  BY <1>1, DeviceUnchanged DEF ConnectionMade
<1>3. CASE session' = [session EXCEPT ![s].con = "BUSY"]
  <2> DEFINE r == [session[s] EXCEPT !.con = "BUSY"]
  <2>1. Sound(session[s]) /\ session[s] \in SessionType
    BY <1>1, CoreFields
  <2>2. /\ r \in SessionType /\ r.con = "BUSY" /\ r.callback_id = session[s].callback_id
        /\ r.requests = session[s].requests /\ r.closecb = session[s].closecb
        /\ r.reqs_in_flight = session[s].reqs_in_flight
    BY <2>1 DEF SessionType, ConStates
  <2>3. session' = [session EXCEPT ![s] = r]
    BY <1>3
  <2> HIDE DEF r
  <2>4. Sound(r)
    BY <1>1, <2>1, <2>2 DEF Sound, Placed, Counted, InFlight
  <2> QED BY <1>1, <1>2, <2>2, <2>3, <2>4, OneStays
<1>4. CASE UNCHANGED session
  BY <1>1, <1>2, <1>4, Unmoved
<1> QED BY <1>3, <1>4 DEF ConnectionMade

LEMMA ConnectionClosedStays == ASSUME Core, NEW s \in Sessions, ConnectionClosed(s) PROVE Stays
<1>1. /\ s \in Live /\ session' = [session EXCEPT ![s] = Reset(session[s])]
      /\ UNCHANGED <<device, issued, calls, metadata, keep_alive, phase>>
  BY DEF ConnectionClosed, Waiting
<1>2. Sound(session[s])
  BY <1>1, CoreFields
<1>3. Sound(Reset(session[s])) /\ Reset(session[s]).callback_id = session[s].callback_id
  BY <1>2, ResetSound
<1>4. DeviceKept
  BY <1>1, DeviceUnchanged
<1> QED BY <1>1, <1>3, <1>4, OneStays

\* Each session changes, or none does, and each keeps its callback.
LEMMA AllStay ==
  ASSUME Core, NEW f, session' = [t \in Sessions |-> f[t]],
         \A t \in Sessions \ Live : f[t] = session[t],
         \A t \in Live : Sound(f[t]) /\ f[t].callback_id = session[t].callback_id,
         UNCHANGED <<issued, calls>>, DeviceKept,
         metadata' \in BOOLEAN, keep_alive' \in BOOLEAN
  PROVE  Stays
<1>1. ASSUME NEW t \in Sessions
      PROVE  \/ session[t] = NoSession /\ session'[t] = NoSession
             \/ /\ session[t] # NoSession /\ session'[t] # NoSession /\ Sound(session'[t])
                /\ session'[t].callback_id = session[t].callback_id
  <2>1. CASE t \in Live
    BY <2>1, NoSessionAssumption DEF Live, Sound
  <2>2. CASE t \notin Live
    BY <2>2 DEF Live
  <2> QED BY <2>1, <2>2
<1>2. SessionsSound(session')
  BY <1>1 DEF SessionsSound, Sound
<1> QED BY <1>1, <1>2 DEF Stays

LEMMA MetadataSendStays == ASSUME Core, MetadataSend PROVE Stays
<1>1. PICK out \in [Sessions -> MetadataOutcomes] :
        session' = [t \in Sessions |-> IF InGroup(t, Connected)
                                      THEN MetadataSent(session[t], out[t]) ELSE session[t]]
  BY DEF MetadataSend
<1> DEFINE f == [t \in Sessions |-> IF InGroup(t, Connected)
                                     THEN MetadataSent(session[t], out[t]) ELSE session[t]]
<1>2. \A t \in Sessions \ Live : f[t] = session[t]
  BY DEF InGroup
<1>3. ASSUME NEW t \in Live PROVE Sound(f[t]) /\ f[t].callback_id = session[t].callback_id
  <2>1. Sound(session[t]) /\ t \in Sessions /\ out[t] \in MetadataOutcomes
    BY CoreFields
  <2>2. f[t] \in {MetadataSent(session[t], out[t]), session[t]}
    BY <2>1
  <2> HIDE DEF f
  <2> QED BY <2>1, <2>2, MetadataSentSound
<1>4. session' = [t \in Sessions |-> f[t]]
  BY <1>1
<1> HIDE DEF f
<1>5. DeviceKept
  BY DeviceUnchanged DEF MetadataSend
<1>6. UNCHANGED <<issued, calls>> /\ metadata' \in BOOLEAN /\ keep_alive' \in BOOLEAN
  BY CoreFields DEF MetadataSend
<1> QED BY <1>2, <1>3, <1>4, <1>5, <1>6, AllStay

LEMMA KeepAliveStays == ASSUME Core, KeepAlive PROVE Stays
<1>1. PICK out \in [Sessions -> {"sent", "not_built"}] :
        session' = [t \in Sessions |-> IF InGroup(t, Connected)
                                      THEN SequenceStart(session[t], "FEEDBACK", out[t])
                                      ELSE session[t]]
  BY DEF KeepAlive
<1> DEFINE f == [t \in Sessions |-> IF InGroup(t, Connected)
                                     THEN SequenceStart(session[t], "FEEDBACK", out[t])
                                     ELSE session[t]]
<1>2. \A t \in Sessions \ Live : f[t] = session[t]
  BY DEF InGroup
<1>3. ASSUME NEW t \in Live PROVE Sound(f[t]) /\ f[t].callback_id = session[t].callback_id
  <2>1. Sound(session[t]) /\ t \in Sessions /\ out[t] \in Outcomes /\ out[t] # "refused"
    BY CoreFields DEF Outcomes
  <2>2. f[t] \in {SequenceStart(session[t], "FEEDBACK", out[t]), session[t]}
    BY <2>1
  <2>3. "FEEDBACK" \in SeqTypes
    BY DEF SeqTypes, seq_request
  <2> HIDE DEF f
  <2> QED BY <2>1, <2>2, <2>3, SequenceStartSound
<1>4. session' = [t \in Sessions |-> f[t]]
  BY <1>1
<1> HIDE DEF f
<1>5. DeviceKept
  BY DeviceUnchanged DEF KeepAlive
<1>6. UNCHANGED <<issued, calls>> /\ metadata' \in BOOLEAN /\ keep_alive' \in BOOLEAN
  BY CoreFields DEF KeepAlive
<1> QED BY <1>2, <1>3, <1>4, <1>5, <1>6, AllStay

LEMMA WriteStays == ASSUME Core, Write PROVE Stays
<1>1. PICK broken \in SUBSET Live :
        session' = [t \in Sessions |->
                      CASE t \in broken                 -> Deferred(session[t])
                        [] InGroup(t, {"CONNECTED"}) /\ t \notin broken ->
                             [session[t] EXCEPT !.state = "STREAMING"]
                        [] OTHER                        -> session[t]]
  BY DEF Write
<1> DEFINE on(r) == [r EXCEPT !.state = "STREAMING"]
           f == [t \in Sessions |->
                   CASE t \in broken                 -> Deferred(session[t])
                     [] InGroup(t, {"CONNECTED"}) /\ t \notin broken -> on(session[t])
                     [] OTHER                        -> session[t]]
<1>2. \A t \in Sessions \ Live : f[t] = session[t]
  BY DEF InGroup
<1>3. ASSUME NEW t \in Live PROVE Sound(f[t]) /\ f[t].callback_id = session[t].callback_id
  <2>1. Sound(session[t]) /\ t \in Sessions /\ Frame(session[t], session[t])
    BY CoreFields, Unhandled DEF Frame
  <2>2. f[t] \in {Deferred(session[t]), on(session[t]), session[t]}
    BY <2>1
  <2>3. Frame(on(session[t]), session[t])
    <3>1. "STREAMING" \in States
      BY DEF States, Connected
    <3> QED BY <2>1, <3>1, Fields
  <2> HIDE DEF f, on
  <2> QED BY <2>1, <2>2, <2>3, DeferredSound, FrameSound
<1>4. session' = [t \in Sessions |-> f[t]]
  BY <1>1
<1> HIDE DEF f
<1>5. DeviceKept
  BY DeviceUnchanged DEF Write
<1>6. UNCHANGED <<issued, calls>> /\ metadata' \in BOOLEAN /\ keep_alive' \in BOOLEAN
  BY CoreFields DEF Write
<1> QED BY <1>2, <1>3, <1>4, <1>5, <1>6, AllStay

LEMMA DeviceRemoveStays == ASSUME Core, DeviceRemove PROVE Stays
<1>1. DeviceKept
  BY CoreFields DEF DeviceRemove, DeviceKept, DeviceType
<1> QED BY <1>1, Unmoved DEF DeviceRemove

LEMMA MetadataPurgeStays == ASSUME Core, MetadataPurge PROVE Stays
<1>1. DeviceKept
  BY DeviceUnchanged DEF MetadataPurge
<1> QED BY <1>1, CoreFields DEF MetadataPurge, Stays

\* Every step is one of four kinds, or airplay_deinit, or none at all.
LEMMA StepKind ==
  ASSUME Core, [Next]_vars
  PROVE  Asked \/ Event \/ Stays \/ Deinit
<1>1. ASSUME NEW out \in Outcomes, NEW seq \in {"START", "PROBE", "PAIR_SETUP"}, Open(seq, out)
      PROVE  Asked
  <2>1. seq \in SeqTypes
    BY DEF SeqTypes, seq_request
  <2> QED BY <1>1, <2>1, OpenAsked
<1>2. ASSUME NEW out \in Outcomes, NEW seq \in {"STOP", "FLUSH", "SEND_VOLUME"},
             NEW s \in Live, device.session = s, Command(s, seq, out)
      PROVE  Asked
  <2>1. seq \in SeqTypes
    BY DEF SeqTypes, seq_request
  <2> QED BY <1>2, <2>1, CommandAsked
<1>3. CASE DeviceStart \/ DeviceProbe \/ DeviceAuthorize
  BY <1>1, <1>3 DEF DeviceStart, DeviceProbe, DeviceAuthorize
<1>4. CASE DeviceStop \/ DeviceFlush \/ DeviceVolumeSet
  BY <1>2, <1>4 DEF DeviceStop, DeviceFlush, DeviceVolumeSet
<1>5. CASE DeviceCbSet
  BY <1>5, CbSetAsked
<1>6. CASE DeviceRemove \/ MetadataSend \/ MetadataPurge \/ KeepAlive \/ Write
  BY <1>6, DeviceRemoveStays, MetadataSendStays, MetadataPurgeStays, KeepAliveStays, WriteStays
<1>7. ASSUME NEW s \in Sessions,
             \/ ConnectionMade(s) \/ ConnectionRefused(s) \/ RequestDone(s)
             \/ RequestFailed(s) \/ ConnectionClosed(s) \/ FailureTimer(s)
      PROVE  Event \/ Stays
  BY <1>7, ConnectionMadeStays, ConnectionRefusedKind, RequestDoneEvent, RequestFailedEvent,
     ConnectionClosedStays, FailureTimerEvent
<1>8. CASE UNCHANGED vars
  <2>1. DeviceKept
    BY <1>8, DeviceUnchanged DEF vars
  <2> QED BY <1>8, <2>1, Unmoved DEF vars
<1> QED BY <1>3, <1>4, <1>5, <1>6, <1>7, <1>8 DEF Next

-----------------------------------------------------------------------------
(* Type and count *)

LEMMA StepCore == ASSUME Core, [Next]_vars PROVE Core'
<1>1. CASE Asked
  <2>1. PICK s \in Sessions, c \in Callbacks, r \in SessionType :
          /\ Issue(c) /\ Sound(r) /\ session' = [session EXCEPT ![s] = r] /\ calls' = calls
          /\ DeviceKept /\ UNCHANGED <<metadata, keep_alive>>
    BY <1>1 DEF Asked
  <2>2. SessionsSound(session')
    BY <2>1, CoreFields, SessionChanged
  <2>3. issued' \in 0..MaxCallbacks
    BY <2>1, SessionAssumption DEF Issue, Callbacks
  <2> QED BY <2>1, <2>2, <2>3 DEF Core, DeviceKept
<1>2. CASE Event
  BY <1>2, EndedCore DEF Event, Live
<1>3. CASE Stays
  BY <1>3 DEF Stays, Core, DeviceKept
<1>4. CASE Deinit
  <2>1. SessionsSound(session')
    BY <1>4 DEF Deinit, SessionsSound
  <2> QED BY <1>4, <2>1 DEF Deinit, Core
<1> QED BY <1>1, <1>2, <1>3, <1>4, StepKind

LEMMA CoreAlways == Spec => []Core
  BY InitCore, StepCore, PTL DEF Spec

\* Type correctness, for any number of sessions, requests and callbacks: the
\* count of requests in flight never goes below zero, and a queued request is
\* always at a step its sequence has.
THEOREM TypeCorrect == Spec => []TypeOK
<1>1. Core => TypeOK
  BY CoreForm
<1> QED BY <1>1, CoreAlways, PTL

\* The bookkeeping of requests in flight and of the close callback is exact,
\* whatever the order of answers, failures, commands, metadata and timers.
THEOREM RequestsCorrect == Spec => []RequestsCounted
<1>1. Core => RequestsCounted
  BY CoreForm
<1> QED BY <1>1, CoreAlways, PTL

-----------------------------------------------------------------------------
(* Callbacks *)

\* A callback id: not handed out, or owed by a session and not made, or made
\* once and owed by none; and no two sessions owe the same.
Owing(f, made, n) ==
  /\ \A c \in Callbacks :
       \/ c > n /\ made[c] = <<>> /\ \A t \in Sessions : f[t] # NoSession => f[t].callback_id # c
       \/ c <= n /\ made[c] = <<>> /\ \E t \in Sessions : f[t] # NoSession /\ f[t].callback_id = c
       \/ /\ c <= n /\ made[c] # <<>> /\ Len(made[c]) = 1
          /\ \A t \in Sessions : f[t] # NoSession => f[t].callback_id # c
  /\ \A t, u \in Sessions :
       f[t] # NoSession /\ f[u] # NoSession /\ t # u /\ f[t].callback_id = f[u].callback_id
         => f[t].callback_id = NoCallback

\* While sessions are not registered with their device.
Promised ==
  /\ device.session = NoSession
  /\ phase = "up" /\ "v4" \in device.addresses => Owing(session, calls, issued)

LEMMA InitPromised == Init => Promised
<1> SUFFICES ASSUME Init PROVE Promised
  OBVIOUS
<1>1. \A c \in Callbacks : c > 0
  BY SessionAssumption DEF Callbacks
<1> QED BY <1>1 DEF Init, Promised, Owing

LEMMA AskedPromised ==
  ASSUME ~SessionRegistered, Core, Promised, Asked
  PROVE  Promised'
<1>1. PICK s \in Sessions, c \in Callbacks, r \in SessionType :
        /\ phase = "up" /\ c = issued + 1 /\ issued' = c
        /\ s \notin Live \/ device.session = s
        /\ Sound(r) /\ r.callback_id = c
        /\ session' = [session EXCEPT ![s] = r] /\ calls' = calls
        /\ DeviceKept
  BY DEF Asked, Issue
<1>2. session[s] = NoSession /\ r # NoSession
  BY <1>1, SessionAssumption, NoSessionAssumption DEF Promised, Live, Sound
<1>3. session \in [Sessions -> SessionType \cup {NoSession}] /\ issued \in Nat
  BY SessionAssumption DEF Core, SessionsSound
<1>4. \A t \in Sessions : session'[t] = IF t = s THEN r ELSE session[t]
  BY <1>1, <1>3
<1>5. device'.session = NoSession /\ device'.addresses = device.addresses
  BY <1>1 DEF DeviceKept, Promised
<1>6. ASSUME "v4" \in device.addresses PROVE Owing(session', calls', issued')
  <2>1. Owing(session, calls, issued)
    BY <1>1, <1>6 DEF Promised
  <2>2. calls[c] = <<>> /\ \A t \in Sessions : session[t] # NoSession => session[t].callback_id # c
    BY <1>1, <1>3, <2>1 DEF Owing
  <2>3. ASSUME NEW b \in Callbacks
        PROVE  \/ /\ b > issued' /\ calls'[b] = <<>>
                  /\ \A t \in Sessions : session'[t] # NoSession => session'[t].callback_id # b
               \/ /\ b <= issued' /\ calls'[b] = <<>>
                  /\ \E t \in Sessions : session'[t] # NoSession /\ session'[t].callback_id = b
               \/ /\ b <= issued' /\ calls'[b] # <<>> /\ Len(calls'[b]) = 1
                  /\ \A t \in Sessions : session'[t] # NoSession => session'[t].callback_id # b
    <3>1. CASE b = c
      BY <1>1, <1>2, <1>4, <2>2, <3>1 DEF Callbacks
    <3>2. CASE b # c
      <4>1. b \in Int /\ (b > issued' <=> b > issued) /\ (b <= issued' <=> b <= issued)
        BY <1>1, <1>3, <3>2 DEF Callbacks
      <4> QED BY <1>1, <1>2, <1>4, <2>1, <3>2, <4>1 DEF Owing
    <3> QED BY <3>1, <3>2
  <2>4. ASSUME NEW t \in Sessions, NEW u \in Sessions, session'[t] # NoSession,
               session'[u] # NoSession, t # u, session'[t].callback_id = session'[u].callback_id
        PROVE  session'[t].callback_id = NoCallback
    BY <1>1, <1>4, <2>1, <2>2, <2>4 DEF Owing
  <2> QED BY <2>3, <2>4 DEF Owing
<1> QED BY <1>5, <1>6 DEF Promised

\* An event either leaves the callbacks alone, or makes the one its session owes.
LEMMA EventPromised ==
  ASSUME ~SessionRegistered, Core, Promised, Event
  PROVE  Promised'
<1>1. PICK s \in Live : Ended(s, session[s].callback_id)
  BY DEF Event
<1>2. /\ session \in [Sessions -> SessionType \cup {NoSession}]
      /\ s \in Sessions /\ session[s] # NoSession
      /\ session[s].callback_id \in Callbacks \cup {NoCallback}
  BY DEF Core, SessionsSound, Live, SessionType
<1>3. /\ device'.session = NoSession /\ device'.addresses = device.addresses
      /\ phase' = "up" => phase = "up"
      /\ issued' = issued
  BY DEF Event, DeviceKept, Promised
<1> DEFINE id == session[s].callback_id
<1>4. ASSUME "v4" \in device.addresses, phase = "up" PROVE Owing(session', calls', issued')
  <2>1. Owing(session, calls, issued)
    BY <1>4 DEF Promised
  <2>2. CASE \E r : /\ Sound(r) /\ r.callback_id = id
                    /\ session' = [session EXCEPT ![s] = r] /\ calls' = calls
    <3>1. PICK r : /\ Sound(r) /\ r.callback_id = id
                   /\ session' = [session EXCEPT ![s] = r] /\ calls' = calls
      BY <2>2
    <3>2. r # NoSession
      BY <3>1, NoSessionAssumption DEF Sound
    <3>3. \A t \in Sessions : (session'[t] # NoSession <=> session[t] # NoSession)
            /\ (session[t] # NoSession => session'[t].callback_id = session[t].callback_id)
      BY <1>2, <3>1, <3>2
    <3> QED BY <1>3, <2>1, <3>1, <3>3 DEF Owing
  <2>3. ASSUME NEW r, NEW x, r \in SessionType, r.callback_id = id, calls' = Told(r),
               x = NoSession \/ (Sound(x) /\ x.callback_id = NoCallback),
               session' = [session EXCEPT ![s] = x]
        PROVE  Owing(session', calls', issued')
    <3>1. \A t \in Sessions : session'[t] = IF t = s THEN x ELSE session[t]
      BY <1>2, <2>3
    <3>2. NoCallback \notin Callbacks
      BY DEF NoCallback, Callbacks
    <3>3. CASE id = NoCallback
      <4>1. calls' = calls
        BY <2>3, <3>3 DEF Told
      <4> QED BY <1>2, <1>3, <2>1, <2>3, <3>1, <3>2, <3>3, <4>1 DEF Owing
    <3>4. CASE id \in Callbacks
      <4>1. id <= issued /\ calls[id] = <<>>
        BY <1>2, <2>1, <3>4 DEF Owing
      <4>2. \A t \in Sessions : session[t] # NoSession /\ t # s => session[t].callback_id # id
        BY <1>2, <2>1, <3>2, <3>4 DEF Owing
      <4>3. \A t \in Sessions : session'[t] # NoSession => session'[t].callback_id # id
        BY <2>3, <3>1, <3>2, <3>4, <4>2
      <4> DEFINE word == OutputState[r.state]
      <4>4. calls' = [calls EXCEPT ![id] = Append(calls[id], word)]
        BY <2>3, <3>2, <3>4 DEF Told
      <4>5. calls'[id] # <<>> /\ Len(calls'[id]) = 1
        <5> HIDE DEF id, word
        <5>1. calls'[id] = Append(<<>>, word)
          BY <3>4, <4>1, <4>4 DEF Core, CallsType
        <5>2. <<>> \in Seq({word}) /\ Len(<<>>) = 0
          BY EmptySeq
        <5> QED BY <5>1, <5>2, AppendProperties
      <4>6. \A b \in Callbacks : b # id => calls'[b] = calls[b]
        BY <4>4 DEF Core, CallsType
      <4>7. ASSUME NEW b \in Callbacks
            PROVE  \/ /\ b > issued' /\ calls'[b] = <<>>
                      /\ \A t \in Sessions : session'[t] # NoSession => session'[t].callback_id # b
                   \/ /\ b <= issued' /\ calls'[b] = <<>>
                      /\ \E t \in Sessions : session'[t] # NoSession /\ session'[t].callback_id = b
                   \/ /\ b <= issued' /\ calls'[b] # <<>> /\ Len(calls'[b]) = 1
                      /\ \A t \in Sessions : session'[t] # NoSession => session'[t].callback_id # b
        <5>1. CASE b = id
          BY <1>3, <4>1, <4>3, <4>5, <5>1
        <5>2. CASE b # id
          BY <1>2, <1>3, <2>1, <2>3, <3>1, <3>2, <4>6, <5>2 DEF Owing
        <5> QED BY <5>1, <5>2
      <4>8. ASSUME NEW t \in Sessions, NEW u \in Sessions, session'[t] # NoSession,
                   session'[u] # NoSession, t # u, session'[t].callback_id = session'[u].callback_id
            PROVE  session'[t].callback_id = NoCallback
        BY <2>1, <2>3, <3>1, <4>8 DEF Owing
      <4> QED BY <4>7, <4>8 DEF Owing
    <3> QED BY <1>2, <3>3, <3>4
  <2> QED BY <1>1, <1>4, <2>2, <2>3 DEF Ended
<1> QED BY <1>3, <1>4 DEF Promised

LEMMA StaysPromised ==
  ASSUME ~SessionRegistered, Promised, Stays
  PROVE  Promised'
<1>1. /\ device'.session = NoSession /\ device'.addresses = device.addresses
      /\ phase' = "up" => phase = "up"
      /\ issued' = issued /\ calls' = calls
  BY DEF Stays, DeviceKept, Promised
<1>2. \A t \in Sessions : (session'[t] # NoSession <=> session[t] # NoSession)
        /\ (session[t] # NoSession => session'[t].callback_id = session[t].callback_id)
  BY DEF Stays
<1>3. Owing(session, calls, issued) => Owing(session', calls', issued')
  BY <1>1, <1>2 DEF Owing
<1> QED BY <1>1, <1>3 DEF Promised

\* In the code as it is (session_make does not register its session), every
\* callback promised to the player is made exactly once or still owed by exactly
\* one session that lives, for any number of sessions, callbacks and requests.
THEOREM CallbackCorrect ==
  ASSUME SessionRegistered = FALSE
  PROVE  Spec => []CallbackOwed
<1>1. ASSUME Core, Promised, [Next]_vars PROVE Promised'
  <2>1. CASE Deinit
    BY <1>1, <2>1 DEF Deinit, Promised
  <2> QED BY <1>1, <2>1, StepKind, AskedPromised, EventPromised, StaysPromised
<1>2. Core /\ Promised => CallbackOwed
  <2> SUFFICES ASSUME Core, Promised, phase = "up", "v4" \in device.addresses, NEW c \in 1..issued
               PROVE  IF calls[c] = <<>> THEN \E s \in Live : session[s].callback_id = c
                      ELSE /\ Len(calls[c]) = 1
                           /\ \A s \in Live : session[s].callback_id # c
    BY DEF CallbackOwed
  <2>1. c \in Callbacks /\ ~(c > issued)
    BY SessionAssumption DEF Core, Callbacks
  <2> QED BY <2>1 DEF Promised, Owing, Live
<1> QED BY <1>1, <1>2, InitPromised, CoreAlways, PTL DEF Spec

\* The latest callback id: owed by one session and not made, or made once and owed
\* by none; later ids are not owed and not made.
OwingLatest(f, made, n) ==
  /\ \A t \in Sessions : f[t] # NoSession => f[t].callback_id \in {NoCallback} \cup 1..n
  /\ \A c \in Callbacks : c > n => made[c] = <<>>
  /\ n > 0 =>
       \/ made[n] = <<>> /\ \E t \in Sessions : f[t] # NoSession /\ f[t].callback_id = n
       \/ /\ made[n] # <<>> /\ Len(made[n]) = 1
          /\ \A t \in Sessions : f[t] # NoSession => f[t].callback_id # n
  /\ \A t, u \in Sessions :
       f[t] # NoSession /\ f[u] # NoSession /\ f[t].callback_id = n /\ f[u].callback_id = n => t = u

PromisedLatest == phase = "up" /\ "v4" \in device.addresses => OwingLatest(session, calls, issued)

LEMMA InitLatest == Init => PromisedLatest
BY DEF Init, PromisedLatest, OwingLatest

\* A command's callback replaces the one pending, a new session's adds one.
LEMMA AskedLatest ==
  ASSUME Core, PromisedLatest, Asked
  PROVE  PromisedLatest'
<1>1. PICK s \in Sessions, c \in Callbacks, r \in SessionType :
        /\ phase = "up" /\ c = issued + 1 /\ issued' = c
        /\ Sound(r) /\ r.callback_id = c
        /\ session' = [session EXCEPT ![s] = r] /\ calls' = calls
        /\ device'.addresses = device.addresses
  BY DEF Asked, Issue, DeviceKept
<1>2. /\ session \in [Sessions -> SessionType \cup {NoSession}] /\ issued \in Nat
      /\ r # NoSession /\ NoCallback \notin Nat
  BY <1>1, SessionAssumption, NoSessionAssumption DEF Core, SessionsSound, Sound, NoCallback
<1>3. \A t \in Sessions : session'[t] = IF t = s THEN r ELSE session[t]
  BY <1>1, <1>2
<1>4. SUFFICES ASSUME "v4" \in device.addresses PROVE OwingLatest(session', calls', issued')
  BY <1>1 DEF PromisedLatest
<1>5. OwingLatest(session, calls, issued)
  BY <1>1, <1>4 DEF PromisedLatest
<1>6. \A t \in Sessions : session'[t] # NoSession => session'[t].callback_id \in {NoCallback} \cup 1..c
  BY <1>1, <1>2, <1>3, <1>5 DEF OwingLatest, Callbacks
<1>7. calls'[c] = <<>> /\ \A b \in Callbacks : b > c => calls'[b] = <<>>
  BY <1>1, <1>2, <1>5 DEF OwingLatest, Callbacks
<1>8. \A t \in Sessions : session'[t] # NoSession /\ session'[t].callback_id = c <=> t = s
  BY <1>1, <1>2, <1>3, <1>5 DEF OwingLatest
<1> QED BY <1>1, <1>6, <1>7, <1>8 DEF OwingLatest

\* What an event tells the player under an older id does not matter any more.
LEMMA EventLatest ==
  ASSUME Core, PromisedLatest, Event
  PROVE  PromisedLatest'
<1>1. PICK s \in Live : Ended(s, session[s].callback_id)
  BY DEF Event
<1>2. /\ session \in [Sessions -> SessionType \cup {NoSession}]
      /\ s \in Sessions /\ session[s] # NoSession
      /\ issued \in 0..MaxCallbacks /\ MaxCallbacks \in Nat
      /\ NoCallback \notin Nat /\ calls \in CallsType
  BY SessionAssumption DEF Core, SessionsSound, Live, NoCallback
<1>3. /\ device'.addresses = device.addresses
      /\ phase' = "up" => phase = "up"
      /\ issued' = issued
  BY DEF Event, DeviceKept
<1> DEFINE id == session[s].callback_id
<1>4. SUFFICES ASSUME "v4" \in device.addresses, phase = "up"
               PROVE  OwingLatest(session', calls', issued)
  BY <1>3 DEF PromisedLatest
<1>5. OwingLatest(session, calls, issued) /\ id \in {NoCallback} \cup 1..issued
  BY <1>2, <1>4 DEF PromisedLatest, OwingLatest
<1>6. CASE \E r : /\ Sound(r) /\ r.callback_id = id
                  /\ session' = [session EXCEPT ![s] = r] /\ calls' = calls
  <2>1. PICK r : /\ Sound(r) /\ r.callback_id = id
                 /\ session' = [session EXCEPT ![s] = r] /\ calls' = calls
    BY <1>6
  <2>2. r # NoSession
    BY <2>1, NoSessionAssumption DEF Sound
  <2>3. \A t \in Sessions : (session'[t] # NoSession <=> session[t] # NoSession)
          /\ (session[t] # NoSession => session'[t].callback_id = session[t].callback_id)
    BY <1>2, <2>1, <2>2
  <2> QED BY <1>5, <2>1, <2>3 DEF OwingLatest
<1>7. ASSUME NEW r, NEW x, r \in SessionType, r.callback_id = id, calls' = Told(r),
             x = NoSession \/ (Sound(x) /\ x.callback_id = NoCallback),
             session' = [session EXCEPT ![s] = x]
      PROVE  OwingLatest(session', calls', issued)
  <2>1. \A t \in Sessions : session'[t] = IF t = s THEN x ELSE session[t]
    BY <1>2, <1>7
  <2>2. \A t \in Sessions : session'[t] # NoSession => session'[t].callback_id \in {NoCallback} \cup 1..issued
    BY <1>5, <1>7, <2>1 DEF OwingLatest
  <2>3. CASE id = NoCallback
    <3>1. calls' = calls
      BY <1>7, <2>3 DEF Told
    <3> QED BY <1>2, <1>5, <1>7, <2>1, <2>2, <2>3, <3>1 DEF OwingLatest
  <2>4. CASE id \in 1..issued
    <3> DEFINE word == OutputState[r.state]
    <3>1. calls' = [calls EXCEPT ![id] = Append(calls[id], word)] /\ id \in Callbacks
      BY <1>2, <1>7, <2>4 DEF Told, Callbacks
    <3> HIDE DEF word
    <3>2. \A b \in Callbacks : b # id => calls'[b] = calls[b]
      BY <1>2, <3>1 DEF CallsType
    <3>3. \A b \in Callbacks : b > issued => calls'[b] = <<>>
      BY <1>2, <1>5, <2>4, <3>2 DEF OwingLatest
    <3>4. CASE id = issued
      <4>1. calls[id] = <<>>
        BY <1>2, <1>5, <2>4, <3>4 DEF OwingLatest
      <4>2. calls'[id] = Append(<<>>, word)
        BY <1>2, <3>1, <4>1 DEF CallsType
      <4>3. <<>> \in Seq({word}) /\ Len(<<>>) = 0
        BY EmptySeq
      <4>4. calls'[id] # <<>> /\ Len(calls'[id]) = 1
        BY <4>2, <4>3, AppendProperties
      <4>5. \A t \in Sessions : session'[t] # NoSession => session'[t].callback_id # issued
        BY <1>2, <1>5, <1>7, <2>1, <3>4 DEF OwingLatest
      <4> QED BY <2>2, <3>3, <3>4, <4>4, <4>5 DEF OwingLatest
    <3>5. CASE id # issued
      <4>1. issued \in Callbacks /\ calls'[issued] = calls[issued]
        BY <1>2, <2>4, <3>2, <3>5 DEF Callbacks
      <4> QED BY <1>2, <1>5, <1>7, <2>1, <2>2, <3>3, <3>5, <4>1 DEF OwingLatest
    <3> QED BY <3>4, <3>5
  <2> QED BY <1>5, <2>3, <2>4
<1> QED BY <1>1, <1>4, <1>6, <1>7 DEF Ended

LEMMA StaysLatest ==
  ASSUME PromisedLatest, Stays
  PROVE  PromisedLatest'
<1>1. /\ device'.addresses = device.addresses
      /\ phase' = "up" => phase = "up"
      /\ issued' = issued /\ calls' = calls
  BY DEF Stays, DeviceKept
<1>2. \A t \in Sessions : (session'[t] # NoSession <=> session[t] # NoSession)
        /\ (session[t] # NoSession => session'[t].callback_id = session[t].callback_id)
  BY DEF Stays
<1>3. OwingLatest(session, calls, issued) => OwingLatest(session', calls', issued')
  BY <1>1, <1>2 DEF OwingLatest
<1> QED BY <1>1, <1>3 DEF PromisedLatest

\* Also when sessions are registered, so that commands replace pending callbacks: the
\* latest callback is made exactly once or still owed by exactly one session that
\* lives, for any number of sessions, callbacks and requests.
THEOREM LatestCallbackCorrect == Spec => []LatestCallbackOwed
<1>1. ASSUME Core, PromisedLatest, [Next]_vars PROVE PromisedLatest'
  <2>1. CASE Deinit
    BY <1>1, <2>1 DEF Deinit, PromisedLatest
  <2> QED BY <1>1, <2>1, StepKind, AskedLatest, EventLatest, StaysLatest
<1>2. Core /\ PromisedLatest => LatestCallbackOwed
  BY SessionAssumption DEF Core, PromisedLatest, OwingLatest, LatestCallbackOwed, Live
<1> QED BY <1>1, <1>2, InitLatest, CoreAlways, PTL DEF Spec

-----------------------------------------------------------------------------
(* The order of a session's setup *)

SessionsOrderly(f) == \A t \in Sessions : f[t] = NoSession \/ Orderly(f[t])

\* The session at s goes, or goes on as it should.
Ordered(s) == \E x : /\ x = NoSession \/ Orderly(x)
                     /\ session' = [session EXCEPT ![s] = x]

LEMMA OrderedKept ==
  ASSUME Core, SessionsOrderly(session), NEW s \in Sessions, Ordered(s)
  PROVE  SessionsOrderly(session')
<1>1. PICK x : /\ x = NoSession \/ Orderly(x)
               /\ session' = [session EXCEPT ![s] = x]
  BY DEF Ordered
<1>2. \A t \in Sessions : session'[t] = IF t = s THEN x ELSE session[t]
  BY <1>1, CoreFields DEF SessionsSound
<1> QED BY <1>1, <1>2 DEF SessionsOrderly

LEMMA SuccessOrdered ==
  ASSUME NEW s, NEW rs, NEW dev, Success(s, rs, dev) \/ Failure(s, rs, dev) \/ StartFailure(s, rs, dev)
  PROVE  Ordered(s)
<1>1. session' = [session EXCEPT ![s] = NoSession]
  BY DEF Success, Failure, StartFailure, SessionCleanup
<1> QED BY <1>1 DEF Ordered

\* A new session and its first request.
LEMMA StartedOrderly ==
  ASSUME NEW f \in {"v4", "v6"}, NEW c \in Callbacks \cup {NoCallback}, NEW out \in Outcomes,
         NEW seq \in {"START", "PROBE", "PAIR_SETUP"}
  PROVE  Orderly(SequenceStart(NewSession(f, c), seq, out))
<1> DEFINE n == NewSession(f, c)
<1>1. /\ n \in SessionType /\ Orderly(n) /\ NoSetup(n.requests) /\ Due(n, seq, 1)
  BY NewSessionOrderly
<1>2. seq \in SeqTypes
  BY DEF SeqTypes, seq_request
<1> HIDE DEF n
<1>3. Orderly(SequenceStart(n, seq, out))
  BY <1>1, <1>2, SequenceStartOrderly
<1> QED BY <1>3 DEF n

LEMMA ErroredOrdered ==
  ASSUME NEW s \in Sessions, NEW rs \in SessionType, NEW dev, device \in DeviceType,
         Same(dev, device), NEW seq, NEW out \in Outcomes, Errored(s, rs, dev, seq, out)
  PROVE  Ordered(s)
<1> DEFINE d == [Unregistered(dev) EXCEPT !.v6_disabled = TRUE]
<1>1. \/ Failure(s, rs, dev) \/ StartFailure(s, rs, dev)
      \/ Restarted(s, d, rs.callback_id, out)
  BY DEF Errored, StartRetry
<1>2. CASE Failure(s, rs, dev) \/ StartFailure(s, rs, dev)
  BY <1>2, SuccessOrdered
<1>3. CASE Restarted(s, d, rs.callback_id, out)
  <2>1. d.addresses \subseteq {"v4", "v6"}
    <3>1. /\ Unregistered(dev) \in DeviceType /\ Unregistered(dev).addresses = dev.addresses
      BY DeviceSame, RegistryKept
    <3>2. d.addresses = Unregistered(dev).addresses
      BY <3>1 DEF DeviceType
    <3> QED BY <3>1, <3>2, DeviceSame
  <2> HIDE DEF d
  <2>2. rs.callback_id \in Callbacks \cup {NoCallback}
    BY DEF SessionType
  <2>3. \/ \E f \in d.addresses :
             session' = [session EXCEPT ![s] =
                           SequenceStart(NewSession(f, rs.callback_id), "START", out)]
        \/ session' = [session EXCEPT ![s] = NoSession]
    BY <1>3 DEF Restarted
  <2> QED BY <2>1, <2>2, <2>3, StartedOrderly DEF Ordered
<1> QED BY <1>1, <1>2, <1>3

\* session_pair_success: playback follows a pairing that gave a key.
LEMMA PairSuccessOrdered ==
  ASSUME NEW s \in Sessions, NEW rs, Sound(rs), Orderly(rs), NoSetup(rs.requests), NEW dev,
         ~HasPassword /\ rs.next_seq # "CONTINUE" => rs.cipher,
         NEW out \in Outcomes, PairSuccess(s, rs, dev, out)
  PROVE  Ordered(s)
<1>1. rs \in SessionType /\ rs.next_seq \in {"CONTINUE", "START_PLAYBACK"}
  BY DEF Sound, SessionType
<1>2. CASE Success(s, rs, dev)
  BY <1>2, SuccessOrdered
<1>3. CASE /\ rs.next_seq # "CONTINUE" /\ MayEnd(rs, rs.next_seq, 1, out)
           /\ session' = [session EXCEPT ![s] =
                            [SequenceStart(rs, rs.next_seq, out) EXCEPT !.next_seq = "CONTINUE"]]
  <2> DEFINE q == SequenceStart(rs, "START_PLAYBACK", out)
  <2>1. rs.next_seq = "START_PLAYBACK" /\ "START_PLAYBACK" \in SeqTypes
    BY <1>1, <1>3 DEF SeqTypes, seq_request
  <2>2. Due(rs, "START_PLAYBACK", 1)
    BY <2>1 DEF Due
  <2>3. out = "refused" => rs.con = "DISCONNECTED"
    BY <1>3 DEF MayEnd
  <2>4. q \in SessionType
    BY <2>1, <2>3, SequenceStartSound DEF Sound
  <2>5. Orderly(q)
    BY <1>1, <2>1, <2>2, SequenceStartOrderly
  <2>6. session' = [session EXCEPT ![s] = [q EXCEPT !.next_seq = "CONTINUE"]]
    BY <1>3, <2>1
  <2> HIDE DEF q
  <2>7. Orderly([q EXCEPT !.next_seq = "CONTINUE"])
    BY <2>4, <2>5, ContinueOrderly
  <2> QED BY <2>6, <2>7 DEF Ordered
<1> QED BY <1>2, <1>3 DEF PairSuccess

LEMMA SucceededOrdered ==
  ASSUME NEW s \in Sessions, NEW rs, Sound(rs), Orderly(rs), NEW dev, NEW seq \in SeqTypes,
         seq \in SetupSeqs => NoSetup(rs.requests), Finished(rs, seq),
         NEW out \in Outcomes, Succeeded(s, rs, dev, seq, out)
  PROVE  Ordered(s)
<1> DEFINE mute == [rs EXCEPT !.callback_id = NoCallback]
           on == [rs EXCEPT !.state = "CONNECTED"]
           both == [on EXCEPT !.callback_id = NoCallback]
<1>1. rs \in SessionType /\ Established(rs)
  BY DEF Sound, Orderly
<1>2. \/ OnSuccess[seq] = "session_pair_success" /\ PairSuccess(s, rs, dev, out)
      \/ Success(s, rs, dev)
      \/ OnSuccess[seq] = "session_connected" /\ session' = [session EXCEPT ![s] = both]
      \/ session' = [session EXCEPT ![s] = mute]
      \/ session' = [session EXCEPT ![s] = rs]
  BY DEF Succeeded, Status
<1>3. CASE OnSuccess[seq] = "session_pair_success" /\ PairSuccess(s, rs, dev, out)
  <2>1. seq \in SetupSeqs
    BY <1>3 DEF OnSuccess, SetupSeqs
  <2>2. ~HasPassword /\ rs.next_seq # "CONTINUE" => rs.cipher
    BY <1>3 DEF Finished
  <2> QED BY <1>3, <2>1, <2>2, PairSuccessOrdered
<1>4. CASE Success(s, rs, dev)
  BY <1>4, SuccessOrdered
<1>5. CASE OnSuccess[seq] = "session_connected" /\ session' = [session EXCEPT ![s] = both]
  <2>1. rs.server
    BY <1>5 DEF OnSuccess, Finished
  <2>2. /\ on \in SessionType /\ on.requests = rs.requests /\ on.server = rs.server
        /\ on.cipher = rs.cipher /\ on.next_seq = rs.next_seq /\ on.pair_type = rs.pair_type
    BY <1>1 DEF SessionType, States, Connected
  <2> HIDE DEF on
  <2>3. /\ both \in SessionType /\ both.requests = rs.requests /\ both.server = rs.server
        /\ both.cipher = rs.cipher /\ both.next_seq = rs.next_seq /\ both.pair_type = rs.pair_type
    BY <2>2 DEF SessionType
  <2> HIDE DEF both
  <2>4. Orderly(both)
    BY <1>1, <2>1, <2>3, OrderlyKept DEF Established
  <2> QED BY <1>5, <2>4 DEF Ordered
<1>6. CASE session' = [session EXCEPT ![s] = mute]
  <2>1. /\ mute \in SessionType /\ mute.requests = rs.requests /\ mute.server = rs.server
        /\ mute.cipher = rs.cipher /\ mute.next_seq = rs.next_seq /\ mute.pair_type = rs.pair_type
        /\ mute.state = rs.state
    BY <1>1 DEF SessionType
  <2> HIDE DEF mute
  <2>2. Orderly(mute)
    BY <1>1, <2>1, OrderlyKept DEF Established
  <2> QED BY <1>6, <2>2 DEF Ordered
<1>7. CASE session' = [session EXCEPT ![s] = rs]
  <2> HIDE DEF mute, on, both
  <2> QED BY <1>7 DEF Ordered
<1> QED BY <1>2, <1>3, <1>4, <1>5, <1>6, <1>7

\* sequence_continue_cb: the answer to the head of the queue.
LEMMA AnsweredOrdered ==
  ASSUME NEW s \in Sessions, Sound(session[s]), Orderly(session[s]), session[s].requests # <<>>,
         device \in DeviceType, NEW con \in ConStates,
         con = "IDLE" => Tail(session[s].requests) = <<>>,
         con \in {"BUSY", "CONNECTING"} => Tail(session[s].requests) # <<>>,
         NEW ans, Answered(s, con, ans)
  PROVE  Ordered(s)
<1> DEFINE req == Head(session[s].requests)
           step == seq_request[req.seq][req.step]
           rs == Dequeued(session[s], con)
           h(mout) == ResponseHandled(rs, device, step, ans, metadata, mout)
<1>1. ~req.freed /\ req.seq \in SeqTypes /\ req.step \in DOMAIN seq_request[req.seq]
  <2>1. session[s].requests \in Seq(RequestType)
    BY DEF Sound, SessionType
  <2>2. /\ req \in RequestType /\ req = session[s].requests[1]
        /\ 1 \in DOMAIN session[s].requests
    BY <2>1, HeadTailProperties, EmptySeq, LenProperties
  <2>3. ~req.freed
    BY DEF Answered
  <2> HIDE DEF req
  <2> QED BY <2>2, <2>3 DEF RequestType, Sound, Placed
<1>2. Sound(rs) /\ rs \in SessionType
  BY <1>1, DequeuedSound DEF Sound
<1>3. /\ Orderly(rs) /\ Due(rs, req.seq, req.step)
      /\ req.seq \in SetupSeqs => NoSetup(rs.requests)
  BY <1>2, DequeuedOrderly DEF Sound
<1>4. PICK out \in Outcomes, mout \in MetadataOutcomes :
        \/ Errored(s, rs, device, req.seq, out)
        \/ Errored(s, h(mout).session, h(mout).device, req.seq, out)
        \/ /\ h(mout).next \in SeqTypes
           /\ MayEnd(h(mout).session, h(mout).next, 1, out)
           /\ session' = [session EXCEPT ![s] =
                            SequenceStart(h(mout).session, h(mout).next, out)]
        \/ /\ h(mout).next = "CONTINUE"
           /\ req.step < Len(seq_request[req.seq])
           /\ MayEnd(h(mout).session, req.seq, req.step + 1, out)
           /\ session' = [session EXCEPT ![s] =
                            SequenceContinue(h(mout).session, req.seq, req.step + 1, out)]
        \/ /\ h(mout).next = "CONTINUE"
           /\ req.step = Len(seq_request[req.seq])
           /\ Succeeded(s, h(mout).session, h(mout).device, req.seq, out)
  BY DEF Answered
<1> DEFINE r == h(mout).session
           d == h(mout).device
           next == h(mout).next
           seq == req.seq
           i == req.step
<1>5. Sound(r) /\ Same(d, device) /\ r \in SessionType
  <2> HIDE DEF rs, step
  <2>1. Sound(h(mout).session) /\ Same(h(mout).device, device)
    BY <1>2, ResponseSound
  <2> QED BY <2>1 DEF Sound
<1>6. HandlesWell(h(mout), seq, i)
  <2> DEFINE q == req.seq
             j == req.step
             x == rs
  <2>1. /\ Sound(x) /\ Orderly(x) /\ q \in SeqTypes /\ j \in DOMAIN seq_request[q] /\ Due(x, q, j)
        /\ q \in SetupSeqs => NoSetup(x.requests)
    BY <1>1, <1>2, <1>3
  <2> HIDE DEF q, j, x
  <2>2. HandlesWell(ResponseHandled(x, device, seq_request[q][j], ans, metadata, mout), q, j)
    BY <2>1, ResponseOrderly
  <2> QED BY <2>2 DEF q, j, x
<1> HIDE DEF rs, req, step
<1>7. /\ Orderly(r)
      /\ seq \in SetupSeqs => NoSetup(r.requests)
      /\ next \in SeqTypes => seq \in SetupSeqs /\ Due(r, next, 1)
      /\ next = "CONTINUE" /\ i < Len(seq_request[seq]) => Due(r, seq, i + 1)
      /\ next = "CONTINUE" /\ i = Len(seq_request[seq]) => Finished(r, seq)
  BY <1>6 DEF HandlesWell
<1>8. seq \in SeqTypes /\ i \in DOMAIN seq_request[seq] /\ Same(device, device)
  BY <1>1 DEF Same
<1>9. \/ Errored(s, rs, device, seq, out)
      \/ Errored(s, r, d, seq, out)
      \/ /\ next \in SeqTypes
         /\ session' = [session EXCEPT ![s] = SequenceStart(r, next, out)]
      \/ /\ next = "CONTINUE" /\ i < Len(seq_request[seq])
         /\ session' = [session EXCEPT ![s] = SequenceContinue(r, seq, i + 1, out)]
      \/ /\ next = "CONTINUE" /\ i = Len(seq_request[seq])
         /\ Succeeded(s, r, d, seq, out)
  BY <1>4
<1> HIDE DEF r, d, next, seq, i
<1>10. CASE Errored(s, rs, device, seq, out)
  BY <1>2, <1>8, <1>10, ErroredOrdered
<1>11. CASE Errored(s, r, d, seq, out)
  BY <1>5, <1>11, ErroredOrdered
<1>12. CASE /\ next \in SeqTypes
            /\ session' = [session EXCEPT ![s] = SequenceStart(r, next, out)]
  <2>1. Orderly(SequenceStart(r, next, out))
    BY <1>5, <1>7, <1>12, SequenceStartOrderly
  <2> QED BY <1>12, <2>1 DEF Ordered
<1>13. CASE /\ next = "CONTINUE" /\ i < Len(seq_request[seq])
            /\ session' = [session EXCEPT ![s] = SequenceContinue(r, seq, i + 1, out)]
  <2>1. i + 1 \in DOMAIN seq_request[seq]
    BY <1>8, <1>13, StepsBound
  <2>2. Orderly(SequenceContinue(r, seq, i + 1, out))
    BY <1>5, <1>7, <1>8, <1>13, <2>1, SequenceContinueOrderly
  <2> QED BY <1>13, <2>2 DEF Ordered
<1>14. CASE /\ next = "CONTINUE" /\ i = Len(seq_request[seq])
            /\ Succeeded(s, r, d, seq, out)
  BY <1>5, <1>7, <1>8, <1>14, SucceededOrdered
<1> QED BY <1>9, <1>10, <1>11, <1>12, <1>13, <1>14

LEMMA OpenOrdered ==
  ASSUME Core, NEW seq \in {"START", "PROBE", "PAIR_SETUP"}, NEW out \in Outcomes, Open(seq, out)
  PROVE  \E s \in Sessions : Ordered(s)
<1>1. PICK s \in Sessions, f \in device.addresses, c \in Callbacks :
        session' = [session EXCEPT ![s] = SequenceStart(NewSession(f, c), seq, out)]
  BY DEF Open
<1>2. f \in {"v4", "v6"}
  BY CoreFields
<1>3. Orderly(SequenceStart(NewSession(f, c), seq, out))
  BY <1>2, StartedOrderly
<1> QED BY <1>1, <1>3 DEF Ordered

\* Fields change that no sequence needs.
LEMMA OtherFields ==
  ASSUME NEW rs \in SessionType, Orderly(rs)
  PROVE  /\ \A c \in Callbacks : LET r == [rs EXCEPT !.callback_id = c]
                               IN  Orderly(r) /\ r.server = rs.server /\ r \in SessionType
         /\ Orderly([rs EXCEPT !.con = "BUSY"])
<1>1. ASSUME NEW c \in Callbacks
      PROVE  LET r == [rs EXCEPT !.callback_id = c]
             IN  Orderly(r) /\ r.server = rs.server /\ r \in SessionType
  <2> DEFINE r == [rs EXCEPT !.callback_id = c]
  <2>1. /\ r \in SessionType /\ r.requests = rs.requests /\ r.server = rs.server
        /\ r.cipher = rs.cipher /\ r.next_seq = rs.next_seq /\ r.pair_type = rs.pair_type
        /\ r.state = rs.state
    BY DEF SessionType
  <2> HIDE DEF r
  <2>2. Orderly(r)
    BY <2>1, OrderlyKept DEF Orderly, Established
  <2> QED BY <2>1, <2>2 DEF r
<1>2. Orderly([rs EXCEPT !.con = "BUSY"])
  <2> DEFINE r == [rs EXCEPT !.con = "BUSY"]
  <2>1. /\ r \in SessionType /\ r.requests = rs.requests /\ r.server = rs.server
        /\ r.cipher = rs.cipher /\ r.next_seq = rs.next_seq /\ r.pair_type = rs.pair_type
        /\ r.state = rs.state
    BY DEF SessionType, ConStates
  <2> HIDE DEF r
  <2>2. Orderly(r)
    BY <2>1, OrderlyKept DEF Orderly, Established
  <2> QED BY <2>2 DEF r
<1> QED BY <1>1, <1>2

LEMMA CommandOrdered ==
  ASSUME Core, SessionsOrderly(session), NEW s \in Live, NEW seq \in {"STOP", "FLUSH", "SEND_VOLUME"},
         seq = "FLUSH" => session[s].state = "STREAMING",
         NEW out \in Outcomes, Command(s, seq, out)
  PROVE  Ordered(s)
<1>1. PICK c \in Callbacks :
        session' = [session EXCEPT ![s] =
                      SequenceStart([session[s] EXCEPT !.callback_id = c], seq, out)]
  BY DEF Command
<1> DEFINE r == [session[s] EXCEPT !.callback_id = c]
<1>2. session[s] \in SessionType /\ Orderly(session[s])
  BY CoreFields DEF SessionsOrderly, Live
<1>3. Orderly(r) /\ r \in SessionType /\ r.server = session[s].server
  BY <1>2, OtherFields
<1> HIDE DEF r
<1>4. seq \in SeqTypes /\ seq \notin SetupSeqs
  BY DEF SeqTypes, seq_request, SetupSeqs
<1>5. Due(r, seq, 1)
  BY <1>2, <1>3 DEF Due, Orderly, Established
<1>6. Orderly(SequenceStart(r, seq, out))
  BY <1>3, <1>4, <1>5, SequenceStartOrderly
<1> QED BY <1>1, <1>6 DEF Ordered, r

LEMMA RequestDoneOrdered ==
  ASSUME Core, SessionsOrderly(session), NEW s \in Sessions, RequestDone(s)
  PROVE  Ordered(s)
<1>1. s \in Live /\ session[s].con = "BUSY"
  BY DEF RequestDone, Waiting
<1>2. /\ Sound(session[s]) /\ session[s].requests # <<>> /\ device \in DeviceType
      /\ Orderly(session[s])
  BY <1>1, CoreFields DEF Sound, Counted, SessionsOrderly, Live
<1> DEFINE con == NextOn(Tail(session[s].requests))
<1>3. /\ con \in ConStates
      /\ con = "IDLE" => Tail(session[s].requests) = <<>>
      /\ con \in {"BUSY", "CONNECTING"} => Tail(session[s].requests) # <<>>
  BY DEF NextOn, ConStates
<1>4. PICK ans : Answered(s, con, ans)
  BY DEF RequestDone
<1> HIDE DEF con
<1> QED BY <1>2, <1>3, <1>4, AnsweredOrdered

LEMMA RequestFailedOrdered ==
  ASSUME Core, SessionsOrderly(session), NEW s \in Sessions, RequestFailed(s)
  PROVE  Ordered(s)
<1>1. s \in Live /\ session[s].con = "BUSY"
  BY DEF RequestFailed, Waiting
<1>2. /\ Sound(session[s]) /\ session[s].requests # <<>> /\ Same(device, device)
      /\ device \in DeviceType
  BY <1>1, CoreFields DEF Sound, Counted
<1> DEFINE con == IF Tail(session[s].requests) = <<>> THEN "DISCONNECTED" ELSE "CONNECTING"
           rs == Reset(session[s])
           r == Dequeued(rs, con)
<1>3. /\ ~Head(session[s].requests).freed
      /\ \E out \in Outcomes : Errored(s, r, device, Head(session[s].requests).seq, out)
  BY DEF RequestFailed
<1>4. Sound(rs) /\ rs.requests = session[s].requests
  BY <1>2, ResetSound
<1> HIDE DEF rs
<1>5. r \in SessionType
  <2>1. /\ con \in ConStates /\ con # "IDLE"
        /\ con \in {"BUSY", "CONNECTING"} => Tail(rs.requests) # <<>>
    BY <1>4 DEF ConStates
  <2> HIDE DEF con
  <2> QED BY <1>2, <1>3, <1>4, <2>1, DequeuedSound DEF Sound
<1> HIDE DEF r
<1> QED BY <1>2, <1>3, <1>5, ErroredOrdered

LEMMA ConnectionOrdered ==
  ASSUME Core, SessionsOrderly(session), NEW s \in Sessions,
         ConnectionMade(s) \/ ConnectionRefused(s) \/ ConnectionClosed(s)
  PROVE  Ordered(s) \/ UNCHANGED session
<1>1. s \in Live
  BY DEF ConnectionMade, ConnectionRefused, ConnectionClosed, Waiting
<1>2. /\ Sound(session[s]) /\ session[s] \in SessionType /\ device \in DeviceType
      /\ Orderly(session[s])
  BY <1>1, CoreFields DEF SessionsOrderly, Live
<1>3. CASE ConnectionMade(s)
  <2>1. session' = [session EXCEPT ![s] = [session[s] EXCEPT !.con = "BUSY"]] \/ UNCHANGED session
    BY <1>3 DEF ConnectionMade
  <2>2. Orderly([session[s] EXCEPT !.con = "BUSY"])
    BY <1>2, OtherFields
  <2> QED BY <2>1, <2>2 DEF Ordered
<1>4. CASE ConnectionClosed(s)
  <2>1. session' = [session EXCEPT ![s] = Reset(session[s])]
    BY <1>4 DEF ConnectionClosed
  <2>2. Orderly(Reset(session[s]))
    BY <1>2, ResetOrderly
  <2> QED BY <2>1, <2>2 DEF Ordered
<1>5. CASE ConnectionRefused(s)
  <2> DEFINE ans == [code |-> "OTHER", body |-> "bad", flags |-> "NONE"]
  <2> HIDE DEF ans
  <2>1. session[s].con = "CONNECTING" /\ (Answered(s, "DISCONNECTED", ans) \/ UNCHANGED session)
    BY <1>5 DEF ConnectionRefused, Waiting, ans
  <2>2. session[s].requests # <<>>
    BY <1>2, <2>1 DEF Sound, Counted
  <2> QED BY <1>2, <2>1, <2>2, AnsweredOrdered DEF ConStates
<1> QED BY <1>3, <1>4, <1>5

\* What is done for all sessions at once.
LEMMA AllOrderly ==
  ASSUME Core, SessionsOrderly(session), MetadataSend \/ KeepAlive \/ Write
  PROVE  SessionsOrderly(session')
<1>1. ASSUME NEW t \in Sessions PROVE session'[t] = NoSession \/ Orderly(session'[t])
  <2>1. CASE MetadataSend
    <3>1. PICK out \in MetadataOutcomes :
            session'[t] = IF InGroup(t, Connected) THEN MetadataSent(session[t], out) ELSE session[t]
      BY <2>1 DEF MetadataSend
    <3>2. CASE InGroup(t, Connected)
      <4>1. t \in Live
        BY <3>2 DEF InGroup
      <4>2. Sound(session[t]) /\ Orderly(session[t])
        BY <4>1, CoreFields DEF SessionsOrderly, Live
      <4> QED BY <3>1, <3>2, <4>2, MetadataSentOrderly
    <3>3. CASE ~InGroup(t, Connected)
      BY <3>1, <3>3 DEF SessionsOrderly
    <3> QED BY <3>2, <3>3
  <2>2. CASE KeepAlive
    <3>1. PICK out \in Outcomes :
            session'[t] = IF InGroup(t, Connected) THEN SequenceStart(session[t], "FEEDBACK", out)
                          ELSE session[t]
      BY <2>2 DEF KeepAlive, Outcomes
    <3>2. CASE InGroup(t, Connected)
      <4>1. t \in Live
        BY <3>2 DEF InGroup
      <4>2. session[t] \in SessionType /\ Orderly(session[t])
        BY <4>1, CoreFields DEF SessionsOrderly, Live
      <4>3. "FEEDBACK" \in SeqTypes /\ "FEEDBACK" \notin SetupSeqs /\ Due(session[t], "FEEDBACK", 1)
        BY DEF SeqTypes, seq_request, SetupSeqs, Due
      <4> QED BY <3>1, <3>2, <4>2, <4>3, SequenceStartOrderly
    <3>3. CASE ~InGroup(t, Connected)
      BY <3>1, <3>3 DEF SessionsOrderly
    <3> QED BY <3>2, <3>3
  <2>3. CASE Write
    <3> DEFINE on == [session[t] EXCEPT !.state = "STREAMING"]
    <3>1. \/ t \in Live /\ session'[t] = Deferred(session[t])
          \/ t \in Live /\ session[t].state = "CONNECTED" /\ session'[t] = on
          \/ session'[t] = session[t]
      BY <2>3 DEF Write, InGroup
    <3>2. ASSUME t \in Live PROVE session[t] \in SessionType /\ Orderly(session[t])
      BY <3>2, CoreFields DEF SessionsOrderly, Live
    <3>3. ASSUME t \in Live, session[t].state = "CONNECTED" PROVE Orderly(on)
      <4>1. /\ on \in SessionType /\ on.requests = session[t].requests
            /\ on.server = session[t].server /\ on.cipher = session[t].cipher
            /\ on.next_seq = session[t].next_seq /\ on.pair_type = session[t].pair_type
        BY <3>2, <3>3 DEF SessionType, States, Connected
      <4> HIDE DEF on
      <4>2. Established(on)
        BY <3>2, <3>3, <4>1 DEF Orderly, Established
      <4> QED BY <3>2, <3>3, <4>1, <4>2, OrderlyKept
    <3> HIDE DEF on
    <3> QED BY <3>1, <3>2, <3>3, DeferredOrderly DEF SessionsOrderly
  <2> QED BY <2>1, <2>2, <2>3
<1> QED BY <1>1 DEF SessionsOrderly

LEMMA StepOrderly ==
  ASSUME Core, SessionsOrderly(session), [Next]_vars
  PROVE  SessionsOrderly(session')
<1>1. CASE DeviceStart \/ DeviceProbe \/ DeviceAuthorize
  <2>1. \E s \in Sessions : Ordered(s)
    BY <1>1, OpenOrdered DEF DeviceStart, DeviceProbe, DeviceAuthorize
  <2> QED BY <2>1, OrderedKept
<1>2. CASE DeviceStop \/ DeviceFlush \/ DeviceVolumeSet
  <2>1. PICK s \in Live : Ordered(s)
    BY <1>2, CommandOrdered DEF DeviceStop, DeviceFlush, DeviceVolumeSet, InGroup
  <2> QED BY <2>1, OrderedKept DEF Live
<1>3. CASE DeviceCbSet
  <2>1. PICK s \in Live, c \in Callbacks :
          session' = [session EXCEPT ![s] = [session[s] EXCEPT !.callback_id = c]]
    BY <1>3 DEF DeviceCbSet
  <2>2. session[s] \in SessionType /\ Orderly(session[s])
    BY CoreFields DEF SessionsOrderly, Live
  <2>3. Ordered(s)
    BY <2>1, <2>2, OtherFields DEF Ordered
  <2> QED BY <2>3, OrderedKept DEF Live
<1>4. CASE MetadataSend \/ KeepAlive \/ Write
  BY <1>4, AllOrderly
<1>5. CASE Deinit
  BY <1>5 DEF Deinit, SessionsOrderly
<1>6. CASE UNCHANGED session
  BY <1>6 DEF SessionsOrderly
<1>7. ASSUME NEW s \in Sessions,
             \/ ConnectionMade(s) \/ ConnectionRefused(s) \/ RequestDone(s)
             \/ RequestFailed(s) \/ ConnectionClosed(s) \/ FailureTimer(s)
      PROVE  SessionsOrderly(session')
  <2>1. Ordered(s) \/ UNCHANGED session
    BY <1>7, ConnectionOrdered, RequestDoneOrdered, RequestFailedOrdered, SuccessOrdered
       DEF FailureTimer
  <2> QED BY <2>1, <1>6, OrderedKept
<1>8. CASE DeviceRemove \/ MetadataPurge
  BY <1>6, <1>8 DEF DeviceRemove, MetadataPurge
<1> QED BY <1>1, <1>2, <1>3, <1>4, <1>5, <1>6, <1>7, <1>8 DEF Next, vars

\* The inductive invariant that EstablishedHasServer and PlaybackCiphered are parts of.
SetUpInOrder == SessionsOrderly(session)

LEMMA OrderlyAlways == Spec => []SetUpInOrder
<1>1. Init => SetUpInOrder
  BY DEF Init, SessionsOrderly, SetUpInOrder
<1>2. Core /\ SetUpInOrder /\ [Next]_vars => SetUpInOrder'
  BY StepOrderly DEF SetUpInOrder
<1> QED BY <1>1, <1>2, CoreAlways, PTL DEF Spec

\* A session in a state audio is written to has a connected data socket, whatever
\* sequences its requests belong to and in whatever order they are answered: the
\* requests that set a session up are queued one at a time.
THEOREM EstablishedCorrect == Spec => []EstablishedHasServer
<1>1. SetUpInOrder => EstablishedHasServer
  BY DEF SetUpInOrder, EstablishedHasServer, SessionsOrderly, Orderly, Established, Live
<1> QED BY <1>1, OrderlyAlways, PTL

\* Without a password configured, a session playback is being set up on has a session
\* key: what was queued for it was queued after a pairing that gave one.
THEOREM CipheredCorrect == Spec => []PlaybackCiphered
<1>1. SetUpInOrder => PlaybackCiphered
  BY DEF SetUpInOrder, PlaybackCiphered, SessionsOrderly, Orderly, Due, Live
<1> QED BY <1>1, OrderlyAlways, PTL
=============================================================================
