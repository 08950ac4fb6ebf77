----------------------------- MODULE OutputsAudio -----------------------------
(***************************************************************************)
(* Qualities of audio: the subscriptions and the encoders of               *)
(* src/src/outputs.c, what outputs_write hands to the backends, and the    *)
(* master sessions of src/src/airplay.c, one for all sessions of a         *)
(* quality. A backend other than AirPlay, none of which is compiled in,    *)
(* subscribes as outputs.h says; a master session does not subscribe any   *)
(* more, and still unsubscribes. A quality whose encoding yields no data   *)
(* is left out.                                                            *)
(***************************************************************************)
EXTENDS Integers, SequencesExt

CONSTANTS
  Qualities,       \* media_quality values
  Backends,        \* users of a quality that subscribe
  Streams,         \* AirPlay sessions
  MaxQualities,    \* OUTPUTS_MAX_QUALITY_SUBSCRIPTIONS, 5 in the code
  NoQuality        \* no member of Qualities

\* NULL is neither a quality nor an encoder.
ASSUME OutputsAudioAssumption ==
  MaxQualities \in Nat /\ NoQuality \notin Qualities \cup (Qualities \X Qualities)

VARIABLES
  subs,            \* output_quality_subscriptions, up to its terminator
  newsub,          \* outputs_got_new_subscription
  lastinput,       \* output_buffer.data[0].quality
  user,            \* user[b]: the quality the backend has subscribed to
  chunk,           \* what the last outputs_write handed over, if nothing happened since
  masters,         \* airplay_master_sessions, the last made first
  streaming,       \* streaming[s]: quality of the session's master_session
  stale            \* history: the last call of encoding_reset returned early

audioVars == <<subs, newsub, lastinput, user, chunk, masters, streaming, stale>>

NoChunk == [input |-> NoQuality, data |-> <<>>, unmade |-> {}]

AudioInit ==
  /\ subs = <<>> /\ newsub = FALSE /\ lastinput = NoQuality /\ chunk = NoChunk
  /\ user = [b \in Backends |-> NoQuality]
  /\ masters = <<>> /\ streaming = [s \in Streams |-> NoQuality] /\ stale = FALSE

Subscribed(q) == \E i \in DOMAIN subs : subs[i].quality = q
IndexOf(q) == CHOOSE i \in DOMAIN subs : subs[i].quality = q

-----------------------------------------------------------------------------
(* Subscriptions. An encoder is from a quality to a quality, or NoQuality when there is    *)
(* none, or Failed when it could not be set up.                                            *)

Failed == <<NoQuality, NoQuality>>

\* Mutant: the next write does not set up the encoder of a new quality.
SubscribeQuietly(q) ==
  IF Subscribed(q)
  THEN subs' = [subs EXCEPT ![IndexOf(q)].count = @ + 1] /\ UNCHANGED newsub
  ELSE /\ subs' = Append(subs, [quality |-> q, count |-> 1, encoder |-> NoQuality])
       /\ UNCHANGED newsub

\* outputs_quality_subscribe, when it succeeds; the element past the last one is zeroed.
Subscribe(q) ==
  IF Subscribed(q)
  THEN subs' = [subs EXCEPT ![IndexOf(q)].count = @ + 1] /\ UNCHANGED newsub
  ELSE /\ subs' = Append(subs, [quality |-> q, count |-> 1, encoder |-> NoQuality])
       /\ newsub' = TRUE

\* outputs_quality_unsubscribe: a quality nobody subscribed to is ignored, the last
\* subscriber's is removed and what follows is shifted, with its encoders.
Unsubscribe(q) ==
  /\ UNCHANGED newsub
  /\ subs' =
       IF ~Subscribed(q) THEN subs
       ELSE IF subs[IndexOf(q)].count > 1 THEN [subs EXCEPT ![IndexOf(q)].count = @ - 1]
       ELSE RemoveAt(subs, IndexOf(q))

\* A backend begins, and ends, to use a quality.
BackendSubscribes(b, q) ==
  /\ user[b] = NoQuality /\ chunk' = NoChunk
  /\ IF Subscribed(q) \/ Len(subs) < MaxQualities
     THEN Subscribe(q) /\ user' = [user EXCEPT ![b] = q]
     ELSE UNCHANGED <<subs, newsub, user>>
  /\ UNCHANGED <<lastinput, masters, streaming, stale>>

BackendUnsubscribes(b) ==
  /\ user[b] # NoQuality /\ chunk' = NoChunk
  /\ Unsubscribe(user[b]) /\ user' = [user EXCEPT ![b] = NoQuality]
  /\ UNCHANGED <<lastinput, masters, streaming, stale>>

\* encoding_reset for input of quality q: unless the input has a profile and a decoder, it
\* returns early and leaves the encoders as they were; some of the new ones cannot be set up.
EncodingReset(q, decodable, failing) ==
  IF ~decodable THEN subs
  ELSE [i \in DOMAIN subs |-> [subs[i] EXCEPT !.encoder =
          IF subs[i].quality = q THEN NoQuality ELSE IF i \in failing THEN Failed ELSE <<q, subs[i].quality>>]]

\* The loop of buffer_fill: what is in the buffer after n of the subscriptions. Element 0 has
\* the input, the others what the encoders make of it; some fail.
Filled(q, list, failing) ==
  LET Made(n) == /\ list[n].quality # q /\ list[n].encoder \notin {NoQuality, Failed}
                 /\ n \notin failing
      filled[n \in 0..Len(list)] ==
        IF n = 0 THEN <<[quality |-> q, by |-> <<q, q>>]>>
        ELSE IF Made(n)
             THEN Append(filled[n - 1], [quality |-> list[n].quality, by |-> list[n].encoder])
             ELSE filled[n - 1]
  IN filled

\* buffer_fill
BufferFill(q, list, failing) ==
  [input |-> q,
   data |-> Filled(q, list, failing)[Len(list)],
   unmade |-> {list[i].quality : i \in {j \in DOMAIN list : j \in failing \/ list[j].encoder = Failed}}]

\* outputs_write: the buffer is filled, written by each backend, and drained. What
\* encoding_reset returns is ignored, and it is not called again for the same input.
OutputsWrite(q) ==
  \E failing \in SUBSET DOMAIN subs, decodable \in BOOLEAN :
    LET reset == q # lastinput \/ newsub
        after == IF reset THEN EncodingReset(q, decodable, failing) ELSE subs IN
    /\ subs' = after /\ newsub' = FALSE /\ lastinput' = q
    /\ stale' = IF reset THEN ~decodable ELSE stale
    /\ chunk' = BufferFill(q, after, failing)
    /\ UNCHANGED <<user, masters, streaming>>

\* outputs_deinit: the backend ends its sessions, and what they forgot is unsubscribed. The
\* quality of the last input and the flag stay.
OutputsDeinit ==
  /\ subs' = <<>> /\ chunk' = NoChunk /\ user' = [b \in Backends |-> NoQuality]
  /\ masters' = <<>> /\ streaming' = [s \in Streams |-> NoQuality]
  /\ UNCHANGED <<newsub, lastinput, stale>>

-----------------------------------------------------------------------------
(* Master sessions *)

\* master_session_make, called by session_make, which then adds the session to its list.
StreamStarts(s, q) ==
  /\ streaming[s] = NoQuality /\ streaming' = [streaming EXCEPT ![s] = q] /\ chunk' = NoChunk
  /\ masters' = IF \E i \in DOMAIN masters : masters[i] = q THEN masters ELSE <<q>> \o masters
  /\ UNCHANGED <<subs, newsub, lastinput, user, stale>>

\* Mutant: the session is still in the list when its master session is cleaned up.
StreamEndsListed(s) ==
  /\ streaming[s] # NoQuality /\ streaming' = [streaming EXCEPT ![s] = NoQuality] /\ chunk' = NoChunk
  /\ UNCHANGED <<masters, subs, newsub, lastinput, user, stale>>

\* The list without the master session of quality q.
Unlinked(q) == RemoveAt(masters, CHOOSE i \in DOMAIN masters : masters[i] = q)

\* session_cleanup and master_session_cleanup: without another session in the list that
\* uses it the master session is unlinked and freed, which unsubscribes.
StreamEnds(s) ==
  /\ streaming[s] # NoQuality /\ streaming' = [streaming EXCEPT ![s] = NoQuality] /\ chunk' = NoChunk
  /\ IF \E t \in Streams \ {s} : streaming[t] = streaming[s]
     THEN UNCHANGED <<masters, subs, newsub>>
     ELSE masters' = Unlinked(streaming[s]) /\ Unsubscribe(streaming[s])
  /\ UNCHANGED <<lastinput, user, stale>>

AudioNext ==
  \/ \E q \in Qualities : OutputsWrite(q) \/ \E b \in Backends : BackendSubscribes(b, q)
  \/ OutputsDeinit \/ \E b \in Backends : BackendUnsubscribes(b)
  \/ \E s \in Streams : StreamEnds(s) \/ \E q \in Qualities : StreamStarts(s, q)

AudioSpec == AudioInit /\ [][AudioNext]_audioVars

-----------------------------------------------------------------------------
(* Properties *)

(* However subscriptions came and went and the input changed, each element a backend gets  *)
(* was encoded to the quality it is labelled with and no quality comes twice; and unless   *)
(* the encoders could not be reset for this input, each was encoded from this input and    *)
(* each subscribed quality comes, if its encoder did not fail (outputs.h:30-36).           *)
SubscribersServed ==
  chunk # NoChunk =>
    /\ \A n \in DOMAIN chunk.data : chunk.data[n].by[2] = chunk.data[n].quality
    /\ \A m, n \in DOMAIN chunk.data : chunk.data[m].quality = chunk.data[n].quality => m = n
    /\ ~stale =>
         /\ \A n \in DOMAIN chunk.data : chunk.data[n].by[1] = chunk.input
         /\ \A i \in DOMAIN subs :
              subs[i].quality \in chunk.unmade \cup {chunk.data[n].quality : n \in DOMAIN chunk.data}

(* Sessions of the same quality share one master session, and it is freed with the last of *)
(* them: the stream is encoded once for all of them, and none is left over.                *)
MastersShared ==
  /\ {masters[i] : i \in DOMAIN masters} = {streaming[s] : s \in Streams} \ {NoQuality}
  /\ \A i, j \in DOMAIN masters : masters[i] = masters[j] => i = j
=============================================================================
