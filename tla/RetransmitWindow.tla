-------------------------- MODULE RetransmitWindow --------------------------
(***************************************************************************)
(* What the RTP retransmit buffer promises: it holds the most recent       *)
(* packets, at most BufSize of them, oldest first and numbered             *)
(* consecutively; a request by sequence number finds a packet exactly when *)
(* it is held.                                                             *)
(***************************************************************************)
EXTENDS Integers, Sequences

CONSTANTS SeqNumMod, PosMod, BufSize, Payloads, SampleCounts

VARIABLES window,  \* the packets held, oldest first
          nextSeq, \* the sequence number the next packet gets
          nextPos  \* the RTP time the next packet gets

vars == <<window, nextSeq, nextPos>>

NotHeld == [none |-> TRUE]

Init == /\ window = <<>>
        /\ nextSeq \in 0..(SeqNumMod - 1)
        /\ nextPos \in 0..(PosMod - 1)

\* A new packet takes the next number and time, and pushes the oldest packet
\* out of a full window.
Push(samples, payload) ==
  LET pkt == [seqnum |-> nextSeq, rtptime |-> nextPos, marker |-> FALSE,
              samples |-> samples, payload |-> payload]
  IN  /\ window' = IF Len(window) < BufSize THEN Append(window, pkt)
                   ELSE Append(Tail(window), pkt)
      /\ nextSeq' = (nextSeq + 1) % SeqNumMod
      /\ nextPos' = (nextPos + samples) % PosMod

Clear == /\ window' = <<>>
         /\ UNCHANGED <<nextSeq, nextPos>>

Next == \/ \E n \in SampleCounts, d \in Payloads : Push(n, d)
        \/ Clear

Spec == Init /\ [][Next]_vars

Held(seqnum) == {i \in 1..Len(window) : window[i].seqnum = seqnum}

\* The answer to a retransmit request for one sequence number.
Lookup(seqnum) == IF Held(seqnum) = {} THEN NotHeld
                  ELSE window[CHOOSE i \in Held(seqnum) : TRUE]

=============================================================================
