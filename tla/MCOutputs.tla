------------------------------ MODULE MCOutputs ------------------------------
(***************************************************************************)
(* The way of the audio to the devices: the output layer, the streaming of *)
(* the backend, and what a session does on its connection, pairing and the *)
(* reading of responses. They share no state with each other, and are      *)
(* checked in one run: a behaviour is one of the part chosen at its start. *)
(***************************************************************************)
EXTENDS Outputs, OutputsAudio, AirplayStream, Pairing, RtspRead, TLC

\* Ids, addresses of devices and of sessions are interchangeable.
Interchangeable ==
  Permutations(Ids) \cup Permutations(Addresses) \cup Permutations(SessionAddresses)

VARIABLE part

partsVars == <<part, outputsVars, audioVars, streamVars, pairingVars, readVars>>

Idling(p, vars) == part # p => UNCHANGED vars

Init ==
  /\ part \in {"outputs", "audio", "stream", "pairing", "reading"}
  /\ OutputsInit /\ AudioInit /\ StreamInit /\ PairingInit /\ ReadInit
  /\ part # "pairing" => pin = 1

Next ==
  /\ UNCHANGED part
  /\ \/ part = "outputs" /\ OutputsNext
     \/ part = "audio" /\ AudioNext
     \/ part = "stream" /\ StreamNext
     \/ part = "pairing" /\ PairingNext
     \/ part = "reading" /\ ReadNext
  /\ Idling("outputs", outputsVars) /\ Idling("audio", audioVars)
  /\ Idling("stream", streamVars) /\ Idling("pairing", pairingVars) /\ Idling("reading", readVars)

Spec == Init /\ [][Next]_partsVars
=============================================================================
