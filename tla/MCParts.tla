------------------------------- MODULE MCParts -------------------------------
(***************************************************************************)
(* The parts of the program that share no state with each other or with    *)
(* the modules of the other runs. They are checked in one run: a behaviour *)
(* is one of the part chosen at its start.                                 *)
(***************************************************************************)
EXTENDS WorkerPool, AirplayEvents, CliPlayer, RtpSession, OutputsVolume, Discovery,
        AvahiPoll, DnsSd

\* Floats that fall short of every exact quotient; IEEE single precision does so for some,
\* for instance of 53 and 100.
EveryExact == {p \in (1..MaxVolume) \X (1..MaxVolume) : (p[1] * 100) % p[2] = 0}

VARIABLE part

partsVars == <<part, poolVars, eventVars, cliVars, rtp, volumeVars, discoveryVars, pollVars, sdVars>>

Idling(p, vars) == part # p => UNCHANGED vars

Init ==
  /\ part \in {"pool", "events", "cli", "rtp", "volume", "discovery", "poll", "dnssd"}
  /\ PoolInit /\ EventsInit /\ CliInit /\ RtpInit /\ VolumeInit /\ DiscoveryInit /\ PollInit /\ SdInit
  /\ part # "cli" => input = 0
  /\ part # "rtp" => rtp = RtpNew(0, 0)
  /\ part # "discovery" => ~ipv6 /\ address = [n \in Names |-> {}] /\ permanent = {} /\ avahi = "running"
  /\ part # "dnssd" => ~connection /\ protocol = {"IPv4"}

Next ==
  /\ UNCHANGED part
  /\ \/ part = "pool" /\ PoolNext
     \/ part = "events" /\ EventsNext
     \/ part = "cli" /\ CliNext
     \/ part = "rtp" /\ RtpNext
     \/ part = "volume" /\ VolumeNext
     \/ part = "discovery" /\ DiscoveryNext
     \/ part = "poll" /\ PollNext
     \/ part = "dnssd" /\ SdNext
  /\ Idling("pool", poolVars) /\ Idling("events", eventVars) /\ Idling("cli", cliVars)
  /\ Idling("rtp", rtp) /\ Idling("volume", volumeVars) /\ Idling("discovery", discoveryVars)
  /\ Idling("poll", pollVars) /\ Idling("dnssd", sdVars)

Spec == Init /\ [][Next]_partsVars /\ PoolFair /\ CliFair
=============================================================================
