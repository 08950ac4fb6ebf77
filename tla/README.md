# libairplay2 in TLA+

TLA+ specifications of the AirPlay 2 sender in this repository, model-checked with TLC
and proved with TLAPS but for liveness. Every definition is a translation of the C code;
PROJECT.json gives the lines of each.

## 1. The system

libairplay2 is the AirPlay 2 backend of OwnTone with a command line player. One event
loop (the player thread) runs all of the AirPlay code; a second thread serves the event
channel of the devices, a pool of worker threads runs deferred work, and the command
line player has a main thread and a pipe reader.

| Component | State it keeps | Operations | Hard behaviour | Correct when |
|---|---|---|---|---|
| RTP session (`rtp_common.c`) | ring of sent packets, 16-bit number, 32-bit position, sync counter | next, commit, get, flush, sync poll | wrap-around of number and ring; in-place writing | a retransmit request gets exactly the packet of that number, or nothing |
| Request sequences (`airplay.c`) | the session's state, pairing type, next sequence, requests in flight | sequence start and continue, one handler per answer | sequences divert into others, several run at once | bookkeeping exact, playback only after pairing |
| Sessions (`airplay.c`) | list of sessions, callback ids, failure timer | start, probe, authorize, stop, flush, volume, callback change, metadata, keep-alive, write, deinit | failure at any point, deferred failure, retry | every promised callback is made once; a stop ends |
| RTSP client (`evrtsp/rtsp.c`) | connection state, request queue, buffers, cipher and close callbacks | make request, dispatch, write, read, done, fail, reset, free | refusal, timeout, close with requests queued; responses in pieces while ciphering starts | the queue owns its requests; each gets its own, whole response |
| Audio streaming (`airplay.c`) | master sessions, input buffer, stamps | write, sync, resend | sessions join and leave between packets | no audio before sync, no gap |
| Outputs (`outputs.c`) | device list, 64 callback slots, 5 quality subscriptions, volumes | device calls, deferred callbacks, subscribe, write, volume | callbacks that call back; reused slots; rounding | no answer is lost, no freed device or session is pointed at |
| Worker (`worker.c`, `evthr.c`) | shared datagram socket, threads, delayed timers | execute, stop, free | full socket, stop with work pending, threads that could not be created | an accepted task runs; a thread is freed after it ended |
| Event channel (`airplay_events.c`) | client list, its own loop and thread, pending bytes | listen, incoming, deinit | two threads on one list, events in pieces | an event is handled once, in order, and answered |
| Command line (`cliairplay2.c`) | playback status, pipe buffer | pipe commands, play loop, exit | two threads without locks; a join of a thread that reads | STOP stops; the program ends |
| Pairing (`pair_ap`) | pairing contexts, cipher counters | setup, verify, encrypt, decrypt | loss after any message, split values, partial blocks | both ends agree on the secrets and the counters |
| Discovery (`mdns_avahi.c`, `mdns_dnssd.c`) | client, browsers, resolvers, entry group, watches | browse, resolve, register, poll | the daemon goes; devices come and go per interface and family; timers | nothing of an earlier client is used, no resolver is left behind, only usable addresses are passed on |
| The rest | | transcoding (FFmpeg), HTTP, DMAP, configuration, logging, cross-platform code | | |

How they interact: `outputs.c` calls the backend with a callback id and is told the
outcome with `outputs_cb(id, ...)`; `airplay.c` queues requests on an evrtsp connection
and gets `sequence_continue_cb`, or the close callback, from the event loop; the bodies
of the pairing requests come from `pair_ap`, whose ciphers then encrypt the connection
and the event channel. The player calls `airplay_write` with audio, which goes through
the RTP session of a master session to all sessions of that quality. Discovery calls
`airplay_device_cb`, which hands devices to the player. The session of a device is in
`device->session` as far as `outputs.c` knows it: `session_make` has the call that sets
it commented out (`airplay.c:1563-1565`), so `outputs.c` believes that no device has a
session, and its stop, flush and volume functions return at once.

## 2. Modules

| Module | Models | Uses |
|---|---|---|
| `RtpCommon` | `rtp_common.c` as operators on a session record | |
| `RetransmitWindow` | abstract: what the retransmit buffer promises | |
| `RtpSession` | one RTP session as `airplay.c` drives it | `RtpCommon`, `RetransmitWindow` |
| `RtpLemmas` | lemmas on remainders, for the proofs about the ring and the stream | `RtpCommon` |
| `RtpSessionProofs` | proofs | `RtpSession`, `RtpLemmas` |
| `AirplaySequence` | sequences, response handlers and the control connection as operators on a session record | |
| `AirplaySession` | the sessions of a device on the event loop | `AirplaySequence` |
| `AirplaySessionProofs` | what each operator keeps of a session, and proofs of the invariants | `AirplaySession` |
| `AirplayStream` | audio from one master session to several devices | `RtpCommon` |
| `AirplayStreamProofs` | proofs about the clock, the audio and what each device was sent | `AirplayStream`, `RtpLemmas` |
| `Outputs` | the device list, the callback register and the deferred handler of `outputs.c` | |
| `OutputsAudio` | quality subscriptions and encoders, `outputs_write`, master sessions | |
| `OutputsProofs` | proofs about the register and the devices, the master sessions and what a write hands on | `Outputs`, `OutputsAudio` |
| `OutputsVolume` | relative and master volumes | |
| `PairCrypto` | SRP in a small group; hashes, keys and ciphertexts as terms | |
| `PairTlv` | `pair-tlv.c` | |
| `PairHomekit` | the messages of `pair_homekit.c`, both sides | `PairCrypto`, `PairTlv` |
| `Pairing` | a client and a device that pair and verify | `PairHomekit` |
| `PairingProofs` | proofs about TLV lists, SRP and what both ends know | `Pairing` |
| `PairCipher` | `encrypt` and `decrypt` of `pair_homekit.c` | |
| `RtspRead` | how `rtsp.c` writes requests and reads responses from a byte stream | `PairCipher` |
| `RtspReadProofs` | proofs about the ciphering, the parsing and the connection | `RtspRead` |
| `WorkerPool` | `worker.c` over `evthr.c` | |
| `AirplayEvents` | `airplay_events.c` | |
| `CliPlayer` | both threads of `cliairplay2.c` | |
| `Discovery` | the Avahi client of `mdns_avahi.c` and `airplay_device_cb` | |
| `AvahiPoll` | the poll interface of `mdns_avahi.c` over libevent | |
| `DnsSd` | `mdns_dnssd.c`, the other implementation of `mdns.h` | |
| `PartsProofs` | proofs about the parts on their own | `WorkerPool`, `AirplayEvents`, `CliPlayer`, `Discovery`, `AvahiPoll`, `DnsSd`, `OutputsVolume` |
| `MCAirplaySession` | symmetry for TLC | `AirplaySession` |
| `MCOutputs` | the way of the audio to the devices, for TLC | `Outputs`, `OutputsAudio`, `AirplayStream`, `Pairing`, `RtspRead` |
| `MCParts` | the other parts that share no state, for TLC | `WorkerPool`, `AirplayEvents`, `CliPlayer`, `RtpSession`, `OutputsVolume`, `Discovery`, `AvahiPoll`, `DnsSd` |

**State and code.** In `AirplaySession`, `session[s]` is the `struct airplay_session`
allocated at `s` together with its `struct evrtsp_connection`: the fields keep their
names (`state`, `callback_id`, `next_seq`, `reqs_in_flight`, `pair_type`,
`req_has_auth`), `cipher` is `packet_cipher_hd # NULL`, `server` is `server_fd >= 0`,
`con` is `evcon->state` with all the states between WRITING and READING_TRAILER as BUSY,
`requests` is `evcon->requests`, `deferred` is `deferredev` pending, `closecb` the close
callback being set. A queued request carries its sequence and step (its `seq_ctx`).
`device` is the `output_device`; `calls[c]` records what `outputs_cb` was told under id
`c`.

**Actions.** One action is one callback of the event loop, or one call into the backend,
run to its end. So `RequestDone` is `evrtsp_connection_done` with the dispatch of the
next request, `sequence_continue_cb`, the response handler, and whatever it starts: the
next request, another sequence, the report and the end of the session. Each attempt to
build and send a request has an outcome chosen from `Outcomes`: sent, not built, the
payload function failing after it changed the session, or a connection attempt that
fails at once.

**Audio.** `AirplayStream` has what `AirplaySession` leaves out of `airplay_write`:
`rtp` is the master session's `rtp_session`, `buffered` its `input_buffer_samples`,
`sessions` the list `airplay_sessions` with the newest first (the one packet buffer
keeps the marker bit of the last session served). The states a session goes through
before CONNECTED, TEARDOWN and AUTH are one state there, since audio treats them alike;
how a session gets into a state is `AirplaySession`'s part, so here it may at any time.
One write is several steps, between which nothing else happens. There is one quality, as
in the program (`cliairplay2.c` gives the device the default quality,
`outputs_quality_subscribe` is commented out). `alac_encode` may succeed or fail; `told`
and `net` are history variables. A retransmit request from a device without an audio
socket is left out.

**Answers.** An answer is a status code, whether what the handler needs is good, and the
flags of GET /info. A handler that parses a plist, connects a socket or computes a
pairing step sees one of these values.

**Memory faults.** Where the code reads or frees memory that was freed (a request freed
by its caller while queued, the loop of `evrtsp_connectioncb` after the session ended)
the step may go on or end in phase `faulted`, in which nothing more happens. The
properties hold up to such a fault.

**SessionRegistered.** FALSE is the code as it stands, with `outputs_device_session_add`
commented out in `session_make`. TRUE is the same code with that one call made: only
then do stop, flush, volume and callback change reach a session. The run `commands` uses
it to check those operations; all the other runs use FALSE.

**Outputs.** A device is the address it was allocated at, `device[p]` its fields; an
address is used again after a free, so a stale pointer shows as a pointer to the wrong
device or to none. `register` is `outputs_cb_register`, where a callback the player
passes is known by its number. One call of the player, one report of a session and one
callback made by `deferred_cb` are actions; `walk` is the slot `deferred_cb` looks at
next, so that the player's calls come between any two callbacks, as they do when it
makes them in a callback. `work` is what is left of a loop over all devices
(`outputs_start` and the like). The backend is reduced to what `outputs.c` sees of it:
it takes a callback id, reports later or fails at once, and ends sessions when it likes.
A start may or may not record its session in the device, since the call that does is
commented out in `airplay.c` and the contract of `outputs.h` asks for it.
`device_list_sort`, the database and the metadata event are left out.

**Audio and volume of the outputs.** `OutputsAudio` has the parallel arrays of
subscriptions and encoders as sequences, so that removing one of several elements is the
shift the code makes, and the input quality changes under them. A quality whose encoder
cannot be set up is `Failed`. For an input without a profile or a decoder
`encoding_reset` returns before it has cleaned up any encoder (`outputs.c:288-301`), and
`buffer_fill` goes on with those of the former input, not to try again for this one
(`outputs.c:341-343`); `stale`, a history variable, says so. Master sessions subscribe
no more (`airplay.c` has it commented out) and still unsubscribe. The loop of
`buffer_fill` is the recursive function `Filled`. `OutputsVolume` computes with
integers. The master is the volume of the loudest device that has not failed, so when
the loudest fails, its relative volume is more than 100, and a change of the master
before that is computed anew can make its volume more than 100; the model goes on from
there. Of volumes up to 1677 the products are exact in C floats, which cut to int give
what the integers give, but for quotients that should come out exact and may fall short
of it: of volumes up to 100, 34 do in IEEE single precision, so that 53 of 100 is 52
percent and 21 of 5 is 419; `Short` has such pairs. The run takes all exact quotients
for short, the theorem any. The conversion of an infinity to int, when the master is 0,
gives `IntOfInfinity`, which is assumed to be no relative volume of the model (the usual
machines give the least or the greatest int).

**Threads.** In `WorkerPool` a step is a call that another thread can see: a send or
receive on a socket, the creation or join of a thread, a free. `AirplayEvents` splits
`client_add` between its last two lines, so that the other thread's `client_remove` can
come between them, and has the list as what is reached from its head; bytes are blocks,
an event two of them. `CliPlayer` has a step for each access to the shared status and
each call that may block; a command line is a token that says what it does to the
status.

**Discovery.** Objects of Avahi are of the client they were made with; in `Discovery` a
resolver is `<<name, protocol, client>>`, so that one kept past its client can be told.
What the devices announce and which of their addresses can be connected to is chosen
freely. A client made in place of a lost one may be running at once, before
`mdns_client` is set (`mdns_avahi.c:1098`, `1125`); then what `client_callback` makes is
of the client that was freed (`ClientAgain`). `AvahiPoll` has the rounds of libevent:
all that has fired is found first, and then told one by one, so that a callback can
update or free what waits to be told itself. `DnsSd` has the list of resolvers in its
order and a counter for the numbers their timers know them by.

**Pairing.** The client is that of `airplay.c`. The device is modelled with the
`server_` functions of the same file, which is what is known of it. A hash, a key and a
ciphertext are terms (equal exactly when made of equal parts); SRP is computed in a
group of 11 elements, so that both sides' formulas are really compared. TLV values
longer than 255 bytes are chunks. `PairCipher` and `RtspRead` treat bytes as positions
in what was sent (`at`) with their data, and the texts of a response as tokens, so that
a read can end anywhere, also after one byte of a block and between the CR and the LF of
a line, for which `cuts` keeps a note; a response is cut into blocks by the cipher
independently of its texts. The loop of `evrtsp_parse_headers` is a recursive function
of `HeaderTurn` over as many turns as there are bytes, which is enough since a turn
drains at least one. The device (`Serve`) deciphers with the same operators the client
does; it is known from its protocol only, and is marked external.

**Compositions.** `MCOutputs` and `MCParts` join modules with disjoint variables for one
run of TLC. A variable `part` is chosen at the start and says which of them takes steps:
the reachable states are those of each part, not their product.

## 3. Runs

| Run | Instance | Shows |
|---|---|---|
| `sessions` | 2 sessions, IPv6 with or without IPv4, 2 callback ids, 2 queued requests | bookkeeping, callbacks, pairing before playback |
| `commands` | 1 registered session, password and text metadata, 3 callback ids, 3 queued requests | commands, audio only with a socket, a stop ends |
| `live` | 1 session, IPv4, password and metadata, 2 callback ids | every callback is made |
| `outputs` | see below | register, devices and sessions never point at what was freed; qualities; audio and sync on time, in order and resendable; both ends of a pairing agree; whole responses in any pieces |
| `parts` | see below | what each of eight parts promises |
| `retry_ipv4` | violation | the IPv4 fall-back uses IPv6 again |
| `streaming_ready` | violation | CONNECTED without a session key |
| `request_owned` | violation | a freed request stays queued |
| `failure_told` | violation | a late failure is reported to nobody |
| `whole_response` | violation | a response cut between the CR and the LF of its status line reaches the callback without headers and body |
| `incomplete_ciphertext` | violation | a read that leaves the cipher a single byte fails the connection |
| `volume_scale` | violation | a device is given a volume above 100, and so muted |

**Bounds.** `MaxCallbacks` bounds the operations asked for, `MaxRequests` the requests
queued on one connection by the operations that add to it from outside (a sequence in
progress has one request queued at a time). Two sessions are enough for every step that
reads another session (metadata, keep-alive, write, deinit, allocation at an address
freed before). Three queued requests let a stop wait behind metadata and a volume
change.

`outputs` has 2 ids, 2 device addresses, 2 session addresses, a register of 2 and 2
callbacks of the player: two devices can fill the register, two ids can each be
announced again after a removal at an address used before, and an old session can end
after a new one of the same id began; the register of two needs both slots for the walk
of `deferred_cb` to be overtaken. 3 qualities, 2 of which can be subscribed, by 2
backends, and 2 streams. For the stream 2 devices, a ring of 2, 4 numbers, 8 positions,
packets of 2 samples and writes of 1 to 3: a write fills no packet, one or two, so that
samples stay in the input buffer, and the sync interval is shorter than the longest
write. For pairing a group of order 11, 2 pins, 3 salts, 5 exponents and 3 attempts: a
salt of `ShortSalts` stands for one that lost its leading zero bytes, and an exponent
for one that gives a key of any size; three attempts let a verification run with the
keys of a setup that a later one replaced. For reading blocks of 4 bytes with a tag of
1, bodies of 0 or 3 and 3 requests: a response takes several blocks, and a block, its
length and its tag are read in any pieces.

`parts` has 2 threads, 3 tasks and a socket for 2 (a full socket, a task in each thread,
one delayed); 2 event connections with 2 events of 2 blocks; 2 chunks of input and 2
lines; a ring of 3 with 8 numbers and 4 positions, which both wrap several times, as the
ring does; 2 speakers with the levels 0, 3 and 7, whose shares are not whole numbers; 1
service on 2 protocols over 2 clients with 2 browsers of each; 2 watches and 1 timeout,
so that a callback finds another one that has fired; and for dns_sd 2 services with 3
resolvers, so that a service comes back while the other's timer runs. `MaxVolume` is 120
there: a device at 7 that failed beside one at 3 comes to 16, and once more so to 37 and
to 86, and what has left 0..120 is not followed further (`VolumesBound`). In
`volume_scale` it is 300, with the levels 30 and 70.

**Reads that the code does not expect.** `outputs` has every read TCP can make. Two of
them go wrong, and the three properties of `RtspRead` say so: a read that leaves the
cipher a single byte, for which `decrypt` returns -1 (`pair_homekit.c:3010`) where
`evrtsp.h:142-146` expects 0 (`OnlyTimeoutFails` allows the failure of the cipher after
one); and a read that ends between the CR and the LF of the status line, which `rtsp.c`
takes for two line ends (all three promise nothing after one). The claims of the
comments, without these exceptions, are the properties of `incomplete_ciphertext` and
`whole_response`.

**What the models show of the code, without a run of its own.** They follow the code
here, and the properties are stated for what is left:

- a command in a state in which the backend ignores it has already dropped the callback
  that was registered for the device (`outputs.c:990`);
- an older session that ends clears the pointer of a newer session of the same id;
- the events thread's loop has no event when it starts, so it ends at once; a thread
  that does find a client keeps `airplay_events_deinit` waiting until all devices have
  disconnected (`airplay_events.c:475`, `541`);
- a task executed when the socket is full is dropped (`evthr.c:363`);
- `main` does not see that `platform_init` failed (it returns 1, `main` tests for < 0),
  destroys twice, and a line "=" cut out by the buffer ends the program
  (`cliairplay2.c:234`, `511`, `742`);
- audio whose input cannot be decoded is still encoded by the encoders of the input
  before it (`outputs.c:288-301`, `341-343`);
- when the daemon comes back so soon that the new client is running before
  `avahi_client_new` returns, its service browsers are made with the client that was
  freed (`mdns_avahi.c:1098`, `1125`);
- an entry group that was reset when the host name changed is not committed again when
  the client runs again (`mdns_avahi.c:1093`), and an address of one family found over
  the other is not withdrawn with the service;
- over dns_sd a withdrawn service reaches `airplay_device_cb` without a family, and
  withdraws nothing (`airplay.c:3756`); with two browsers, which this program does not
  make, one timer would end the resolver of the other, since numbers are counted per
  browser and looked up in all (`mdns_dnssd.c:700`, `784`).

**Comments that claim more.** Three comments of the streaming code hold only in the
weaker form that `outputs` checks. Resent packets "will be identical to the original"
(`airplay.c:1855`): the marker bit, outside the encrypted part, is that of the last
session served (`ResentAudio`). Devices that joined have been sent "initialization sync
and rtp packets" (`airplay.c:4006`): no packet, if the write fills none; the first one
then comes unmarked, though with the time of the initial sync (`SyncedBeforeAudio`).
"received = (pos - X) + rms->input_buffer_samples" (`airplay.c:2045`): less the samples
`alac_encode` refused (`MediaClock`). As the code stands the encoder is not set up
(`airplay.c:1126-1150`); the model takes `alac_encode` to answer or to fail.

**Fairness.** `FairSpec` assumes that a connection attempt ends (connected or refused),
that a dispatched request ends (answered or failed) and that a zero timer fires: evrtsp
arms a timeout for connecting, writing and reading, and libevent runs what is due.
`PoolFair` assumes that a created thread runs, reads its sockets while it is in its
loop, that a task returns and a timer fires, and that the player takes the metadata a
task prepared. `CliFair` assumes that both threads run and that an input which has not
ended arrives. Nothing is assumed of the player's commands, the devices' answers, the
writer of the pipe or the network. `CHECK_DEADLOCK FALSE` is set where the program may
really stop: after `Deinit`, a fault or an exit, when all bounded calls are made and
answered, or when nobody speaks any more.

## 4. Proofs

`RtpSessionProofs` proves, for every ring size, every width of the counters and every
set of payloads with a ring smaller than the sequence space (`RtpAssumption`):

- `TypeCorrect`: the type invariant, which is left out of the run;
- `RingNumbered`: the inductive invariant, that the k-th slot back from the write
  position holds a packet whose number is the next number less k, modulo the sequence
  space. The type invariant alone says nothing of which packet is where, so
  `RetransmitExact` is not inductive without it;
- `RetransmitCorrect`: `rtp_packet_get` answers as the abstract window does;
- `XorEquivalence` and `XorCorrect`: the XOR test is the range test its comment gives,
  for all integers;
- `Refinement`: the ring implements `RetransmitWindow`.

The argument: packet k back has number `nextSeq - k`; the ring is smaller than the
number space, so these numbers differ; the XOR test picks out exactly the numbers at a
distance of 1 to `pktbuf_len`, and the index `rtp_packet_get` computes is the slot at
that distance.

`AirplaySessionProofs` proves, for every number of sessions, callbacks and queued
requests, every configuration and every set of addresses (`SequenceAssumption`,
`SessionAssumption`, and `NoSessionAssumption`: NULL is not a session):

- `TypeCorrect`: the type invariant, with every queued request at a step of its
  sequence;
- `RequestsCorrect`: `RequestsCounted`, the bookkeeping of `reqs_in_flight` and the
  close callback;
- `CallbackCorrect`: `CallbackOwed`, for `SessionRegistered = FALSE`, the code as it is;
- `LatestCallbackCorrect`: `LatestCallbackOwed`, for both values, so also when commands
  replace pending callbacks;
- `EstablishedCorrect`: a session audio is written to has a connected data socket;
- `CipheredCorrect`: without a password configured, playback is set up on a session with
  a session key only.

The type invariant and `RequestsCounted` are inductive only together (`Core`):
`reqs_in_flight` stays a natural number because the head of the queue is in flight when
it is dequeued, and the queue of a busy connection has a head because of the
bookkeeping. Lemmas show operator by operator that a sound session stays sound and keeps
its callback id; `DequeuedSound` counts the requests of the tail by a bijection. On top
of them every action is one of four kinds (`StepKind`): a
callback is promised (`Asked`), a session has an event that leaves the callback owed,
made, or gone with the session (`Event`), every session stays with its callback
(`Stays`), or `Deinit`. `CallbackOwed` needs more to be inductive (`Promised`): no two
sessions owe the same callback, an id not handed out is owed by none, and the device has
no session registered, so that no command replaces a callback. `PromisedLatest` says the
same of the latest id alone, where older ones may have been replaced.

The last two theorems rest on the order of a session's setup (`Orderly`), which neither
states: of the queued requests at most one belongs to a sequence that sets the session
up (`Alone`), and each queued request is `Due`, its session having what the steps before
it obtained (a pairing's key, the sockets of SETUP). `NoSetup` carries it over the
operations that may come in between; keep-alive, metadata and volume requests set up
nothing.

`AirplayStreamProofs` proves, for every number of devices and every size of a packet, a
write, the output buffer and the position counter, as long as the output buffer holds a
packet less one sample and, with one write, is shorter than the counter's range
(`StreamAssumption`; 352 samples, 2 seconds and 2^32 in the code):

- `TypeCorrect`: the type invariant, with the list of sessions and the life of the
  master session;
- `MediaClockCorrect`: `MediaClock`, what a stamp promises about the samples received
  later;
- `AudioAheadCorrect`: `AudioAhead`, no packet late and none much too early;
- `NothingSkippedCorrect`: `NothingSkipped`, consecutive numbers and times up to the
  next packet for every device that plays;
- `ResentCorrect`: `ResentAudio`, the same audio, number and time for a packet asked for
  again;
- `SyncedOftenCorrect`: `SyncedOften`, no more audio without a sync packet than the
  interval and what one write sends;
- `SyncedBeforeCorrect`: the action property `SyncedBeforeAudio`, that the first packet
  has the time of the initial sync packet.

`AudioAhead` is not inductive: it forgets how much of a write was sent already, so one
more packet could pass its bound. `Lead` has the bound less the samples still buffered,
and `InputHeld` says that between writes less than a packet is buffered, which puts the
first packet of the next write within `Lead`. The type invariant needs that every write
has a stamp and a master session (`InputHeld`), since positions and samples are numbers
only then. The arithmetic modulo the counter's range is in lemmas about remainders
within two moduli (`StampArithmetic`, `DistanceGrows`, `PacketTaken`, and those of
`RtpLemmas`).

The last four rest on `ToldInv`, which joins what a device was sent to the ring it was
taken from. `Heard`: the i-th of the last packets a device was sent is, but for the
marker bit, the packet in the slot as far back in the ring, with its number and time
(`SentBack`). So packets follow each other because the slots do, and a packet asked for
is found because `rtp_packet_get` finds the slot (`GetBack`). Without the ring neither
property is inductive. `Served` devices that were sent nothing yet have the initial sync
at the position of the next packet. For the sync interval, what a device got without a
sync is at most the counter all devices share, and `CounterOK` bounds the counter
together with what the write under way has still to send. Beyond the conditions above
this needs a sync interval that is not 0, which `rtp_session_new` replaces by the sample
rate (`rtp_common.c:87`), and a ring smaller than the sequence space.

`OutputsProofs` proves, for any number of ids, addresses, sessions, calls and slots, and
whichever device `outputs_device_get` finds first (`OutputsAssumption`, and
`NullAssumption`: NULL is no address, session or id):

- `TypeCorrect`: the type invariant;
- `SessionPointersCorrect`, `RegisterCorrect`, `AnswersCorrect`: the invariants of the
  run;
- `DevicesCorrect`: no callback gets a device that was removed.

The invariant `IInv` has three parts. `DevicesSound`: ids are unique in the list and a
session pointer leads to a live session of that id. Uniqueness is what makes it
inductive, since a session that ends is looked up by id and clears one pointer.
`RegisterSound`: one slot for an address, and a slot that is ready is still before the
walk or has an event. `RestSound`: the types of the rest, with the addresses of `work`
in the list. The slot the code finds by counting up is the least one that will do; that
there is one is by well-foundedness.

Its part about `OutputsAudio` has `MastersCorrect` for any qualities and streams:
`AudioInv` says that the list of master sessions names no quality twice and has one
exactly while a stream uses it; `RemoveAtPlaces` says what the list has after one
element is taken out. And `ServedCorrect`, for any number of qualities and backends: no
quality is subscribed twice, every encoder is to the quality of its subscription, and
unless a subscription is new or the last reset returned early it is from the quality of
the last input (`SubsInv`), which is what lets a write go on without a reset; and the
loop of `buffer_fill` adds a piece for each encoder that works and no other.

`PartsProofs` has the parts that share no state with the rest:

- `FreedCorrect`, for any number of threads and tasks. The invariant is `JoinedInOrder`:
  `evthr_pool_stop` joins from the first thread on, what was created and joined has
  ended, and a pool is freed only when all joins have returned.
- `HeededCorrect`, for input and commands of any length: main begins a read only when
  the status is PLAYING, so no chunk was late before it (`OneReadLate`).
- `HandledCorrect`, for any number of connections, events and chunks. `HandledInOrder`
  tells only of what was handled; `EventsInOrder` adds that the events still in the
  stream come in the order sent, after those handled. What is parsed of the stream is
  shown to begin at the first plist in it.
- `VolumesCorrect`, for any number of devices and levels and any `MaxVolume` up to 1677,
  whichever exact quotients fall short. The invariant `VolumeInv` has that each selected
  device follows the master, and, until a device fails, that volumes are in 0 to 100,
  none is louder than the master and one is as loud (`LoudestLeads`). `RelativeFollows`
  is the arithmetic: cutting twice loses at most one for each hundred of the master,
  rounded up. The steps from a volume outside 0 to `MaxVolume` are not claimed, as the C
  floats are not modelled for them.
- `ResolversCorrect` and `KnownCorrect` together (`DiscoveryInv`), `WatchesCorrect`
  (`PollInv`) and, for dns_sd, `ResolversEndCorrect`: the numbers of the resolvers
  differ and are at most the counter, and no service has two resolvers (`SdInv`), so a
  timer finds its own resolver and a withdrawal the only one.

`PairingProofs` proves, for any pins, salts, private values and number of attempts,
chunks of any size and every modulus N in which the generator has an inverse
(`PairCryptoAssumption`; N is not assumed to be a prime):

- `TlvRoundTrip`: a list of TLV values is parsed as it was formatted, of however many
  chunks each value is, and nothing else is found in it. The values of one list differ
  in type and none is empty (`Sendable`), as in every message here;
- `SrpAgrees`: for the same salt and pin, the client's `(B - k g^x)^(a + u x)` and the
  device's `(A v^u)^b` are the same;
- `SecretsCorrect`, `DeviceFirstCorrect`, `RefusedCorrect`: the invariants of the run.

`PairingAssumption` says that `None`, which stands for NULL, is none of the values a
field may have, and that salts and private values are natural numbers.

The three invariants say nothing of a message on its way, so none of them is inductive.
`PairingInv` has one predicate for each message of the two protocols (`Setup1` to
`Setup6`, `Verify1` to `Verify4`, and the two refusals): the message is what its sender
makes of its context now, and what it implies of both contexts. So when M4 of a
transient setup is on its way the device has completed with its session key, and the
proof in it is of that key; with M6, the device has saved the client's key or forgotten
it since. A message is read as it was sent by `MessageRoundTrip`, which rests on
`TlvRoundTrip`. `SetupRefusedForCause` then goes through the client's checks of the
messages that can be there: M4 is refused for a different proof, which with the pin of
the device cannot be, by `SrpAgrees`.

`RtspReadProofs` proves, for bodies, blocks and tags of any size and any number of
requests (`RtspReadAssumption`, `PairCipherAssumption`):

- `CipherRoundTrip`: wherever the bytes of enciphered data are cut, `decrypt` returns
  the start of the data, and leaves bytes that with those still to come are the
  encipherment of the rest at the counter it returns; uncut, it returns all;
- `ResponsesCorrect`, `FailuresCorrect` and `WaitingCorrect`: the three invariants of
  the run, of `ReadSpec` with every read it has (see *Reads that the code does not
  expect* for what they promise after two of them).

The invariant is `ReadInv`: once the device has closed the connection, or a status line
was cut, nothing is claimed; before, `Sound` holds. `WritingRight`: what the device has
received and what is still to be written are together one request, enciphered or not.
`ReadingRight`: there is a number `came` such that the first `came` bytes of the
response were parsed as far as they can be (`ParsedRight`), and what waits to be
deciphered and is on its way is the rest, under the counter of the client. `IdleRight`:
no buffer holds anything. None of the three properties mentions the state of the parser,
so this is what makes them inductive. Two chains of lemmas carry the step of a read:
`CipherRoundTrip` for the bytes, and for the texts that parsing a piece more from where
an earlier read stopped gives what parsing all of it at once gives, stage by stage (the
status line, each header turn, the body), which ends at DONE exactly when the last byte
came and leaves no input.

**Induction over data.** The induction theorems of the library take an operator as a
parameter, which the provers cannot instantiate. For one concrete recursive function the
same is reached by the least number at which it would go wrong (`LeastOf`, from
well-foundedness); the proofs about `buffer_fill` (`Filled`), the loop of
`callback_add`, TLV lists, modular powers, `encrypt`, `decrypt` and the header loop go
that way.

**Model-checked only.** Liveness (`CallbackMade`, `StopEnds`, `TaskServed`,
`PlayerEnds`), which needs fairness and ENABLED. Every other invariant and safety
property of a passing run is a theorem above.

## 5. What could follow

1. `AirplayStream`: the progress times of `metadata_rtptimes_get` (`airplay.c:889`),
   whose MAX of two positions ignores that they wrap, as operators on its stamp.
2. `Outputs` composed with the callback ids of `AirplaySession`, over an abstract
   contract of an operation: its callback is made once, and with its own outcome. It
   does not hold of the code as it stands (a slot is reused), so the contract has to say
   when.
3. The timing service, and the pairing requests of `pair_fruit.c`.

## 6. Not modelled

- Transcoding (`transcode.c`): a wrapper of FFmpeg. That encoding can fail is in
  `AirplayStream` and `OutputsAudio`.
- Plist, DMAP and HTTP, configuration, logging, the helpers of `misc.c`: formatting,
  parsing and I/O without protocol state. What a handler needs of a plist is a value of
  its answer.
- The cross-platform and HTTP fetcher libraries: wrappers of the operating system.
- `pair_fruit.c` and the add, remove and list requests of `pair_homekit.c`: this program
  uses none of them. Cryptographic functions are terms.
- In `airplay.c`: `SEQ_FAILURE`, which is never started; auth-setup, as
  `AIRPLAY_USE_AUTH_SETUP` is 0; the digest of an authentication header; the timing
  service, which answers from the clock alone.
- In `cliairplay2.c`: the parsing of the arguments (their outcome is chosen) and the
  metadata of the pipe.
