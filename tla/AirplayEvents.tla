----------------------------- MODULE AirplayEvents -----------------------------
(***************************************************************************)
(* The event channel, src/src/airplay_events.c: the thread that is to read *)
(* the events devices send over a reverse connection, the list of clients  *)
(* it shares with the player's thread without a lock, and what it does     *)
(* with an event. The list is a sequence, its head first, that may still   *)
(* name a client that was freed. A client is known by its connection.      *)
(***************************************************************************)
EXTENDS Integers, Sequences

CONSTANTS
  Conns,       \* event connections sessions can make
  MaxEvents    \* bound: events sent on a connection

ASSUME AirplayEventsAssumption == MaxEvents \in Nat

VARIABLES
  evthread,    \* "none", "created", "dispatching", "exited", "joined"
  clients,     \* airplay_events_clients, as what is reached from it
  adding,      \* what client_add, between its last two lines, set as next: <<client, list>>
  conn,        \* conn[c]: "free", "listening", "removed"
  sent,        \* sent[c]: events the device has sent; an event is its number
  stream,      \* stream[c]: encrypted blocks not read or not whole, <<event, part>>
  pending,     \* client->pending: blocks decrypted, not parsed
  handled,     \* handled[c]: events given to handle_event
  responses    \* responses[c]: answers written, the counters of the cipher their places

eventVars == <<evthread, clients, adding, conn, sent, stream, pending, handled, responses>>

EventsInit ==
  /\ evthread = "none" /\ clients = <<>> /\ adding = <<>>
  /\ conn = [c \in Conns |-> "free"] /\ sent = [c \in Conns |-> 0]
  /\ stream = [c \in Conns |-> <<>>] /\ pending = [c \in Conns |-> <<>>]
  /\ handled = [c \in Conns |-> <<>>] /\ responses = [c \in Conns |-> <<>>]

ChannelsUnchanged == UNCHANGED <<sent, stream, pending, handled, responses>>

-----------------------------------------------------------------------------
(* The player's thread *)

\* airplay_events_init
EventsCreate ==
  /\ evthread = "none" /\ evthread' = "created"
  /\ UNCHANGED <<clients, adding, conn>> /\ ChannelsUnchanged

\* client_add, up to the line that reads the list; the thread may have an event of the client
\* before the next.
ClientAdd(c) == conn' = [conn EXCEPT ![c] = "listening"] /\ adding' = <<c, clients>>

\* airplay_events_listen, where it can connect to the device.
Listen(c) ==
  /\ evthread \notin {"none", "joined"} /\ conn[c] = "free" /\ adding = <<>>
  /\ ClientAdd(c)
  /\ UNCHANGED <<evthread, clients>> /\ ChannelsUnchanged

\* The line of client_add that writes it.
ListenAdded ==
  /\ adding # <<>> /\ adding' = <<>> /\ clients' = <<adding[1]>> \o adding[2]
  /\ UNCHANGED <<evthread, conn>> /\ ChannelsUnchanged

\* airplay_events_deinit joins the thread and frees the clients; it waits for a loop that
\* nothing breaks.
EventsDeinit ==
  /\ evthread = "exited" /\ adding = <<>> /\ evthread' = "joined"
  /\ clients' = <<>> /\ UNCHANGED adding
  /\ conn' = [c \in Conns |-> IF c \in {clients[i] : i \in DOMAIN clients} THEN "removed" ELSE conn[c]]
  /\ ChannelsUnchanged

-----------------------------------------------------------------------------
(* The events thread *)

\* event_base_dispatch returns when the base has no event.
Dispatch ==
  /\ evthread \in {"created", "dispatching"}
  /\ evthread' = IF \E c \in Conns : conn[c] = "listening" THEN "dispatching" ELSE "exited"
  /\ UNCHANGED <<clients, adding, conn>> /\ ChannelsUnchanged

\* client_free
ClientFree(c) == conn' = [conn EXCEPT ![c] = "removed"]

\* The list of client_remove: what there is up to the client and what follows it.
Without(list, c) ==
  IF \E i \in DOMAIN list : list[i] = c
  THEN LET i == CHOOSE j \in DOMAIN list : list[j] = c
       IN SubSeq(list, 1, i - 1) \o SubSeq(list, i + 1, Len(list))
  ELSE list

ClientRemove(c) == clients' = Without(clients, c) /\ ClientFree(c)

\* An event is a message with headers and a plist, which has its trailer at the end.
Message(e) == <<<<e, "headers">>, <<e, "bplist">>, <<e, "trailer">>>>

\* buffer_decrypt takes the first n blocks, those that are whole.
BufferDecrypt(c, n) == pending[c] \o SubSeq(stream[c], 1, n)

\* body_find: from the first plist on, to the end of what is pending.
BodyFind(blocks) ==
  LET starts == {i \in DOMAIN blocks : blocks[i][2] = "bplist"} IN
  IF starts = {} THEN <<>>
  ELSE SubSeq(blocks, CHOOSE i \in starts : \A j \in starts : i <= j, Len(blocks))

\* rtsp_parse: 0 for what it does not take, or the event. It is sure only of one plist; more
\* may parse too, as the trailer of the last then gives offsets that fall into the first.
RtspParse(blocks) ==
  LET body == BodyFind(blocks) IN
  IF body = <<>> \/ body[Len(body)][2] # "trailer" THEN {0}
  ELSE IF Len(body) = 2 THEN {body[1][1]} ELSE {0, body[1][1]}

\* Mutant: only what is not an event is drained.
DrainedUnlessEvent(blocks, e) == IF e = 0 THEN <<>> ELSE blocks

\* What is left pending: rtsp_parse never returns the 1 for which incoming_cb would keep it.
Drained(blocks, e) == <<>>

\* handle_event: the player, whose functions do nothing here, is called.
HandleEvent(c, e) == handled' = [handled EXCEPT ![c] = Append(@, e)]

\* response_create_from_raw and response_headers_add, with no body and no CSeq
Response == [status |-> 200, cseq |-> 0]

\* buffer_encrypt
BufferEncrypt(written, plain) == Append(written, <<Len(written), plain>>)

\* respond: the answer is written, or cannot be encrypted or written.
Respond(c) == responses' = [responses EXCEPT ![c] = BufferEncrypt(@, Response)]
RespondFails == UNCHANGED responses

\* incoming_cb: what can be read is decrypted and parsed, and drained whether it is an
\* event or not; an event is handled and answered, and if that fails the client removed.
Incoming(c) ==
  /\ evthread = "dispatching" /\ conn[c] = "listening"
  /\ \E n \in 1..Len(stream[c]) :
       /\ stream' = [stream EXCEPT ![c] = SubSeq(@, n + 1, Len(@))]
       /\ \E e \in RtspParse(BufferDecrypt(c, n)) :
            /\ pending' = [pending EXCEPT ![c] = Drained(BufferDecrypt(c, n), e)]
            /\ IF e = 0 THEN UNCHANGED <<handled, clients, conn, responses>>
               ELSE /\ HandleEvent(c, e)
                    /\ \/ Respond(c) /\ UNCHANGED <<clients, conn>>
                       \/ RespondFails /\ ClientRemove(c)
  /\ UNCHANGED <<evthread, adding, sent>>

\* The device closes the connection, or sends what cannot be decrypted.
Disconnected(c) ==
  /\ evthread = "dispatching" /\ conn[c] = "listening" /\ ClientRemove(c)
  /\ UNCHANGED <<evthread, adding>> /\ ChannelsUnchanged

\* The device sends the next event, in blocks that may end where its parts do.
DeviceSends(c) ==
  /\ conn[c] = "listening" /\ sent[c] < MaxEvents
  /\ sent' = [sent EXCEPT ![c] = @ + 1]
  /\ stream' = [stream EXCEPT ![c] = @ \o Message(sent[c] + 1)]
  /\ UNCHANGED <<evthread, clients, adding, conn, pending, handled, responses>>

EventsNext ==
  \/ EventsCreate \/ ListenAdded \/ EventsDeinit \/ Dispatch
  \/ \E c \in Conns : Listen(c) \/ Incoming(c) \/ Disconnected(c) \/ DeviceSends(c)

EventsSpec == EventsInit /\ [][EventsNext]_eventVars

-----------------------------------------------------------------------------
(* Properties *)

(* Whatever pieces the stream comes in, an event is handled at most once and events in    *)
(* the order the device sent them; each is answered unless that fails.                   *)
HandledInOrder ==
  \A c \in Conns :
    /\ \A i, j \in DOMAIN handled[c] : i < j => handled[c][i] < handled[c][j]
    /\ Len(handled[c]) - Len(responses[c]) \in (IF conn[c] = "listening" THEN {0} ELSE {0, 1})
=============================================================================
