------------------------------- MODULE RtspRead -------------------------------
(***************************************************************************)
(* How src/src/evrtsp/rtsp.c writes requests and reads the responses, over *)
(* a stream that takes and delivers them in any pieces, before and after   *)
(* the callback of some response turned on the ciphering of the connection *)
(* (rtsp_cipher of airplay.c over PairCipher). One request at a time is    *)
(* made, as the sequences of AirplaySequence do.                           *)
(***************************************************************************)
EXTENDS PairCipher, SequencesExt

CONSTANTS
  Bodies,        \* sizes of the bodies of requests and responses
  MaxRequests    \* bound: requests made

ASSUME RtspReadAssumption == Bodies \subseteq Nat /\ MaxRequests \in Nat

VARIABLES
  state,       \* evcon->state
  output_raw,  \* evcon->output_raw: bytes of the request that were not written
  arrived,     \* bytes of the request the device has
  stream,      \* bytes of the response that were not read
  input_raw,   \* evcon->input_raw: bytes read and not decrypted
  input,       \* evcon->input_buffer: text not parsed
  req,         \* the request at the head of evcon->requests, as parsed so far
  answered,    \* the responses of the device
  delivered,   \* the responses given to callbacks
  ciphercb,    \* evcon->ciphercb is set
  encrypted,   \* encryption_counter of the device
  decrypted,   \* decryption_counter of the client
  written,     \* encryption_counter of the client
  served,      \* decryption_counter of the device
  closed,      \* the device closed the connection
  failed,      \* why evrtsp_connection_fail was called
  cuts         \* history: "byte", a read left rtsp_cipher a single byte; "cr", a read ended
               \* between the CR and the LF of a status line

writeVars == <<output_raw, arrived, written, served, encrypted, answered>>
readVars == <<writeVars, state, stream, input_raw, input, req, delivered, ciphercb, decrypted,
              closed, failed, cuts>>

Key == DecryptionKey(0)

-----------------------------------------------------------------------------
(* What a device answers: a status line, headers, an empty line and a body *)

Text(kind, value) == [kind |-> kind, value |-> value]
CR == Text("cr", 0)
LF == Text("lf", 0)

Body(size) == [i \in 1..size |-> Text("body", i)]

\* A line for each of the headers.
HeaderLines(headers) == FlattenSeq([i \in DOMAIN headers |-> <<headers[i], CR, LF>>])

\* A response without a body has no Content-Length; all have some other header (CSeq).
ResponseHeaders(n, size) ==
  (IF size = 0 THEN <<>> ELSE <<Text("length", size)>>) \o <<Text("header", n)>>

Response(n, size) ==
  <<Text("status", n), CR, LF>> \o HeaderLines(ResponseHeaders(n, size)) \o <<CR, LF>> \o Body(size)

\* What the callback gets of it.
WholeResponse(n, size) == [code |-> n, body |-> Body(size), headers |-> ResponseHeaders(n, size)]

NewRequest == [code |-> 0, headers |-> <<>>, body |-> <<>>]

ReadInit ==
  /\ state = "IDLE" /\ stream = <<>> /\ input_raw = <<>> /\ input = <<>> /\ req = NewRequest
  /\ answered = <<>> /\ delivered = <<>>
  /\ output_raw = <<>> /\ arrived = <<>>
  /\ ciphercb = FALSE /\ encrypted = 0 /\ decrypted = 0 /\ written = 0 /\ served = 0
  /\ closed = FALSE /\ failed = "no" /\ cuts = {}

-----------------------------------------------------------------------------
(* Parsing; c is a connection [state, input, req]                           *)

IsEol(t) == t.kind \in {"cr", "lf"}

\* The text after position i.
After(text, i) == SubSeq(text, i + 1, Len(text))

\* evrtsp_parse_response_line, with evrtsp_valid_response_code
ResponseLine(line) == Len(line) = 1 /\ line[1].kind = "status" /\ line[1].value # 0

\* evrtsp_parse_firstline: the line ends at the first CR or LF, EVBUFFER_EOL_ANY, and the
\* whole run of them is drained.
ParseFirstline(c) ==
  LET eol == SelectInSeq(c.input, IsEol)
      next == SelectInSubSeq(c.input, eol, Len(c.input), LAMBDA t : ~IsEol(t))
  IN IF c.state # "READING_FIRSTLINE" \/ eol = 0 THEN c
     ELSE IF ~ResponseLine(SubSeq(c.input, 1, eol - 1)) THEN [c EXCEPT !.state = "CORRUPTED"]
     ELSE [c EXCEPT !.input = IF next = 0 THEN <<>> ELSE After(@, next - 1),
                    !.req.code = c.input[1].value, !.state = "READING_HEADERS"]

\* evbuffer_readln with EVBUFFER_EOL_CRLF: where the first line ends, at an LF, or 0; a CR
\* before the LF is no part of the line.
LineEnd(text) == SelectInSeq(text, LAMBDA t : t = LF)
FirstLine(text) ==
  LET end == LineEnd(text) IN
  SubSeq(text, 1, IF end > 1 /\ text[end - 1] = CR THEN end - 2 ELSE end - 1)

\* Lines evrtsp_add_header takes; a line without a colon is an error.
IsHeader(line) == Len(line) = 1 /\ line[1].kind \in {"length", "header"}

\* evrtsp_add_header, which appends
AddHeader(headers, h) == Append(headers, h)

\* One turn of the loop of evrtsp_parse_headers, which ends at the empty line, at a line that
\* is no header, or when there is no whole line.
HeaderTurn(c) ==
  LET line == FirstLine(c.input)
      next == [c EXCEPT !.input = After(@, LineEnd(c.input))]
  IN IF c.state # "READING_HEADERS" \/ LineEnd(c.input) = 0 THEN c
     ELSE IF line = <<>> THEN [next EXCEPT !.state = "READING_BODY"]
     ELSE IF ~IsHeader(line) THEN [next EXCEPT !.state = "CORRUPTED"]
     ELSE [next EXCEPT !.req.headers = AddHeader(@, line[1])]

\* evrtsp_parse_headers; a turn takes a byte or more.
ParseHeaders(c) ==
  LET turn[n \in 0..Len(c.input)] == IF n = 0 THEN c ELSE HeaderTurn(turn[n - 1])
  IN turn[Len(c.input)]

\* evrtsp_find_header: the first header with the name, 0 if there is none.
FindHeader(headers, kind) == SelectInSeq(headers, LAMBDA h : h.kind = kind)

\* evrtsp_get_body_length: the Content-Length, or 0.
BodyLength(headers) ==
  LET first == FindHeader(headers, "length") IN IF first = 0 THEN 0 ELSE headers[first].value

\* Mutant: the body is what there is.
ReadBodyShort(c) ==
  IF c.state # "READING_BODY" THEN c
  ELSE [c EXCEPT !.req.body = c.input, !.input = <<>>, !.state = "DONE"]

\* evrtsp_read_body waits for the whole body and takes no more than it.
ReadBody(c) ==
  IF c.state # "READING_BODY" \/ Len(c.input) < BodyLength(c.req.headers) THEN c
  ELSE [c EXCEPT !.req.body = SubSeq(c.input, 1, BodyLength(c.req.headers)), !.state = "DONE",
                 !.input = After(@, BodyLength(c.req.headers))]

\* evrtsp_read_message and the functions it goes on with until they want more data.
Parsed(c) == ReadBody(ParseHeaders(ParseFirstline(c)))

-----------------------------------------------------------------------------
(* What a request is written as *)

\* The method, a name for each type, evrtsp_method
RequestLine(n) == <<Text("method", n), CR, LF>>

\* Mutant: a body that comes without a length gets none.
MakeHeaderRequestBare(headers, body) == headers

\* evrtsp_make_header_request: a body has to have a length.
MakeHeaderRequest(headers, body) ==
  IF body # <<>> /\ FindHeader(headers, "length") = 0
  THEN AddHeader(headers, Text("length", Len(body))) ELSE headers

\* evrtsp_make_header; the names and values of the program have no line breaks.
MakeHeader(n, headers, body) ==
  RequestLine(n) \o HeaderLines(MakeHeaderRequest(headers, body)) \o <<CR, LF>> \o body

\* The device reads a request it has all of: the line, headers to an empty line, and a body.
Understood(text) ==
  LET c == ParseHeaders([state |-> "READING_HEADERS", input |-> After(text, LineEnd(text)), req |-> NewRequest])
  IN /\ LineEnd(text) # 0 /\ text[1].kind = "method"
     /\ c.state = "READING_BODY" /\ Len(c.input) = BodyLength(c.req.headers)

-----------------------------------------------------------------------------
(* The connection *)

\* evrtsp_connection_done calls the callback with what was parsed of the response; the
\* callback of some response, with a body that pairing takes, sets the cipher,
\* session_cipher_setup of airplay.c.
ConnectionDone(r) ==
  /\ state' = "IDLE" /\ delivered' = Append(delivered, r) /\ req' = NewRequest
  /\ ciphercb' \in {ciphercb, ciphercb \/ r.body # <<>>}
  /\ UNCHANGED failed

\* evrtsp_connection_fail, with evrtsp_connection_reset.
ConnectionFail(why) ==
  /\ state' = "DISCONNECTED" /\ failed' = why
  /\ input' = <<>> /\ input_raw' = <<>> /\ stream' = <<>> /\ req' = NewRequest
  /\ UNCHANGED <<delivered, ciphercb>>

\* evrtsp_request_dispatch of the next request; airplay.c gives none a Content-Length.
Request ==
  /\ state = "IDLE" /\ ~closed /\ Len(answered) < MaxRequests
  /\ state' = "WRITING"
  /\ \E size \in Bodies :
       LET n == Len(answered) + 1
           text == MakeHeader(n, <<Text("header", n)>>, Body(size)) IN
       /\ output_raw' = IF ciphercb THEN Encrypted(EncryptionKey(0), written, text) ELSE text
       /\ written' = written + (IF ciphercb THEN Blocks(text) ELSE 0)
  /\ UNCHANGED <<arrived, served, encrypted, answered, stream, input_raw, input, req, delivered,
                 ciphercb, decrypted, closed, failed, cuts>>

\* Mutant: the bytes of an incomplete block are drained too.
DecipheredDrained(bytes, key, counter) ==
  IF ciphercb THEN [Decrypted(bytes, key, counter) EXCEPT !.rest = <<>>]
  ELSE [ok |-> TRUE, data |-> bytes, rest |-> <<>>, counter |-> counter]

\* rtsp_cipher of bytes, when it is set; without it all is text.
Deciphered(bytes, key, counter) ==
  IF ciphercb THEN Decrypted(bytes, key, counter)
  ELSE [ok |-> TRUE, data |-> bytes, rest |-> <<>>, counter |-> counter]

\* The device answers what it understands, in the clear or with the keys of the channel, as
\* both agreed in the response before; of anything else it waits for more.
Serve(bytes) ==
  LET d == Deciphered(bytes, DecryptionKey(2), served) IN
  IF ~d.ok \/ d.rest # <<>> \/ ~Understood(d.data)
  THEN arrived' = bytes /\ UNCHANGED <<served, encrypted, answered, stream>>
  ELSE /\ arrived' = <<>> /\ served' = d.counter
       /\ \E size \in Bodies :
            LET n == d.data[1].value   answer == Response(n, size) IN
            /\ stream' = stream \o (IF ciphercb THEN Encrypted(Key, encrypted, answer) ELSE answer)
            /\ encrypted' = encrypted + (IF ciphercb THEN Blocks(answer) ELSE 0)
            /\ answered' = Append(answered, WholeResponse(n, size))

\* evrtsp_write_connectioncb: when all is written the response is read.
WriteConnectioncb == state' = IF output_raw' = <<>> THEN "READING_FIRSTLINE" ELSE state

\* evrtsp_write: the socket takes n bytes.
WriteSome(n) ==
  /\ state = "WRITING" /\ ~closed /\ n <= Len(output_raw)
  /\ output_raw' = SubSeq(output_raw, n + 1, Len(output_raw))
  /\ WriteConnectioncb /\ Serve(arrived \o SubSeq(output_raw, 1, n))
  /\ UNCHANGED <<written, input_raw, input, req, delivered, ciphercb, decrypted, closed, failed, cuts>>

\* evrtsp_write with EV_TIMEOUT, or to a connection that is closed
WriteFails ==
  /\ state = "WRITING" /\ ConnectionFail(IF closed THEN "eof" ELSE "timeout")
  /\ UNCHANGED <<writeVars, decrypted, closed, cuts>>

Reading == state \in {"READING_FIRSTLINE", "READING_HEADERS", "READING_BODY"}

\* What is odd about where a read ended.
CutsOf(raw, text) ==
  (IF ciphercb /\ Len(raw) = 1 THEN {"byte"} ELSE {})
    \cup (IF state = "READING_FIRSTLINE" /\ text # <<>> /\ Last(text) = CR /\ LineEnd(text) = 0
          THEN {"cr"} ELSE {})

\* evrtsp_read: n bytes, whatever the network has delivered, are read, decrypted as far as
\* they make whole blocks, and parsed.
Read(n) ==
  /\ Reading /\ n <= Len(stream)
  /\ LET raw == input_raw \o SubSeq(stream, 1, n)
         d == Deciphered(raw, Key, decrypted)
         c == Parsed([state |-> state, input |-> input \o d.data, req |-> req])
     IN /\ cuts' = cuts \cup CutsOf(raw, input \o d.data)
        /\ decrypted' = IF d.ok THEN d.counter ELSE decrypted
        /\ IF ~d.ok THEN ConnectionFail("cipher")
           ELSE IF c.state = "CORRUPTED" THEN ConnectionFail("header")
           ELSE /\ stream' = SubSeq(stream, n + 1, Len(stream))
                /\ input' = c.input /\ input_raw' = d.rest
                /\ IF c.state = "DONE" THEN ConnectionDone(c.req)
                   ELSE state' = c.state /\ req' = c.req /\ UNCHANGED <<delivered, ciphercb, failed>>
  /\ UNCHANGED <<writeVars, closed>>

\* The device closes the connection; what it has sent can still be read.
Close ==
  /\ ~closed /\ closed' = TRUE /\ \E n \in 0..Len(stream) : stream' = SubSeq(stream, 1, n)
  /\ UNCHANGED <<writeVars, state, input_raw, input, req, delivered, ciphercb, decrypted, failed, cuts>>

\* evrtsp_read gets 0: the callback is called with what there is of the response.
ReadClosed ==
  /\ Reading /\ closed /\ stream = <<>>
  /\ ConnectionDone(req)
  /\ UNCHANGED <<writeVars, stream, input_raw, input, decrypted, closed, cuts>>

\* evrtsp_detect_close_cb: an idle connection that can be read, for whatever reason.
DetectClose ==
  /\ state = "IDLE" /\ (closed \/ stream # <<>>)
  /\ state' = "DISCONNECTED" /\ input' = <<>> /\ input_raw' = <<>> /\ stream' = <<>>
  /\ UNCHANGED <<writeVars, req, delivered, ciphercb, decrypted, closed, failed, cuts>>

\* evrtsp_read with EV_TIMEOUT
ReadTimeout ==
  /\ Reading /\ ConnectionFail("timeout")
  /\ UNCHANGED <<writeVars, decrypted, closed, cuts>>

MaxWire == 64    \* bound: bytes of one read or write

ReadNext ==
  \/ Request \/ WriteFails \/ Close \/ ReadClosed \/ DetectClose \/ ReadTimeout
  \/ \E n \in 1..MaxWire : WriteSome(n) \/ Read(n)

ReadSpec == ReadInit /\ [][ReadNext]_readVars
-----------------------------------------------------------------------------
(* Properties *)

(* While the device keeps the connection, callbacks get whole responses, each that of its    *)
(* own request, in whatever pieces they come, but for one: a read that ended between the CR  *)
(* and the LF of a status line ends the headers where they begin (rtsp.c:600-605).           *)
ResponseExact == ~closed /\ "cr" \notin cuts => IsPrefix(delivered, answered)

(* A connection that the device keeps fails for a timeout, and for nothing that was read,    *)
(* but in two cases: the cipher, which was left a single byte (pair_homekit.c:3010), and what *)
(* comes of a status line that was cut.                                                      *)
OnlyTimeoutFails ==
  ~closed /\ "cr" \notin cuts =>
    failed \in {"no", "timeout"} \cup (IF "byte" \in cuts THEN {"cipher"} ELSE {})

(* Once all of a response was read its callback was made, and nothing is left: no data      *)
(* waits in a buffer for a read event that would never come, and the counters of both ends   *)
(* agree, also over the response that turned the ciphering on; unless a status line was cut. *)
NothingWaits ==
  stream = <<>> /\ ~closed /\ "cr" \notin cuts =>
    /\ ~Reading
    /\ state = "IDLE" =>
         input = <<>> /\ input_raw = <<>> /\ decrypted = encrypted /\ arrived = <<>> /\ served = written

(* rtsp.c:600-605: "Reads data into a buffer structure until ... we have read all the data   *)
(* that we wanted to read. Execute callback when done".                                      *)
CallbackWhenAllRead == ~closed => IsPrefix(delivered, answered)

(* evrtsp.h:142-146: "If the callback receives an incomplete ciphertext were nothing can be  *)
(* decrypted it should just leave the buffers and return 0".                                 *)
IncompleteCiphertextWaits == ~closed => failed # "cipher"
=============================================================================
