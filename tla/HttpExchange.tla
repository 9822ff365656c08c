---------------------------- MODULE HttpExchange ----------------------------
(***************************************************************************)
(* HTTP/1 exchanges on one proxied connection: ReadRequest, ReadResponse   *)
(* and proxyHTTPRequest with its body copies (cmd/proxy/http.go,           *)
(* pkg/protocol/http), inside the connection loop that makes a new         *)
(* bufio.Reader for every request (outbound.go, inbound.go).               *)
(*                                                                         *)
(* A stream is a sequence of units: "h" a header block, "d" a byte of      *)
(* data, "1" and "0" chunk-size lines, "n" the line CRLF, "t" a trailer    *)
(* line.  A header block is the record of what the framing code reads.     *)
(***************************************************************************)
EXTENDS Integers, Sequences, SequencesExt

CONSTANTS Requests,     \* requests: [method, close, te, cl, expect, body]
          Responses,    \* responses: [status, close, te, cl, upgrade, body, hangup]
          MaxRequests   \* bound: requests on the connection

VARIABLES count,        \* requests the client has begun
          cur,          \* the last request the client has begun
          queue,        \* the requests begun whose header was not read
          ahead,        \* the client began a request before its turn
          toSend,       \* its units not yet sent
          sock,         \* units sent and not read by the proxy
          buf,          \* the bufio.Reader of this turn of the loop
          phase,        \* the proxy: where it stands in the exchange
          need,         \* what the body copy expects next
          req, resp,    \* the headers read
          up,           \* units of the response not yet relayed
          dropped,      \* units of the client thrown away with a reader
          misread       \* a chunked request was read that the code takes for another

vars == <<count, cur, queue, ahead, toSend, sock, buf, phase, need, req, resp, up, dropped, misread>>

----------------------------------------------------------------------------
(* Framing decisions.                                                      *)

\* requestIsChunked.  te is the sequence of Transfer-Encoding lines, each the
\* sequence of its codings: every line is compared as a whole, and only the
\* first (Header.Get) is split at its commas.
requestIsChunked(r) == \/ <<"chunked">> \in ToSet(r.te)
                       \/ r.te # <<>> /\ "chunked" \in ToSet(r.te[1])

\* Its body is chunked, as that of every request with codings, and the code
\* does not see it: "chunked" stands in a later line, behind another coding.
Misread(r) == r.te # <<>> /\ ~requestIsChunked(r)

Fixed(k) == IF k = 0 THEN <<"done", 0>> ELSE <<"data", k>>

\* Fault: a length is believed although the body is chunked.
requestBodyByLength(r) == IF r.cl > 0 THEN Fixed(r.cl)
                          ELSE IF requestIsChunked(r) THEN <<"size", 0>> ELSE <<"done", 0>>

\* The switch of writeHTTPRequest.
requestBody(r) == IF requestIsChunked(r) THEN <<"size", 0>>
                  ELSE IF r.cl > 0 THEN Fixed(r.cl) ELSE <<"done", 0>>

\* parseTransferEncoding: a response is chunked only if "chunked" is all its one
\* header line says (te of a response: the codings of its lines); ReadResponse
\* drops the error for anything else.
responseChunked(s) == s.te = <<"chunked">>

responseHasNoBody(r, s) == r.method = "HEAD" \/ s.status \in (100..199) \cup {204, 304}

\* Fault: a body that ends with the connection is not copied.
responseBodyNoClose(r, s) ==
    IF responseHasNoBody(r, s) THEN <<"done", 0>>
    ELSE IF responseChunked(s) THEN <<"size", 0>>
    ELSE IF s.cl >= 0 THEN Fixed(s.cl) ELSE <<"done", 0>>

\* The switch of proxyHTTPBody.
responseBody(r, s) ==
    IF responseHasNoBody(r, s) THEN <<"done", 0>>
    ELSE IF responseChunked(s) THEN <<"size", 0>>
    ELSE IF s.cl >= 0 THEN Fixed(s.cl)
    ELSE IF s.close THEN <<"eof", 0>> ELSE <<"done", 0>>

\* Fault: one unit too many is awaited.
TakeOneMore(n, u) == IF n[1] = "data" THEN IF n[2] > 0 THEN <<"data", n[2] - 1>> ELSE <<"done", 0>>
                     ELSE <<"done", 0>>

\* One unit through proxyChunkedBody or copyFixedLength: what is expected
\* after unit u.  "error" is a line that is no chunk size.
Take(n, u) ==
    CASE n[1] = "data"    -> IF n[2] > 1 THEN <<"data", n[2] - 1>> ELSE <<"done", 0>>
      [] n[1] = "size"    -> IF u = "1" THEN <<"chunk", 0>>
                             ELSE IF u = "0" THEN <<"trailer", 0>> ELSE <<"error", 0>>
      [] n[1] = "chunk"   -> <<"crlf", 0>>
      [] n[1] = "crlf"    -> <<"size", 0>>
      [] n[1] = "trailer" -> IF u = "n" THEN <<"done", 0>> ELSE n
      [] n[1] = "eof"     -> n

----------------------------------------------------------------------------
NoHead == [method |-> "", close |-> FALSE, te |-> <<>>, cl |-> -1, expect |-> FALSE, body |-> <<>>]
NoResp == [status |-> 0, close |-> FALSE, te |-> <<>>, cl |-> -1, upgrade |-> FALSE,
           body |-> <<>>, hangup |-> FALSE]

Init == /\ count = 0 /\ cur = NoHead /\ queue = <<>> /\ ahead = FALSE /\ toSend = <<>> /\ sock = <<>> /\ buf = <<>>
        /\ phase = "peek" /\ need = <<"done", 0>> /\ req = NoHead /\ resp = NoResp
        /\ up = <<>> /\ dropped = FALSE /\ misread = FALSE

Idle == phase = "peek" /\ up = <<>> /\ sock = <<>> /\ buf = <<>>

\* The client begins a request: when the last response is complete, or
\* before that if it pipelines.
Begin(r) == /\ count < MaxRequests /\ toSend = <<>>
            /\ phase \in {"peek", "body", "wait", "relay"}
            /\ ahead' = (ahead \/ ~Idle)
            /\ count' = count + 1 /\ cur' = r /\ queue' = Append(queue, r)
            /\ toSend' = <<"h">> \o r.body
            /\ UNCHANGED <<sock, buf, phase, need, req, resp, up, dropped, misread>>

\* One more unit reaches the proxy.  A client that sent Expect: 100-continue
\* keeps the body back until it sees a response.
ClientSends == /\ toSend # <<>>
               /\ cur.expect => Head(toSend) = "h"
               /\ sock' = Append(sock, Head(toSend)) /\ toSend' = Tail(toSend)
               /\ UNCHANGED <<count, cur, queue, ahead, buf, phase, need, req, resp, up, dropped, misread>>

\* bufio reads from the socket: whatever has arrived, up to some unit.
Fill(k) == /\ buf = <<>> /\ phase \in {"peek", "body"}
           /\ buf' = SubSeq(sock, 1, k) /\ sock' = SubSeq(sock, k + 1, Len(sock))
           /\ UNCHANGED <<count, cur, queue, ahead, toSend, phase, need, req, resp, up, dropped, misread>>

\* ReadRequest, the dial, and writeHTTPRequest up to the body.  Once the proxy is
\* out of step with its client the model does not follow it through a header.
ReadRequest == /\ phase = "peek" /\ buf # <<>> /\ Head(buf) = "h" /\ ~dropped /\ ~misread
               /\ buf' = Tail(buf) /\ req' = Head(queue) /\ queue' = Tail(queue)
               /\ need' = requestBody(req')
               /\ phase' = IF req'.method = "CONNECT" THEN "tunnel"
                           ELSE IF need'[1] = "done" THEN "wait" ELSE "body"
               /\ resp' = NoResp /\ up' = <<>> /\ misread' = Misread(req')
               /\ UNCHANGED <<count, cur, ahead, toSend, sock, dropped>>

\* The loop peeks and what it finds is no method of HTTP: the rest of the stream
\* is passed through raw (outbound.go:86-110).
NotHttp == /\ phase = "peek" /\ buf # <<>> /\ Head(buf) # "h"
           /\ phase' = "tunnel"
           /\ UNCHANGED <<count, cur, queue, ahead, toSend, sock, buf, need, req, resp, up, dropped, misread>>

\* net.Dial fails: an answer is made up and the connection is done.
DialFails == /\ phase = "peek" /\ buf # <<>> /\ Head(buf) = "h"
             /\ phase' = "closed"
             /\ UNCHANGED <<count, cur, queue, ahead, toSend, sock, buf, need, req, resp, up, dropped, misread>>

\* proxyChunkedBody and copyFixedLength on the request.
CopyRequestBody == /\ phase = "body" /\ buf # <<>>
                   /\ buf' = Tail(buf) /\ need' = Take(need, Head(buf))
                   /\ phase' = CASE need'[1] = "done" -> "wait" [] need'[1] = "error" -> "closed" [] OTHER -> "body"
                   /\ UNCHANGED <<count, cur, queue, ahead, toSend, sock, req, resp, up, dropped, misread>>

\* What a server sends behind the header: nothing in answer to HEAD.
Sent(r, s) == IF r.method = "HEAD" THEN <<>> ELSE s.body

\* ReadResponse and writeHTTPResponse.  After a 101 the tunnel reads from the
\* connection, not from respReader: of the units behind the header, the first
\* k, which came with it, are gone.
ReadResponse(s, k) ==
    /\ phase = "wait"
    /\ resp' = s
    /\ IF s.status = 101 /\ s.upgrade
       THEN /\ phase' = "tunnel" /\ need' = <<"done", 0>>
            /\ up' = SubSeq(s.body, k + 1, Len(s.body))
       ELSE /\ k = 0
            /\ phase' = "relay" /\ need' = responseBody(req, s) /\ up' = Sent(req, s)
    /\ UNCHANGED <<count, cur, queue, ahead, toSend, sock, buf, req, dropped, misread>>

\* proxyHTTPBody relays one unit, or meets the end of the stream.
RelayBody == /\ phase = "relay" /\ need[1] # "done"
             /\ IF up # <<>>
                THEN /\ need' = Take(need, Head(up)) /\ up' = Tail(up)
                     /\ phase' = IF need'[1] = "error" THEN "closed" ELSE "relay"
                ELSE /\ resp.hangup
                     /\ need' = <<"done", 0>> /\ up' = up
                     /\ phase' = IF need[1] = "eof" THEN "relay" ELSE "closed"
             /\ UNCHANGED <<count, cur, queue, ahead, toSend, sock, buf, req, resp, dropped, misread>>

\* proxyHTTPRequest returns and the upstream connection is closed; the loop
\* goes round with a new reader unless one side asked to close.
EndExchange == /\ phase = "relay" /\ need[1] = "done"
               /\ IF req.close \/ resp.close
                  THEN phase' = "done" /\ UNCHANGED <<buf, dropped>>
                  ELSE phase' = "peek" /\ buf' = <<>> /\ dropped' = (dropped \/ buf # <<>>)
               /\ UNCHANGED <<count, cur, queue, ahead, toSend, sock, need, req, resp, up, misread>>

Next == \/ \E r \in Requests : Begin(r)
        \/ ClientSends \/ ReadRequest \/ NotHttp \/ DialFails \/ CopyRequestBody \/ RelayBody \/ EndExchange
        \/ \E k \in 1..Len(sock) : Fill(k)
        \/ \E s \in Responses : \E k \in 0..Len(s.body) : ReadResponse(s, k)

Spec == Init /\ [][Next]_vars

----------------------------------------------------------------------------
(* Properties.                                                             *)

\* A client that does not pipeline is always read from a message boundary:
\* whatever the framing headers of its requests, the loop never takes a part
\* of a body for the next request, and no byte of it is thrown away.  There is
\* one exception, a request whose "chunked" requestIsChunked does not find
\* (http.go:335-347): its body is left in the stream.
InSync == (phase = "peek" /\ ~ahead /\ ~misread)
          => /\ ~dropped
             /\ (buf \o sock \o toSend) # <<>> => Head(buf \o sock \o toSend) = "h"

\* An exchange that ends without an error has relayed its response in full except in three
\* cases: an interim (1xx) response, a body that only the end of the stream
\* delimits without Connection: close, and a coding other than "chunked".
LossIsExplained ==
    (phase \in {"peek", "done"} /\ up # <<>>)
    => \/ resp.status \in 100..199
       \/ resp.cl < 0 /\ ~resp.close /\ ~responseChunked(resp)

\* The client has nothing to send, or keeps the body back.
ClientWaits == toSend = <<>> \/ (cur.expect /\ Head(toSend) # "h")

\* The proxy and the client wait for each other, without a deadline, only when
\* the client waits for 100 (Continue), which the proxy cannot relay before it
\* has the whole body, or when a length was believed of a misread request.
MutualWaitOnlyByExpect ==
    (phase = "body" /\ buf = <<>> /\ sock = <<>> /\ ~dropped /\ ClientWaits)
    => cur.expect \/ misread

----------------------------------------------------------------------------
(* What peers send: assumptions on the messages, from the HTTP grammar and *)
(* not from the code that reads them.                                      *)

Unit == {"h", "d", "1", "0", "n", "t"}

\* The chunked body at the start of b is complete with its n-th unit: chunks
\* of one byte with their CRLF, the last-chunk line, trailers, the empty line.
Chunks(b, k) == \A j \in 0..(k - 1) : b[3 * j + 1] = "1"
EndsAt(b, n) == \E k \in 0..n : /\ Chunks(b, k) /\ 3 * k + 1 < n
                               /\ b[3 * k + 1] = "0" /\ b[n] = "n"
                               /\ \A j \in (3 * k + 2)..(n - 1) : b[j] # "n"

\* A request has the body its header announces, with "chunked" as the last
\* coding of the last line if there is one.
RequestFramed(r) ==
    IF r.te # <<>> THEN Last(Last(r.te)) = "chunked" /\ EndsAt(r.body, Len(r.body))
    ELSE Len(r.body) = IF r.cl > 0 THEN r.cl ELSE 0

\* A final response may be cut short or malformed; it does not go on behind
\* the end that its header gives it.
ResponseFramed(s) ==
    \/ s.status \in 100..199
    \/ /\ s.status \in {204, 304} => s.body = <<>>
       /\ s.te = <<"chunked">> => \A n \in 0..(Len(s.body) - 1) : ~EndsAt(s.body, n)
       /\ s.cl >= 0 => (s.te = <<>> /\ Len(s.body) <= s.cl) \/ s.status = 304

Request == [method : STRING, close : BOOLEAN, te : Seq(Seq(STRING)), cl : Int,
            expect : BOOLEAN, body : Seq(Unit)]
Response == [status : Nat, close : BOOLEAN, te : Seq(STRING), cl : Int, upgrade : BOOLEAN,
             body : Seq(Unit), hangup : BOOLEAN]

PeersAreFramed == /\ Requests \subseteq Request /\ \A r \in Requests : RequestFramed(r)
                  /\ Responses \subseteq Response /\ \A s \in Responses : ResponseFramed(s)

----------------------------------------------------------------------------
(* The inductive invariant of the exchanges.                               *)

\* Everything of the client that the proxy has not taken yet.
Stream == buf \o sock \o toSend

\* The copy that began body b in state from expects n after i units.
Reads(from, b, i, n) ==
    CASE from[1] = "size" ->
             \/ \E k \in 0..i : n = <<"size", 0>> /\ i = 3 * k /\ Chunks(b, k)
             \/ \E k \in 0..i : n = <<"chunk", 0>> /\ i = 3 * k + 1 /\ Chunks(b, k + 1)
             \/ \E k \in 0..i : n = <<"crlf", 0>> /\ i = 3 * k + 2 /\ Chunks(b, k + 1)
             \/ \E k \in 0..i : /\ n = <<"trailer", 0>> /\ 3 * k + 1 <= i /\ Chunks(b, k)
                                /\ b[3 * k + 1] = "0"
                                /\ \A j \in (3 * k + 2)..i : b[j] # "n"
             \/ n = <<"done", 0>> /\ EndsAt(b, i)
      [] from[1] = "data" -> i <= from[2] /\ n = Fixed(from[2] - i)
      [] from[1] = "eof"  -> n = from
      [] from[1] = "done" -> i = 0 /\ n = from

\* s begins with what is left of b behind its first i units.
Rest(b, i, s) == Len(b) - i <= Len(s) /\ \A j \in 1..(Len(b) - i) : s[j] = b[i + j]

\* A request with body b stands in s behind its first p units.
Message(s, p, b) == /\ p + 1 + Len(b) <= Len(s)
                    /\ s[p + 1] = "h"
                    /\ \A j \in 1..Len(b) : s[p + 1 + j] = b[j]

\* Behind its first off units, s consists of the requests of q.
Cut(off, q, s, pos) ==
    /\ pos[0] = off /\ pos[Len(q)] = Len(s)
    /\ \A i \in 0..Len(q), j \in 0..Len(q) : i <= j => pos[i] <= pos[j]
    /\ \A i \in 1..Len(q) : /\ pos[i] = pos[i - 1] + 1 + Len(q[i].body)
                            /\ Message(s, pos[i - 1], q[i].body)
Holds(off, q, s) == \E pos \in [0..Len(q) -> off..Len(s)] : Cut(off, q, s, pos)

ExTypeOK ==
    /\ phase \in {"peek", "body", "wait", "relay", "tunnel", "closed", "done"}
    /\ queue \in Seq(Requests)
    /\ toSend \in Seq(Unit) /\ sock \in Seq(Unit) /\ buf \in Seq(Unit) /\ up \in Seq(Unit)
    /\ phase \in {"body", "wait", "relay"} => req \in Requests
    /\ phase = "relay" => resp \in Responses

\* Nothing of the client is lost: where the proxy stands in its stream.
Aligned ==
    ~dropped /\ ~misread =>
        /\ phase \in {"peek", "wait", "relay"} => Holds(0, queue, Stream)
        /\ phase = "body" => ~Misread(req)
        /\ phase = "body" =>
             \E i \in 0..(Len(req.body) - 1) :
                /\ Reads(requestBody(req), req.body, i, need)
                /\ need[1] # "done"
                /\ Rest(req.body, i, Stream)
                /\ Holds(Len(req.body) - i, queue, Stream)

\* A client that does not pipeline has begun no request during an exchange.
InTurn == ~ahead /\ ~misread =>
                    /\ ~dropped /\ Len(queue) <= 1
                    /\ phase \in {"body", "wait", "relay"} => queue = <<>>

\* Where the relay stands in the response.
Relayed ==
    phase = "relay" =>
        \/ need = <<"done", 0>> /\ up = <<>>
        \/ LET sent == Sent(req, resp)
           IN  \E i \in 0..Len(sent) : /\ Len(up) = Len(sent) - i /\ Rest(sent, i, up)
                                       /\ Reads(responseBody(req, resp), sent, i, need)

ExchangeInv == ExTypeOK /\ Aligned /\ InTurn /\ Relayed /\ LossIsExplained
=============================================================================
