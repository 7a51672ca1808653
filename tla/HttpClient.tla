----------------------------- MODULE HttpClient -----------------------------
(***************************************************************************)
(* net/http and net/connection_pool: requests to one host that share a     *)
(* pool of keep-alive connections. A request is a coroutine: request_once  *)
(* takes a pooled connection or makes one, send_with_transport writes the  *)
(* request, reads the answer and gives the connection back; what fails on  *)
(* a connection that may have been pooled is sent again on a fresh one.    *)
(*                                                                         *)
(* An answer is a sequence of units, the head, chunks or pieces of a body  *)
(* and the last chunk; a read ends between two units and takes some of     *)
(* those that have arrived. A step is what a coroutine does between two    *)
(* waits; requests are on different loops, and the pool has a mutex.       *)
(***************************************************************************)
EXTENDS Naturals, Sequences, SequencesExt

CONSTANTS
    Request,   \* coroutines that make requests
    Streaming, \* those with a body handler
    Stopping,  \* those whose handler stops at the finish piece (OpenAI)
    Conn,      \* connections that can exist at a time
    tls,       \* the host is https
    max_connections_per_host,
    Answers,   \* what the server may answer to each request
    Pieces,    \* pieces of text in an answer
    FinishAt   \* the piece that says the text is finished

NoConn == "no connection"

ASSUME HttpAssumption ==
    /\ NoConn \notin Conn
    /\ Stopping \subseteq Streaming /\ Streaming \subseteq Request
    /\ tls \in BOOLEAN
    /\ max_connections_per_host \in Nat
    /\ Answers \in [Request -> SUBSET [status : {"ok", "busy", "bad"},
                                       framing : {"chunked", "fixed", "bare"},
                                       reuse : BOOLEAN]]
    /\ Pieces \in Nat \ {0} /\ FinishAt \in 1..Pieces

VARIABLES
    pool,      \* idle connections, the most recently used last
    incoming,  \* what the server sends on a connection, as far as it is unread
    server,    \* the server's end: "none", "open", "silent",
               \* "closed" or "reset"
    http,      \* the coroutine of each request
    cancelled  \* requests whose token is cancelled

httpVars == <<pool, incoming, server, http, cancelled>>

NoAnswer == [status |-> "none", framing |-> "bare", reuse |-> FALSE]
Idle == [at |-> "idle", conn |-> NoConn, reused |-> FALSE, session |-> FALSE,
         fresh |-> FALSE, answer |-> NoAnswer, own |-> TRUE, length |-> 0,
         reusable |-> FALSE, tokens |-> <<>>, result |-> "none"]

\* What a coroutine knows of an exchange is gone when it ends.
Left(h, at) == [Idle EXCEPT !.at = at, !.reused = h.reused, !.fresh = h.fresh,
                            !.own = h.own, !.tokens = h.tokens]

HttpInit ==
    /\ pool = <<>>
    /\ incoming = [c \in Conn |-> <<>>] /\ server = [c \in Conn |-> "none"]
    /\ http = [r \in Request |-> Idle]
    /\ cancelled = {}

-----------------------------------------------------------------------------
(* The server.                                                             *)

Unit(r, what, a, n) == [what |-> what, of |-> r, answer |-> a, n |-> n]

\* The bytes of an answer: the head, the pieces, and after the chunks of a
\* chunked body the last chunk with the empty line.
Units(r, a) ==
    <<Unit(r, "head", a, 0)>>
        \o [n \in 1..Pieces |-> Unit(r, "data", a, n)]
        \o IF a.framing = "chunked" THEN <<Unit(r, "last", a, 0)>> ELSE <<>>

\* The server or the network ends the connection or falls silent. What the
\* server had still to send is lost; a reset also loses what has arrived.
ServerFails(c, how) ==
    /\ server[c] = "open" \/ (server[c] \in {"silent", "closed"} /\ how = "reset")
    /\ server' = [server EXCEPT ![c] = how]
    /\ \E k \in 0..Len(incoming[c]) :
        /\ how = "reset" => k = 0
        /\ incoming' = [incoming EXCEPT ![c] = SubSeq(@, 1, k)]
    /\ UNCHANGED <<pool, http, cancelled>>

-----------------------------------------------------------------------------
(* The pool.                                                               *)

\* is_socket_alive peeks: unread data or nothing yet, but no end of file.
Alive(c) == server[c] \in {"open", "silent"} \/ incoming[c] # <<>>

Discard(c) ==
    /\ incoming' = [incoming EXCEPT ![c] = <<>>]
    /\ server' = [server EXCEPT ![c] = "none"]

DiscardAll(cs) ==
    /\ incoming' = [c \in Conn |-> IF c \in cs THEN <<>> ELSE incoming[c]]
    /\ server' = [c \in Conn |-> IF c \in cs THEN "none" ELSE server[c]]

\* request_once asks for the size of the pool before it takes from it.
request_once(r) ==
    /\ http[r].at = "idle"
    /\ http' = [http EXCEPT ![r] = [Idle EXCEPT !.at = "acquire", !.reused = pool # <<>>]]
    /\ UNCHANGED <<pool, incoming, server, cancelled>>

\* acquire: the youngest connection that is alive; the dead ones met on the
\* way are dropped. Every connection of a TLS host in the pool has a session.
AcquirePooled(r) ==
    /\ http[r].at = "acquire"
    /\ \E i \in DOMAIN pool :
        /\ Alive(pool[i]) /\ \A j \in i+1..Len(pool) : ~Alive(pool[j])
        /\ pool' = SubSeq(pool, 1, i - 1)
        /\ DiscardAll({pool[j] : j \in i+1..Len(pool)})
        /\ http' = [http EXCEPT ![r] = [@ EXCEPT !.at = "send", !.conn = pool[i],
                                                 !.session = tls,
                                                 !.reused = http[r].reused \/ tls]]
    /\ UNCHANGED cancelled

\* Nothing in the pool, or all of it dead or idle for too long (if the
\* youngest is too old, so are the others): connect. An error or a time-out
\* of the connect made in acquire is not caught by request_once.
AcquireNew(r) ==
    /\ http[r].at = "acquire"
    /\ pool' = <<>>
    /\ DiscardAll({pool[j] : j \in DOMAIN pool})
    /\ http' = [http EXCEPT ![r].at = "connect"]
    /\ UNCHANGED cancelled

async_connect(r) ==
    /\ http[r].at = "connect"
    /\ \E c \in Conn : server[c] = "none"
    /\ LET c == CHOOSE c \in Conn : server[c] = "none"
       IN  /\ server' = [server EXCEPT ![c] = "open"]
           /\ http' = [http EXCEPT ![r] =
                  [@ EXCEPT !.at = IF tls THEN "handshake" ELSE "send", !.conn = c]]
    /\ UNCHANGED <<pool, incoming, cancelled>>

ConnectFails(r) ==
    /\ http[r].at = "connect"
    /\ http' = [http EXCEPT ![r].at = "done", ![r].result = "threw"]
    /\ UNCHANGED <<pool, incoming, server, cancelled>>

\* release: the pool keeps at most max_connections_per_host.
release(c, unread) ==
    IF Len(pool) >= max_connections_per_host THEN Discard(c) /\ UNCHANGED pool
    ELSE /\ pool' = Append(pool, c)
         /\ incoming' = [incoming EXCEPT ![c] = unread]
         /\ UNCHANGED server

-----------------------------------------------------------------------------
(* The end of an exchange, whose coroutine is in the local state h.        *)

\* Mutant: what fails on a fresh connection is sent again as well.
SendsAgain_Always(h, why) == why # "timeout" /\ ~h.fresh

\* The handler of request_once: a response time-out is final, and so is a
\* failure of request_fresh.
SendsAgain(h, why) == why # "timeout" /\ h.reused /\ ~h.fresh

\* An exception leaves send_with_transport or the handshake.
Fail(r, h, why) ==
    /\ Discard(h.conn) /\ UNCHANGED pool
    /\ http' = [http EXCEPT ![r] =
          IF SendsAgain(h, why) THEN [Left(h, "connect") EXCEPT !.fresh = TRUE]
          ELSE [Left(h, "done") EXCEPT
                    !.result = IF why = "cancelled" THEN "cancelled" ELSE "threw"]]

\* send_with_transport has an answer; reusable is what body_complete and
\* connection_reusable say together. A reused TLS connection that ended
\* before the head counts as failed.
Finish(r, h, unread) ==
    IF h.answer.status = "none" /\ h.session THEN Fail(r, h, "eof")
    ELSE /\ IF h.reusable THEN release(h.conn, unread) ELSE Discard(h.conn) /\ UNCHANGED pool
         /\ http' = [http EXCEPT ![r] = [Left(h, "done") EXCEPT !.result = h.answer.status]]

Go(r, h) == http' = [http EXCEPT ![r] = h] /\ UNCHANGED <<pool, incoming, server>>

-----------------------------------------------------------------------------
(* Writing and reading.                                                    *)

handshake(r) ==
    /\ http[r].at = "handshake"
    /\ \/ server[http[r].conn] = "open" /\ Go(r, [http[r] EXCEPT !.at = "send"])
       \/ server[http[r].conn] # "silent" /\ Fail(r, http[r], "handshake")
    /\ UNCHANGED cancelled

\* write_all. The server answers what reaches it, and closes after an answer
\* that does not allow reuse; a request to a closed connection is lost.
Send(r) ==
    /\ http[r].at = "send"
    /\ LET c == http[r].conn
           h == [http[r] EXCEPT !.at = "head"]
       IN  \/ server[c] = "reset" /\ Fail(r, http[r], "write")
           \/ server[c] \in {"silent", "closed"} /\ Go(r, h)
           \/ /\ server[c] = "open"
              /\ \E a \in Answers[r] :
                    /\ incoming' = [incoming EXCEPT ![c] = @ \o Units(r, a)]
                    /\ server' = [server EXCEPT ![c] = IF a.reuse THEN @ ELSE "closed"]
              /\ http' = [http EXCEPT ![r] = h]
              /\ UNCHANGED pool
    /\ UNCHANGED cancelled

-----------------------------------------------------------------------------
(* read_response and the handler, which do not wait: what they make of one *)
(* more unit of the answer.                                                *)

\* The client's parser has met the finish reason; it lasts for the call.
ParserStopped(r, h) == r \in Stopping /\ \E i \in DOMAIN h.tokens : h.tokens[i] = FinishAt

\* on_body_chunk of the clients: it throws once the token is cancelled, and
\* wants no more once the parser has stopped.
Handle(r, h, u) ==
    IF r \notin Streaming THEN h
    ELSE IF r \in cancelled THEN [h EXCEPT !.at = "throws"]
    ELSE LET g == [h EXCEPT !.tokens = IF h.answer.status = "ok" /\ ~ParserStopped(r, h)
                                       THEN Append(@, u.n) ELSE @]
         IN  IF ParserStopped(r, g) THEN [g EXCEPT !.at = "stops"] ELSE g

ParseHead(h, u) ==
    [h EXCEPT !.answer = u.answer,
              !.at = CASE u.answer.framing = "chunked" -> "chunked"
                       [] u.answer.framing = "fixed" -> "fixed"
                       [] OTHER -> IF u.answer.reuse THEN "bare" ELSE "rest"]

\* Mutant: the rest of the body is left on the connection.
StopChunked_NoDrain(h) == [h EXCEPT !.at = "over", !.reusable = h.answer.reuse]

\* The handler wants no more of a chunked body: if the server allows reuse
\* the rest is drained.
StopChunked(h) == [h EXCEPT !.at = IF h.answer.reuse THEN "drop" ELSE "over"]

\* read_chunked_body: chunks, then the last one.
ReadChunked(r, h, u) ==
    IF u.what = "last" THEN [h EXCEPT !.at = "over", !.reusable = h.answer.reuse]
    ELSE LET g == Handle(r, h, u)
         IN  IF g.at = "stops" THEN StopChunked(g) ELSE g

\* drain_chunked_body reads to the last chunk.
Drain(h, u) == IF u.what = "last" THEN [h EXCEPT !.at = "over", !.reusable = TRUE] ELSE h

\* A body of known length, or of unknown length: stopped in it, the
\* connection is not reused.
ReadPlain(r, h, u) ==
    LET g == Handle(r, [h EXCEPT !.length = @ + 1], u)
    IN  IF g.at = "fixed" /\ g.length = Pieces
        THEN [g EXCEPT !.at = "over", !.reusable = g.answer.reuse] ELSE g

\* What is left in the buffer of read_chunked_body ("drop") is lost:
\* drain_chunked_body starts with an empty one.
StartDrain(h) == IF h.at = "drop" THEN [h EXCEPT !.at = "drain"] ELSE h

Parse(r, h, u) ==
    LET g == [h EXCEPT !.own = @ /\ u.of = r]
    IN  CASE h.at = "head" -> ParseHead(g, u)
          [] h.at = "chunked" -> ReadChunked(r, g, u)
          [] h.at \in {"fixed", "rest", "bare"} -> ReadPlain(r, g, u)
          [] h.at = "drain" -> Drain(g, u)
          [] OTHER -> h

\* The coroutine makes what it can of the units a read has given it.
ParseAll(r, h, units) ==
    LET parsed[i \in 0..Len(units)] ==
            IF i = 0 THEN h ELSE Parse(r, parsed[i - 1], units[i])
    IN  parsed[Len(units)]

-----------------------------------------------------------------------------
(* Waiting for the server.                                                 *)

Reading(r) == http[r].at \in {"head", "chunked", "fixed", "rest", "drain"}

\* read_some gets some of what has arrived, and the coroutine runs until it
\* waits again or is done. A body of unknown length on a connection that the
\* server keeps is what came with the head.
Read(r) ==
    /\ Reading(r)
    /\ LET c == http[r].conn
       IN  \E k \in 1..Len(incoming[c]) :
            LET h == ParseAll(r, http[r], SubSeq(incoming[c], 1, k))
                unread == SubSeq(incoming[c], k + 1, Len(incoming[c]))
            IN  CASE h.at = "throws" -> Fail(r, h, "cancelled")
                  [] h.at \in {"over", "stops", "bare"} -> Finish(r, h, unread)
                  [] OTHER -> /\ http' = [http EXCEPT ![r] = StartDrain(h)]
                              /\ incoming' = [incoming EXCEPT ![c] = unread]
                              /\ UNCHANGED <<pool, server>>
    /\ UNCHANGED cancelled

\* End of file, wherever it comes, is an answer: one without a head, one
\* that is not whole, the end of a body of unknown length, or a body whose
\* rest was not drained.
ReadEof(r) ==
    /\ Reading(r) /\ incoming[http[r].conn] = <<>> /\ server[http[r].conn] = "closed"
    /\ Finish(r, http[r], <<>>)
    /\ UNCHANGED cancelled

ReadFails(r) ==
    /\ Reading(r) /\ server[http[r].conn] = "reset"
    /\ Fail(r, http[r], "read")
    /\ UNCHANGED cancelled

\* Mutant: no time-out is armed while the rest of a body is drained.
Armed_NotInDrain(r) == Reading(r) /\ http[r].at # "drain"

\* close_after is armed from the write to the end of the answer.
Armed(r) == Reading(r)

\* Nothing comes for response_timeout.
TimeoutDue(r) ==
    Armed(r) /\ incoming[http[r].conn] = <<>> /\ server[http[r].conn] \in {"open", "silent"}

\* The loop that armed it closes the connection and wakes the waits on it.
ResponseTimeout(r) ==
    /\ TimeoutDue(r)
    /\ Fail(r, http[r], "timeout")
    /\ UNCHANGED cancelled

\* It wakes only the waits in its own pending: not one that was submitted in
\* the same round and is dropped when the loop finds the descriptor closed,
\* nor that of a pooled stream without TLS, which waits on the loop it was
\* made on. The connection is closed and the coroutine never goes on.
TimeoutMissed(r) ==
    /\ TimeoutDue(r)
    /\ Discard(http[r].conn)
    /\ http' = [http EXCEPT ![r] = Left(@, "lost")]
    /\ UNCHANGED <<pool, cancelled>>

\* The steps of request r.
HttpStep(r) ==
    \/ AcquirePooled(r) \/ AcquireNew(r) \/ async_connect(r) \/ ConnectFails(r)
    \/ handshake(r) \/ Send(r)
    \/ Read(r) \/ ReadEof(r) \/ ReadFails(r) \/ ResponseTimeout(r) \/ TimeoutMissed(r)
=============================================================================
